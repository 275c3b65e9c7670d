----------------------------- MODULE HcmServer -----------------------------
(***************************************************************************)
(* One exchange between the TimeOff service and the HCM, at both ends: the *)
(* HTTP call of the client with its abort timer, and the simulator that    *)
(* serves POST time-off in transactions of its write queue while its       *)
(* balances and switches are changed by calls that do not use the queue.   *)
(*                                                                         *)
(* The simulator has one SQLite connection as well: whatever is saved      *)
(* while a transaction is open is committed or rolled back with it, and    *)
(* undo is the database at its BEGIN.  The config row is taken to exist.   *)
(***************************************************************************)
EXTENDS WriteQueue, Integers, Functions

CONSTANTS Puts,         \* calls of PUT balances
          Switches,     \* calls of POST config
          Requests,     \* request ids
          Pairs,        \* employee/location pairs
          Bodies,       \* what a message may ask to be filed
          Asks,         \* bodies each message may come with
          Rows,         \* balance rows the simulator may start with
          PutRows,      \* rows PUT may be asked to leave
          Unparseable,  \* amounts whose decimal form day-utils rejects
          Faults,       \* which of "crash", "tx" may happen
          NoRow,        \* the pair has no balance row
          NotFiled,     \* the request has no applied-request row
          NoUndo,       \* no transaction is open
          NoBody        \* the call has not been made

\* Works of the queue are the messages of POST time-off; each of them names the
\* transaction id (a new UUID) that its filing would be given.
Messages == Works

Row == [amount : Int, valid : BOOLEAN]
Filing == [body : Bodies, txn : Messages, amount : Int]
Config == [down : BOOLEAN, force : BOOLEAN]
Databases == [rows : [Pairs -> Row \cup {NoRow}], config : Config,
              applied : [Requests -> Filing \cup {NotFiled}]]

ASSUME HcmServerAssumption ==
  /\ Bodies \subseteq [request : Requests, pair : Pairs, days : Nat \ {0}]
  /\ Rows \subseteq [amount : Nat, valid : BOOLEAN] \cup {NoRow}
  /\ Asks \in [Messages -> SUBSET Bodies]
  /\ PutRows \subseteq [amount : Nat, valid : BOOLEAN] /\ Faults \subseteq {"crash", "tx"}
  /\ NoRow \notin Row /\ NotFiled \notin Filing
  /\ NoBody \notin Bodies \cup Messages /\ NoUndo \notin Databases

VARIABLES rows, config, applied,  \* the three tables of the simulator
          undo,         \* the tables when the open transaction began
          body,         \* what each message asks for
          client,       \* where the call of the client stands, or how it ended
          told,         \* balance a successful call returned
          at,           \* where the simulator stands with a message
          heard,        \* isUnavailable as a message read it
          found,        \* balance its transaction read
          answer,       \* what it was answered
          put, change,  \* PUT calls: await they stand at, row they are to leave
          switch, copy, \* config calls: likewise, config as they read it
          granted,      \* history: what each balance would be with nothing filed
          mixed         \* history: a PUT was saved inside a transaction

database == <<rows, config, applied, undo>>
clientVars == <<body, client, told>>
serverVars == <<at, heard, found, answer>>
operatorVars == <<put, change, switch, copy>>
history == <<granted, mixed>>
vars == <<queueVars, database, clientVars, serverVars, operatorVars, history>>

Tables == [rows |-> rows, config |-> config, applied |-> applied]

\* What survives a crash, and what a failed transaction goes back to.
Committed == IF undo = NoUndo THEN Tables ELSE undo

InTransaction == {"looking", "checking", "saving", "recording"}
Places == InTransaction \cup {"nowhere", "arriving", "delayed", "queued", "answered", "gone"}
Outcomes == {"filed", "refused", "unavailable", "broken"}

Silence == [kind |-> "none", txn |-> NoBody, amount |-> 0]
Told(filing) == [kind |-> "filed", txn |-> filing.txn, amount |-> filing.amount]
Declined(why) == [Silence EXCEPT !.kind = why]

StateTypeOK ==
  /\ QueueTypeOK
  /\ Tables \in Databases
  /\ undo \in Databases \cup {NoUndo}
  /\ body \in [Messages -> Bodies \cup {NoBody}]
  /\ client \in [Messages -> {"idle", "connecting", "reading"} \cup Outcomes]
  /\ told \in [Messages -> Nat]
  /\ at \in [Messages -> Places]
  /\ heard \in [Messages -> BOOLEAN]
  /\ found \in [Messages -> Int]
  /\ answer \in [Messages -> [kind : {"none", "filed", "refused", "down", "error"},
                              txn : Messages \cup {NoBody}, amount : Int]]
  /\ put \in [Puts -> {"idle", "inserting", "updating", "saved", "failed"}]
  /\ change \in [Puts -> [pair : Pairs, row : Row] \cup {NoBody}]
  /\ switch \in [Switches -> {"idle", "saving", "saved", "failed"}]
  /\ copy \in [Switches -> Config \cup {NoBody}]

TypeOK ==
  /\ StateTypeOK
  /\ granted \in [Pairs -> Int]
  /\ mixed \in [Pairs -> BOOLEAN]

Init ==
  /\ QueueInit
  /\ rows \in [Pairs -> Rows]
  /\ config = [down |-> FALSE, force |-> FALSE]
  /\ applied = [r \in Requests |-> NotFiled]
  /\ undo = NoUndo
  /\ body = [m \in Messages |-> NoBody]
  /\ client = [m \in Messages |-> "idle"]
  /\ told = [m \in Messages |-> 0]
  /\ at = [m \in Messages |-> "nowhere"]
  /\ heard = [m \in Messages |-> FALSE]
  /\ found = [m \in Messages |-> 0]
  /\ answer = [m \in Messages |-> Silence]
  /\ put = [c \in Puts |-> "idle"]
  /\ change = [c \in Puts |-> NoBody]
  /\ switch = [c \in Switches |-> "idle"]
  /\ copy = [c \in Switches |-> NoBody]
  /\ granted = [p \in Pairs |-> IF rows[p] = NoRow THEN 0 ELSE rows[p].amount]
  /\ mixed = [p \in Pairs |-> FALSE]

Parses(n) == n >= 0 /\ n \notin Unparseable

(***************************************************************************)
(* The client: applyTimeOff and request.  The timer runs until the headers *)
(* are there; aborting does not call the message back.                     *)
(***************************************************************************)
Send(m, b) ==
  /\ client[m] = "idle"
  /\ client' = [client EXCEPT ![m] = "connecting"]
  /\ body' = [body EXCEPT ![m] = b]
  /\ at' = [at EXCEPT ![m] = "arriving"]
  /\ UNCHANGED <<queueVars, database, told, heard, found, answer, operatorVars, history>>

\* Mutation of Abort: no timer is set, only a broken connection ends the wait.
AbortOnError(m) ==
  /\ client[m] = "connecting" /\ at[m] = "gone"
  /\ client' = [client EXCEPT ![m] = "unavailable"]
  /\ UNCHANGED <<queueVars, database, body, told, serverVars, operatorVars, history>>

\* The timer, or the connection: 503 either way.
Abort(m) ==
  /\ client[m] = "connecting"
  /\ client' = [client EXCEPT ![m] = "unavailable"]
  /\ UNCHANGED <<queueVars, database, body, told, serverVars, operatorVars, history>>

Headers(m) ==
  /\ client[m] = "connecting" /\ at[m] = "answered"
  /\ client' = [client EXCEPT ![m] = "reading"]
  /\ UNCHANGED <<queueVars, database, body, told, serverVars, operatorVars, history>>

\* 404 and 409 are passed on as they are, 503 as unavailable; anything else,
\* and a body that cannot be read, is neither.
Outcome(reply) ==
  CASE reply.kind = "filed" /\ Parses(reply.amount) -> "filed"
    [] reply.kind = "refused" -> "refused"
    [] reply.kind = "down" -> "unavailable"
    [] OTHER -> "broken"

\* Mutation of Body: the balance is taken as it comes.
BodyUnchecked(m) ==
  /\ client[m] = "reading"
  /\ client' = [client EXCEPT ![m] = IF answer[m].kind = "filed" THEN "filed" ELSE Outcome(answer[m])]
  /\ told' = [told EXCEPT ![m] = answer[m].amount]
  /\ UNCHANGED <<queueVars, database, body, serverVars, operatorVars, history>>

Body(m) ==
  /\ client[m] = "reading"
  /\ client' = [client EXCEPT ![m] = Outcome(answer[m])]
  /\ told' = [told EXCEPT ![m] = IF Outcome(answer[m]) = "filed" THEN answer[m].amount ELSE @]
  /\ UNCHANGED <<queueVars, database, body, serverVars, operatorVars, history>>

BodyFails(m) ==
  /\ client[m] = "reading"
  /\ client' = [client EXCEPT ![m] = "broken"]
  /\ UNCHANGED <<queueVars, database, body, told, serverVars, operatorVars, history>>

(***************************************************************************)
(* The simulator: applyTimeOff.  isUnavailable is read before the response *)
(* delay and acted on after it.                                            *)
(***************************************************************************)
Goto(m, place) == at' = [at EXCEPT ![m] = place]
Answer(m, reply) == answer' = [answer EXCEPT ![m] = reply] /\ Goto(m, "answered")

Ask(m) ==
  /\ at[m] = "arriving"
  /\ Goto(m, "delayed")
  /\ heard' = [heard EXCEPT ![m] = config.down]
  /\ UNCHANGED <<queueVars, database, clientVars, found, answer, operatorVars, history>>

TurnAway(m) ==
  /\ at[m] = "delayed" /\ heard[m]
  /\ Answer(m, Declined("down"))
  /\ heard' = [heard EXCEPT ![m] = FALSE]
  /\ UNCHANGED <<queueVars, database, clientVars, found, operatorVars, history>>

Admit(m) ==
  /\ at[m] = "delayed" /\ ~heard[m]
  /\ Submit(m)
  /\ Goto(m, "queued")
  /\ UNCHANGED <<database, clientVars, heard, found, answer, operatorVars, history>>

\* Mutation of TakeTurn: the transaction does not wait for the queue.
TakeTurnUnqueued(m) ==
  /\ stage[m] = "waiting"
  /\ stage' = [stage EXCEPT ![m] = "running"]
  /\ undo' = IF undo = NoUndo THEN Tables ELSE undo
  /\ Goto(m, "looking")
  /\ UNCHANGED <<tail, waits, ticket, issued, rows, config, applied, clientVars, heard, found, answer,
                 operatorVars, history>>

TakeTurn(m) ==
  /\ Begin(m)
  /\ undo' = Tables
  /\ Goto(m, "looking")
  /\ UNCHANGED <<rows, config, applied, clientVars, heard, found, answer, operatorVars, history>>

Commit == undo' = NoUndo

Rollback ==
  /\ rows' = Committed.rows /\ config' = Committed.config /\ applied' = Committed.applied
  /\ undo' = NoUndo

PairOf(m) == body[m].pair
DaysOf(m) == body[m].days
RecordOf(m) == applied[body[m].request]

\* Mutation of Replay: the payload is not compared.
ReplayAny(m) ==
  /\ at[m] = "looking" /\ RecordOf(m) # NotFiled
  /\ Answer(m, Told(RecordOf(m)))
  /\ Settle(m, "fulfilled") /\ Commit
  /\ UNCHANGED <<rows, config, applied, clientVars, heard, found, operatorVars, history>>

Replay(m) ==
  /\ at[m] = "looking" /\ RecordOf(m) # NotFiled /\ RecordOf(m).body = body[m]
  /\ Answer(m, Told(RecordOf(m)))
  /\ Settle(m, "fulfilled") /\ Commit
  /\ UNCHANGED <<rows, config, applied, clientVars, heard, found, operatorVars, history>>

Refused(m, why) ==
  /\ Answer(m, Declined(why))
  /\ Settle(m, "rejected") /\ Rollback
  /\ found' = [found EXCEPT ![m] = 0]
  /\ UNCHANGED <<clientVars, heard, operatorVars, history>>

\* The request id was used with a different payload.
Mismatch(m) ==
  /\ at[m] = "looking" /\ RecordOf(m) # NotFiled /\ RecordOf(m).body # body[m]
  /\ Refused(m, "refused")

\* Mutation of LookUp: an earlier filing is not noticed.
LookUpNothing(m) ==
  /\ at[m] = "looking"
  /\ Goto(m, "checking")
  /\ UNCHANGED <<queueVars, database, clientVars, heard, found, answer, operatorVars, history>>

LookUp(m) ==
  /\ at[m] = "looking" /\ RecordOf(m) = NotFiled
  /\ Goto(m, "checking")
  /\ UNCHANGED <<queueVars, database, clientVars, heard, found, answer, operatorVars, history>>

CanFile(m) ==
  LET row == rows[PairOf(m)]
  IN  row # NoRow /\ row.valid /\ (row.amount >= DaysOf(m) \/ config.force)

Refuse(m) ==
  /\ at[m] = "checking" /\ ~CanFile(m)
  /\ Refused(m, "refused")

Accept(m) ==
  /\ at[m] = "checking" /\ CanFile(m)
  /\ found' = [found EXCEPT ![m] = rows[PairOf(m)].amount]
  /\ Goto(m, "saving")
  /\ UNCHANGED <<queueVars, database, clientVars, heard, answer, operatorVars, history>>

\* The row is saved as it was read but for the days, whoever saved it since.
Deduct(m) ==
  /\ at[m] = "saving"
  /\ rows' = [rows EXCEPT ![PairOf(m)] = [amount |-> found[m] - DaysOf(m), valid |-> TRUE]]
  /\ Goto(m, "recording")
  /\ UNCHANGED <<queueVars, config, applied, undo, clientVars, heard, found, answer, operatorVars, history>>

FilingOf(m) == [body |-> body[m], txn |-> m, amount |-> found[m] - DaysOf(m)]

\* The record is inserted, all is committed, and the answer leaves.
Record(m) ==
  /\ at[m] = "recording"
  /\ applied' = [applied EXCEPT ![body[m].request] = FilingOf(m)]
  /\ Answer(m, Told(FilingOf(m)))
  /\ Settle(m, "fulfilled") /\ Commit
  /\ found' = [found EXCEPT ![m] = 0]
  /\ UNCHANGED <<rows, config, clientVars, heard, operatorVars, history>>

\* The database refuses a statement, or the commit.
TransactionFails(m) ==
  /\ "tx" \in Faults
  /\ at[m] \in InTransaction
  /\ Refused(m, "error")

(***************************************************************************)
(* PUT balances and POST config: read the row, then save it, both outside  *)
(* the queue.                                                              *)
(***************************************************************************)
FiledDays(filings, p) ==
  LET filed == {r \in Requests : filings[r] # NotFiled /\ filings[r].body.pair = p}
  IN  SumFunction([r \in filed |-> filings[r].body.days])

PutFind(c, p, row) ==
  /\ put[c] = "idle" /\ Parses(row.amount)
  /\ put' = [put EXCEPT ![c] = IF rows[p] = NoRow THEN "inserting" ELSE "updating"]
  /\ change' = [change EXCEPT ![c] = [pair |-> p, row |-> row]]
  /\ UNCHANGED <<queueVars, database, clientVars, serverVars, switch, copy, history>>

PutSaves(p, row) ==
  /\ rows' = [rows EXCEPT ![p] = row]
  /\ granted' = [granted EXCEPT ![p] = row.amount + FiledDays(applied, p)]
  /\ mixed' = [mixed EXCEPT ![p] = undo # NoUndo]

\* Employee and location of a row are unique.
PutSave(c) ==
  /\ put[c] \in {"inserting", "updating"}
  /\ IF put[c] = "inserting" /\ rows[change[c].pair] # NoRow
       THEN put' = [put EXCEPT ![c] = "failed"] /\ UNCHANGED <<rows, history>>
       ELSE put' = [put EXCEPT ![c] = "saved"] /\ PutSaves(change[c].pair, change[c].row)
  /\ change' = [change EXCEPT ![c] = NoBody]
  /\ UNCHANGED <<queueVars, config, applied, undo, clientVars, serverVars, switch, copy>>

SwitchRead(c) ==
  /\ switch[c] = "idle"
  /\ switch' = [switch EXCEPT ![c] = "saving"]
  /\ copy' = [copy EXCEPT ![c] = config]
  /\ UNCHANGED <<queueVars, database, clientVars, serverVars, put, change, history>>

\* The whole row is saved as it was read, but for the switch the call names.
SwitchSave(c, field, v) ==
  /\ switch[c] = "saving"
  /\ switch' = [switch EXCEPT ![c] = "saved"]
  /\ config' = [copy[c] EXCEPT ![field] = v]
  /\ copy' = [copy EXCEPT ![c] = NoBody]
  /\ UNCHANGED <<queueVars, rows, applied, undo, clientVars, serverVars, put, change, history>>

(***************************************************************************)
(* The process of the simulator stops.  Messages on the wire may meet the  *)
(* next process, or nobody.                                                *)
(***************************************************************************)
Crash ==
  /\ "crash" \in Faults
  /\ \/ \E m \in Messages : at[m] \in InTransaction \cup {"delayed", "queued"}
     \/ \E c \in Puts : put[c] \in {"inserting", "updating"}
     \/ \E c \in Switches : switch[c] = "saving"
  /\ Stop
  /\ Rollback
  /\ at' = [m \in Messages |-> IF at[m] \in InTransaction \cup {"delayed", "queued"} THEN "gone" ELSE at[m]]
  /\ put' = [c \in Puts |-> IF put[c] \in {"inserting", "updating"} THEN "failed" ELSE put[c]]
  /\ switch' = [c \in Switches |-> IF switch[c] = "saving" THEN "failed" ELSE switch[c]]
  /\ heard' = [m \in Messages |-> FALSE] /\ found' = [m \in Messages |-> 0]
  /\ change' = [c \in Puts |-> NoBody] /\ copy' = [c \in Switches |-> NoBody]
  /\ UNCHANGED <<clientVars, answer, history>>

Lose(m) ==
  /\ "crash" \in Faults
  /\ at[m] = "arriving"
  /\ Goto(m, "gone")
  /\ UNCHANGED <<queueVars, database, clientVars, heard, found, answer, operatorVars, history>>

(***************************************************************************)
(* The specification.                                                      *)
(***************************************************************************)
ClientStep(m) == Abort(m) \/ Headers(m) \/ Body(m) \/ BodyFails(m)

ServerStep(m) ==
  \/ Ask(m) \/ TurnAway(m) \/ Admit(m) \/ TakeTurn(m)
  \/ Replay(m) \/ Mismatch(m) \/ LookUp(m)
  \/ Refuse(m) \/ Accept(m) \/ Deduct(m) \/ Record(m)
  \/ TransactionFails(m)

Next ==
  \/ \E m \in Messages : \E b \in Asks[m] : Send(m, b)
  \/ \E m \in Messages : ClientStep(m)
  \/ \E m \in Messages : ServerStep(m)
  \/ \E c \in Puts, p \in Pairs, row \in PutRows : PutFind(c, p, row)
  \/ \E c \in Puts : PutSave(c)
  \/ \E c \in Switches : SwitchRead(c)
  \/ \E c \in Switches, field \in {"down", "force"}, v \in BOOLEAN : SwitchSave(c, field, v)
  \/ Crash
  \/ \E m \in Messages : Lose(m)

Spec == Init /\ [][Next]_vars

\* The timer fires if nothing else happens, and a body ends: fetch gives up on
\* one that stalls.  Nothing is assumed of the simulator.
FairSpec == Spec /\ \A m \in Messages : WF_vars(ClientStep(m))

(***************************************************************************)
(* Properties.                                                             *)
(***************************************************************************)
Ledger == INSTANCE HcmLedger WITH record <- Committed.applied

\* The simulator keeps the promises of HcmLedger, in what it has committed:
\* transactions that fail, crashes and repeated messages change nothing of it.
LedgerSpec == Ledger!Spec

\* No filing is lost from a balance and none is deducted twice: a balance and
\* what is filed against it add up to what was granted, unless a PUT was saved
\* while a transaction was open, which may then overwrite it or undo it.
BalanceAddsUp ==
  \A p \in Pairs : Committed.rows[p] # NoRow /\ ~mixed[p] =>
    Committed.rows[p].amount + FiledDays(Committed.applied, p) = granted[p]

\* What the client makes of an exchange is true: a success is the filing of what
\* was asked for; after a 404 or 409 the message has filed nothing and never
\* will.  (After anything else it may have, or may yet.)
OutcomesTrue ==
  \A m \in Messages :
    /\ client[m] = "filed" =>
         LET filing == Committed.applied[body[m].request]
         IN  filing # NotFiled /\ filing.body = body[m] /\ filing.amount = told[m]
    /\ client[m] = "refused" =>
         \A r \in Requests : applied[r] # NotFiled => applied[r].txn # m

\* Under FairSpec: a call of the client ends, however slow the HCM is.
ExchangeEnds == \A m \in Messages : client[m] = "connecting" ~> client[m] \in Outcomes
=============================================================================
