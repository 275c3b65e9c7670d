---------------------------- MODULE ServerProofs ----------------------------
(***************************************************************************)
(* The simulator keeps its ledger and the client reports what is in it,    *)
(* for any messages, requests and balances.  The write queue is what it    *)
(* rests on: what a transaction has not found filed nobody files before    *)
(* the transaction ends.                                                   *)
(***************************************************************************)
EXTENDS HcmServer, QueueProofs, Sums

\* A step of HcmServer is a step of the queue or leaves it alone.
LEMMA StepIsQueueStep == [Next]_vars => [QueueNext]_queueVars
<1> SUFFICES ASSUME [Next]_vars PROVE [QueueNext]_queueVars
  OBVIOUS
<1>1. ASSUME NEW m \in Messages, NEW b \in Asks[m], Send(m, b) PROVE UNCHANGED queueVars
  BY <1>1 DEF Send
<1>2. ASSUME NEW m \in Messages, ClientStep(m) PROVE UNCHANGED queueVars
  BY <1>2 DEF ClientStep, Abort, Headers, Body, BodyFails
<1>3. ASSUME NEW m \in Messages, ServerStep(m) PROVE [QueueNext]_queueVars
  <2>0. m \in Works /\ "fulfilled" \in Settled /\ "rejected" \in Settled
    BY DEF Messages, Settled
  <2>1. CASE Ask(m) BY <2>1 DEF Ask
  <2>2. CASE TurnAway(m) BY <2>2 DEF TurnAway
  <2>3. CASE Admit(m) BY <2>0, <2>3 DEF Admit, QueueNext
  <2>4. CASE TakeTurn(m) BY <2>0, <2>4 DEF TakeTurn, QueueNext
  <2>5. CASE Replay(m) BY <2>0, <2>5 DEF Replay, QueueNext
  <2>6. CASE Mismatch(m) BY <2>0, <2>6 DEF Mismatch, Refused, QueueNext
  <2>7. CASE LookUp(m) BY <2>7 DEF LookUp
  <2>8. CASE Refuse(m) BY <2>0, <2>8 DEF Refuse, Refused, QueueNext
  <2>9. CASE Accept(m) BY <2>9 DEF Accept
  <2>10. CASE Deduct(m) BY <2>10 DEF Deduct
  <2>11. CASE Record(m) BY <2>0, <2>11 DEF Record, QueueNext
  <2>12. CASE TransactionFails(m) BY <2>0, <2>12 DEF TransactionFails, Refused, QueueNext
  <2> QED BY <1>3, <2>1, <2>2, <2>3, <2>4, <2>5, <2>6, <2>7, <2>8, <2>9, <2>10, <2>11, <2>12 DEF ServerStep
<1>4. ASSUME NEW c \in Puts, NEW p \in Pairs, NEW row \in PutRows, PutFind(c, p, row)
      PROVE UNCHANGED queueVars
  BY <1>4 DEF PutFind
<1>5. ASSUME NEW c \in Puts, PutSave(c) PROVE UNCHANGED queueVars
  BY <1>5 DEF PutSave
<1>6. ASSUME NEW c \in Switches, SwitchRead(c) PROVE UNCHANGED queueVars
  BY <1>6 DEF SwitchRead
<1>7. ASSUME NEW c \in Switches, NEW field \in {"down", "force"}, NEW v \in BOOLEAN, SwitchSave(c, field, v)
      PROVE UNCHANGED queueVars
  BY <1>7 DEF SwitchSave
<1>8. CASE Crash BY <1>8 DEF Crash, QueueNext
<1>9. ASSUME NEW m \in Messages, Lose(m) PROVE UNCHANGED queueVars
  BY <1>9 DEF Lose
<1>10. CASE UNCHANGED vars BY <1>10 DEF vars
<1> QED BY <1>1, <1>2, <1>3, <1>4, <1>5, <1>6, <1>7, <1>8, <1>9, <1>10 DEF Next

\* Messages are answered one filing at a time, in the order of their arrival.
THEOREM FilingsAreServedInOrder == Spec => FifoSpec
<1>1. Init => QueueInit BY DEF Init
<1>2. Spec => QueueSpec BY <1>1, StepIsQueueStep, PTL DEF Spec, QueueSpec
<1> QED BY <1>2, QueueIsFifo

(***************************************************************************)
(* The invariant.                                                          *)
(***************************************************************************)
\* Rolling back gives back the filings there are: only a commit adds to them.
Kept == undo # NoUndo => undo.applied = applied

\* Where a message is at both ends and in the queue.
Placed ==
  \A m \in Messages :
    /\ (client[m] = "idle") <=> (body[m] = NoBody)
    /\ (at[m] = "nowhere") <=> (body[m] = NoBody)
    /\ stage[m] = "waiting" => at[m] = "queued"
    /\ at[m] \in InTransaction => stage[m] = "running"
    /\ answer[m] # Silence => at[m] = "answered"

\* A transaction that is past its lookup found nothing filed, and nothing is.
Filing3 == {"checking", "saving", "recording"}
Unfiled == \A m \in Messages : at[m] \in Filing3 => RecordOf(m) = NotFiled

\* Who filed was told so, and who was told so was told of a filing of what it asked.
FilersTold == \A r \in Requests : applied[r] # NotFiled => answer[applied[r].txn].kind = "filed"

ToldTruly ==
  \A m \in Messages : answer[m].kind = "filed" =>
    RecordOf(m) # NotFiled /\ RecordOf(m).body = body[m] /\ RecordOf(m).amount = answer[m].amount

\* The client makes of the answer what it says.
Understood ==
  \A m \in Messages :
    /\ client[m] = "filed" => answer[m].kind = "filed" /\ told[m] = answer[m].amount
    /\ client[m] = "refused" => answer[m].kind = "refused"

\* A call that is about to save has read what it saves.
Loaded ==
  /\ \A c \in Puts : put[c] \in {"inserting", "updating"} => change[c] \in [pair : Pairs, row : Row]
  /\ \A c \in Switches : switch[c] = "saving" => copy[c] \in Config

SInv ==
  /\ QueueInv /\ StateTypeOK /\ Loaded /\ Kept /\ Placed
  /\ Unfiled /\ FilersTold /\ ToldTruly /\ Understood

LEMMA BodiesAreTyped ==
  \A b \in Bodies : b.request \in Requests /\ b.pair \in Pairs /\ b.days \in Nat /\ b.days > 0
<1> SUFFICES ASSUME NEW b \in Bodies
             PROVE b.request \in Requests /\ b.pair \in Pairs /\ b.days \in Nat /\ b.days > 0
  OBVIOUS
<1>1. b \in [request : Requests, pair : Pairs, days : Nat \ {0}] BY HcmServerAssumption
<1> QED BY <1>1

LEMMA RowsAreTyped == (\A row \in PutRows : row \in Row) /\ (\A row \in Rows : row \in Row \cup {NoRow})
BY HcmServerAssumption DEF Row

LEMMA SInvInit == Init => SInv
<1> SUFFICES ASSUME Init PROVE SInv
  OBVIOUS
<1> USE DEF Init
<1>1. QueueInv BY QueueInvInit
<1>2. StateTypeOK
  <2>1. rows \in [Pairs -> Row \cup {NoRow}] BY RowsAreTyped
  <2>2. config \in Config BY DEF Config
  <2>3. applied \in [Requests -> Filing \cup {NotFiled}] OBVIOUS
  <2>4. Tables \in Databases BY <2>1, <2>2, <2>3 DEF Tables, Databases
  <2>5. answer \in [Messages -> [kind : {"none", "filed", "refused", "down", "error"},
                                 txn : Messages \cup {NoBody}, amount : Int]]
    BY DEF Silence
  <2>6. at \in [Messages -> Places] BY DEF Places
  <2> QED BY <1>1, <2>4, <2>5, <2>6 DEF StateTypeOK, QueueInv
<1>3. Loaded /\ Kept /\ Unfiled /\ FilersTold BY DEF Loaded, Kept, Unfiled, FilersTold, Filing3
<1>4. Placed BY DEF Placed, QueueInit, InTransaction, Messages
<1>5. ToldTruly /\ Understood BY DEF ToldTruly, Understood, Silence
<1> QED BY <1>1, <1>2, <1>3, <1>4, <1>5 DEF SInv

\* What a transaction goes back to has the filings there are.
LEMMA CommittedApplied == Kept => Committed.applied = applied
BY DEF Kept, Committed, Tables

LEMMA CommittedTyped ==
  ASSUME SInv
  PROVE  /\ Committed.rows \in [Pairs -> Row \cup {NoRow}]
         /\ Committed.config \in Config
         /\ Committed.applied = applied
         /\ applied \in [Requests -> Filing \cup {NotFiled}]
BY CommittedApplied DEF SInv, StateTypeOK, Committed, Tables, Databases

(***************************************************************************)
(* Types.                                                                  *)
(***************************************************************************)
Replies == [kind : {"none", "filed", "refused", "down", "error"},
            txn : Messages \cup {NoBody}, amount : Int]

TablesTyped ==
  /\ rows \in [Pairs -> Row \cup {NoRow}]
  /\ config \in Config
  /\ applied \in [Requests -> Filing \cup {NotFiled}]
  /\ undo \in Databases \cup {NoUndo}

CallsTyped ==
  /\ body \in [Messages -> Bodies \cup {NoBody}]
  /\ client \in [Messages -> {"idle", "connecting", "reading"} \cup Outcomes]
  /\ told \in [Messages -> Nat]
  /\ at \in [Messages -> Places]
  /\ heard \in [Messages -> BOOLEAN]
  /\ found \in [Messages -> Int]
  /\ answer \in [Messages -> Replies]

OperatorsTyped ==
  /\ put \in [Puts -> {"idle", "inserting", "updating", "saved", "failed"}]
  /\ change \in [Puts -> [pair : Pairs, row : Row] \cup {NoBody}]
  /\ switch \in [Switches -> {"idle", "saving", "saved", "failed"}]
  /\ copy \in [Switches -> Config \cup {NoBody}]

LEMMA TypeParts == StateTypeOK <=> QueueTypeOK /\ TablesTyped /\ CallsTyped /\ OperatorsTyped
BY DEF StateTypeOK, TablesTyped, CallsTyped, OperatorsTyped, Replies, Tables, Databases

LEMMA Declines == \A why \in {"refused", "down", "error"} : Declined(why) \in Replies
BY DEF Declined, Silence, Replies

LEMMA FilingsAreTold == \A f \in Filing : Told(f) \in Replies
BY DEF Told, Filing, Replies

\* An answer that rolls back leaves calls and tables typed.
LEMMA RefusedTyped ==
  ASSUME SInv, NEW m \in Messages, NEW why \in {"refused", "down", "error"}, Refused(m, why)
  PROVE  TablesTyped' /\ CallsTyped'
<1>1. TablesTyped'
  BY CommittedTyped DEF Refused, Rollback, TablesTyped
<1>2. CallsTyped'
  BY TypeParts, Declines DEF SInv, CallsTyped, Refused, Answer, Goto, Places, clientVars
<1> QED BY <1>1, <1>2

LEMMA SendTyped ==
  ASSUME SInv, NEW m \in Messages, NEW b \in Asks[m], Send(m, b)
  PROVE  TablesTyped' /\ CallsTyped' /\ OperatorsTyped'
<1>0. TablesTyped /\ CallsTyped /\ OperatorsTyped BY TypeParts DEF SInv
<1>1. b \in Bodies BY HcmServerAssumption
<1> QED BY <1>0, <1>1 DEF Send, TablesTyped, CallsTyped, OperatorsTyped, database, operatorVars, Outcomes, Places

LEMMA ClientTyped ==
  ASSUME SInv, NEW m \in Messages, ClientStep(m)
  PROVE  TablesTyped' /\ CallsTyped' /\ OperatorsTyped'
<1>0. TablesTyped /\ CallsTyped /\ OperatorsTyped BY TypeParts DEF SInv
<1>1. UNCHANGED <<database, body, serverVars, operatorVars>>
  BY DEF ClientStep, Abort, Headers, Body, BodyFails
<1>2. TablesTyped' /\ OperatorsTyped'
  BY <1>0, <1>1 DEF TablesTyped, OperatorsTyped, database, operatorVars
<1>3. client' \in [Messages -> {"idle", "connecting", "reading"} \cup Outcomes] /\ told' \in [Messages -> Nat]
  <2> USE <1>0 DEF CallsTyped
  <2>1. CASE Abort(m) BY <2>1 DEF Abort, Outcomes
  <2>2. CASE Headers(m) BY <2>2 DEF Headers, Outcomes
  <2>3. CASE Body(m)
    <3>1. Outcome(answer[m]) \in Outcomes BY DEF Outcome, Outcomes
    <3>2. answer[m].amount \in Int BY DEF Replies
    <3>3. Outcome(answer[m]) = "filed" => answer[m].amount \in Nat BY <3>2 DEF Outcome, Parses
    <3> QED BY <2>3, <3>1, <3>3 DEF Body
  <2>4. CASE BodyFails(m) BY <2>4 DEF BodyFails, Outcomes
  <2> QED BY <2>1, <2>2, <2>3, <2>4 DEF ClientStep
<1> QED BY <1>0, <1>1, <1>2, <1>3 DEF CallsTyped, serverVars

LEMMA ServerTyped ==
  ASSUME SInv, NEW m \in Messages, ServerStep(m)
  PROVE  TablesTyped' /\ CallsTyped' /\ OperatorsTyped'
<1>0. TablesTyped /\ CallsTyped /\ OperatorsTyped /\ Tables \in Databases
  BY TypeParts DEF SInv, StateTypeOK
<1>1. OperatorsTyped'
  <2>1. UNCHANGED operatorVars
    BY DEF ServerStep, Ask, TurnAway, Admit, TakeTurn, Replay, Mismatch, LookUp, Refuse, Accept, Deduct,
           Record, TransactionFails, Refused
  <2> QED BY <1>0, <2>1 DEF OperatorsTyped, operatorVars
<1>2. TablesTyped' /\ CallsTyped'
  <2>0. at[m] # "nowhere" => body[m] \in Bodies /\ body[m].request \in Requests
                              /\ PairOf(m) \in Pairs /\ DaysOf(m) \in Nat
    BY <1>0, BodiesAreTyped DEF SInv, Placed, CallsTyped, PairOf, DaysOf
  <2> USE <1>0 DEF TablesTyped, CallsTyped, Places, InTransaction
  <2>1. CASE Ask(m)
    <3>1. config.down \in BOOLEAN BY DEF Config
    <3> QED BY <2>1, <3>1 DEF Ask, Goto, database, clientVars
  <2>2. CASE TurnAway(m) BY <2>2, Declines DEF TurnAway, Answer, Goto, database, clientVars
  <2>3. CASE Admit(m) BY <2>3 DEF Admit, Goto, database, clientVars
  <2>4. CASE TakeTurn(m) BY <2>4 DEF TakeTurn, Goto, clientVars
  <2>5. CASE Replay(m)
    <3>1. RecordOf(m) \in Filing BY <2>0, <2>5 DEF Replay, RecordOf
    <3>2. Told(RecordOf(m)) \in Replies BY <3>1, FilingsAreTold
    <3> QED BY <2>5, <3>2 DEF Replay, Answer, Goto, Commit, clientVars
  <2>6. CASE Mismatch(m) BY <2>6, RefusedTyped DEF Mismatch
  <2>7. CASE LookUp(m) BY <2>7 DEF LookUp, Goto, database, clientVars
  <2>8. CASE Refuse(m) BY <2>8, RefusedTyped DEF Refuse
  <2>9. CASE Accept(m)
    <3>1. rows[PairOf(m)].amount \in Int BY <2>0, <2>9 DEF Accept, CanFile, Row
    <3> QED BY <2>9, <3>1 DEF Accept, Goto, database, clientVars
  <2>10. CASE Deduct(m)
    <3>1. [amount |-> found[m] - DaysOf(m), valid |-> TRUE] \in Row
      BY <2>0, <2>10 DEF Deduct, Row
    <3>2. TablesTyped' BY <2>10, <3>1 DEF Deduct
    <3>3. CallsTyped' BY <2>10 DEF Deduct, Goto, clientVars
    <3> QED BY <3>2, <3>3
  <2>11. CASE Record(m)
    <3>1. FilingOf(m) \in Filing BY <2>0, <2>11 DEF Record, FilingOf, Filing
    <3>2. Told(FilingOf(m)) \in Replies BY <3>1, FilingsAreTold
    <3>3. TablesTyped' BY <2>11, <3>1 DEF Record, Commit
    <3>4. CallsTyped' BY <2>11, <3>2 DEF Record, Answer, Goto, clientVars
    <3> QED BY <3>3, <3>4
  <2>12. CASE TransactionFails(m) BY <2>12, RefusedTyped DEF TransactionFails
  <2> QED BY <2>1, <2>2, <2>3, <2>4, <2>5, <2>6, <2>7, <2>8, <2>9, <2>10, <2>11, <2>12 DEF ServerStep
<1> QED BY <1>1, <1>2

LEMMA OperatorTyped ==
  ASSUME SInv,
         \/ \E c \in Puts, p \in Pairs, row \in PutRows : PutFind(c, p, row)
         \/ \E c \in Puts : PutSave(c)
         \/ \E c \in Switches : SwitchRead(c)
         \/ \E c \in Switches, field \in {"down", "force"}, v \in BOOLEAN : SwitchSave(c, field, v)
  PROVE  TablesTyped' /\ CallsTyped' /\ OperatorsTyped' /\ Loaded'
<1>0. TablesTyped /\ CallsTyped /\ OperatorsTyped /\ Loaded BY TypeParts DEF SInv
<1> DEFINE Typed == TablesTyped /\ CallsTyped /\ OperatorsTyped /\ Loaded
<1>1. ASSUME NEW c \in Puts, NEW p \in Pairs, NEW row \in PutRows, PutFind(c, p, row) PROVE Typed'
  <2>1. [pair |-> p, row |-> row] \in [pair : Pairs, row : Row] BY RowsAreTyped
  <2> QED BY <1>0, <1>1, <2>1
          DEF PutFind, TablesTyped, CallsTyped, OperatorsTyped, Loaded, database, clientVars, serverVars
<1>2. ASSUME NEW c \in Puts, PutSave(c) PROVE Typed'
  <2> USE <1>0, <1>2 DEF PutSave
  <2>1. CallsTyped' BY DEF CallsTyped, clientVars, serverVars
  <2>2. OperatorsTyped' /\ Loaded' BY DEF OperatorsTyped, Loaded
  <2>3. change[c].row \in Row BY DEF Loaded
  <2>4. TablesTyped' BY <2>3 DEF TablesTyped, PutSaves
  <2> QED BY <2>1, <2>2, <2>4
<1>3. ASSUME NEW c \in Switches, SwitchRead(c) PROVE Typed'
  BY <1>0, <1>3 DEF SwitchRead, TablesTyped, CallsTyped, OperatorsTyped, Loaded, database, clientVars, serverVars
<1>4. ASSUME NEW c \in Switches, NEW field \in {"down", "force"}, NEW v \in BOOLEAN, SwitchSave(c, field, v)
      PROVE Typed'
  <2>1. [copy[c] EXCEPT ![field] = v] \in Config BY <1>0, <1>4 DEF SwitchSave, Loaded, Config
  <2> QED BY <1>0, <1>4, <2>1
          DEF SwitchSave, TablesTyped, CallsTyped, OperatorsTyped, Loaded, clientVars, serverVars
<1> QED BY <1>1, <1>2, <1>3, <1>4

LEMMA FaultTyped ==
  ASSUME SInv, Crash \/ \E m \in Messages : Lose(m)
  PROVE  TablesTyped' /\ CallsTyped' /\ OperatorsTyped' /\ Loaded'
<1>0. TablesTyped /\ CallsTyped /\ OperatorsTyped /\ Loaded BY TypeParts DEF SInv
<1>1. CASE Crash
  <2>1. TablesTyped' BY <1>1, CommittedTyped DEF Crash, Rollback, TablesTyped
  <2>2. CallsTyped' BY <1>0, <1>1 DEF Crash, CallsTyped, clientVars, Places
  <2>3. OperatorsTyped' /\ Loaded' BY <1>0, <1>1 DEF Crash, OperatorsTyped, Loaded
  <2> QED BY <2>1, <2>2, <2>3
<1>2. ASSUME NEW m \in Messages, Lose(m) PROVE TablesTyped' /\ CallsTyped' /\ OperatorsTyped' /\ Loaded'
  BY <1>0, <1>2
     DEF Lose, Goto, TablesTyped, CallsTyped, OperatorsTyped, Loaded, database, clientVars, operatorVars, Places
<1> QED BY <1>1, <1>2

LEMMA LoadedStays ==
  ASSUME SInv, UNCHANGED operatorVars
  PROVE  Loaded'
BY DEF SInv, Loaded, operatorVars

LEMMA TypesStep == SInv /\ [Next]_vars => StateTypeOK' /\ Loaded'
<1> SUFFICES ASSUME SInv, [Next]_vars PROVE StateTypeOK' /\ Loaded'
  OBVIOUS
<1>0. QueueTypeOK' BY StepIsQueueStep, QueueTypeStep DEF SInv
<1> DEFINE Typed == TablesTyped /\ CallsTyped /\ OperatorsTyped /\ Loaded
<1>1. ASSUME NEW m \in Messages, NEW b \in Asks[m], Send(m, b) PROVE Typed'
  <2>1. UNCHANGED operatorVars BY <1>1 DEF Send
  <2> QED BY <1>1, <2>1, SendTyped, LoadedStays
<1>2. ASSUME NEW m \in Messages, ClientStep(m) PROVE Typed'
  <2>1. UNCHANGED operatorVars BY <1>2 DEF ClientStep, Abort, Headers, Body, BodyFails
  <2> QED BY <1>2, <2>1, ClientTyped, LoadedStays
<1>3. ASSUME NEW m \in Messages, ServerStep(m) PROVE Typed'
  <2>1. UNCHANGED operatorVars
    BY <1>3 DEF ServerStep, Ask, TurnAway, Admit, TakeTurn, Replay, Mismatch, LookUp, Refuse, Accept, Deduct,
                Record, TransactionFails, Refused
  <2> QED BY <1>3, <2>1, ServerTyped, LoadedStays
<1>4. ASSUME UNCHANGED vars PROVE Typed'
  <2>0. TablesTyped /\ CallsTyped /\ OperatorsTyped BY TypeParts DEF SInv
  <2>1. UNCHANGED database /\ UNCHANGED clientVars /\ UNCHANGED serverVars /\ UNCHANGED operatorVars
    BY <1>4 DEF vars
  <2>2. TablesTyped' BY <2>0, <2>1 DEF TablesTyped, database
  <2>3. CallsTyped' BY <2>0, <2>1 DEF CallsTyped, clientVars, serverVars
  <2>4. OperatorsTyped' BY <2>0, <2>1 DEF OperatorsTyped, operatorVars
  <2>5. Loaded' BY <2>1, LoadedStays
  <2> QED BY <2>2, <2>3, <2>4, <2>5
<1>5. ASSUME \/ \E c \in Puts, p \in Pairs, row \in PutRows : PutFind(c, p, row)
             \/ \E c \in Puts : PutSave(c)
             \/ \E c \in Switches : SwitchRead(c)
             \/ \E c \in Switches, field \in {"down", "force"}, v \in BOOLEAN : SwitchSave(c, field, v)
      PROVE Typed'
  BY <1>5, OperatorTyped
<1>6. ASSUME Crash \/ \E m \in Messages : Lose(m) PROVE Typed'
  BY <1>6, FaultTyped
<1>7. Typed' BY <1>1, <1>2, <1>3, <1>4, <1>5, <1>6, Zenon DEF Next
<1>8. (StateTypeOK <=> QueueTypeOK /\ TablesTyped /\ CallsTyped /\ OperatorsTyped)'
  BY DEF StateTypeOK, TablesTyped, CallsTyped, OperatorsTyped, Replies, Tables, Databases
<1> QED BY <1>0, <1>7, <1>8

(***************************************************************************)
(* Places.                                                                 *)
(***************************************************************************)
LEMMA PlacedStep == SInv /\ [Next]_vars => Placed'
<1> SUFFICES ASSUME SInv, [Next]_vars PROVE Placed'
  OBVIOUS
<1>0. Placed /\ CallsTyped /\ stage \in [Works -> Stages] /\ Messages = Works
  BY TypeParts DEF SInv, QueueInv, QueueTypeOK, Messages
<1> USE <1>0 DEF Placed, CallsTyped, InTransaction
<1>1. ASSUME NEW m \in Messages, NEW b \in Asks[m], Send(m, b) PROVE Placed'
  <2>1. b \in Bodies /\ b # NoBody BY HcmServerAssumption
  <2>2. client[m] = "idle" /\ body[m] = NoBody /\ at[m] = "nowhere" BY <1>1 DEF Send
  <2>3. UNCHANGED <<stage, answer>> BY <1>1 DEF Send, queueVars
  <2> QED BY <1>1, <2>1, <2>2, <2>3 DEF Send
<1>2. ASSUME NEW m \in Messages, ClientStep(m) PROVE Placed'
  <2>1. UNCHANGED <<stage, body, at, answer>>
    BY <1>2 DEF ClientStep, Abort, Headers, Body, BodyFails, queueVars, serverVars
  <2>2. \A n \in Messages : (client'[n] = "idle") <=> (client[n] = "idle")
    BY <1>2 DEF ClientStep, Abort, Headers, Body, BodyFails, Outcome
  <2> QED BY <2>1, <2>2
<1>3. ASSUME NEW m \in Messages, ServerStep(m) PROVE Placed'
  <2>0. UNCHANGED <<client, body>>
    BY <1>3 DEF ServerStep, Ask, TurnAway, Admit, TakeTurn, Replay, Mismatch, LookUp, Refuse, Accept, Deduct,
                Record, TransactionFails, Refused, clientVars
  <2>1. ASSUME NEW why, Refused(m, why), at[m] \in InTransaction PROVE Placed'
    BY <2>0, <2>1 DEF Refused, Answer, Goto, Settle
  <2>2. CASE Ask(m) BY <2>0, <2>2 DEF Ask, Goto, queueVars
  <2>3. CASE TurnAway(m) BY <2>0, <2>3 DEF TurnAway, Answer, Goto, queueVars
  <2>4. CASE Admit(m) BY <2>0, <2>4 DEF Admit, Goto, Submit
  <2>5. CASE TakeTurn(m) BY <2>0, <2>5 DEF TakeTurn, Goto, Begin
  <2>6. CASE Replay(m) BY <2>0, <2>6 DEF Replay, Answer, Goto, Settle
  <2>7. CASE LookUp(m) BY <2>0, <2>7 DEF LookUp, Goto, queueVars
  <2>8. CASE Accept(m) BY <2>0, <2>8 DEF Accept, Goto, queueVars
  <2>9. CASE Deduct(m) BY <2>0, <2>9 DEF Deduct, Goto, queueVars
  <2>10. CASE Record(m) BY <2>0, <2>10 DEF Record, Answer, Goto, Settle
  <2>11. CASE Mismatch(m) \/ Refuse(m) \/ TransactionFails(m)
    BY <2>1, <2>11 DEF Mismatch, Refuse, TransactionFails
  <2> QED BY <1>3, <2>2, <2>3, <2>4, <2>5, <2>6, <2>7, <2>8, <2>9, <2>10, <2>11 DEF ServerStep
<1>4. ASSUME NEW c \in Puts, NEW p \in Pairs, NEW row \in PutRows, PutFind(c, p, row) PROVE Placed'
  BY <1>4 DEF PutFind, queueVars, clientVars, serverVars
<1>5. ASSUME NEW c \in Puts, PutSave(c) PROVE Placed'
  BY <1>5 DEF PutSave, queueVars, clientVars, serverVars
<1>6. ASSUME NEW c \in Switches, SwitchRead(c) PROVE Placed'
  BY <1>6 DEF SwitchRead, queueVars, clientVars, serverVars
<1>7. ASSUME NEW c \in Switches, NEW field \in {"down", "force"}, NEW v \in BOOLEAN, SwitchSave(c, field, v)
      PROVE Placed'
  BY <1>7 DEF SwitchSave, queueVars, clientVars, serverVars
<1>8. CASE Crash BY <1>8 DEF Crash, Stop, clientVars
<1>9. ASSUME NEW m \in Messages, Lose(m) PROVE Placed'
  BY <1>9 DEF Lose, Goto, queueVars, clientVars
<1>10. CASE UNCHANGED vars BY <1>10 DEF vars, queueVars, clientVars, serverVars
<1> QED BY <1>1, <1>2, <1>3, <1>4, <1>5, <1>6, <1>7, <1>8, <1>9, <1>10 DEF Next

\* A rolled back transaction leaves the filings as they are.
LEMMA RollbackKeepsFilings == ASSUME SInv, Rollback PROVE applied' = applied /\ undo' = NoUndo
BY CommittedTyped DEF Rollback

(***************************************************************************)
(* What a step may do with the filings and the answers.                    *)
(***************************************************************************)
Declining(m) ==
  /\ at[m] \in InTransaction \cup {"delayed"}
  /\ \E why \in {"refused", "down", "error"} : answer' = [answer EXCEPT ![m] = Declined(why)]
  /\ Goto(m, "answered")
  /\ UNCHANGED <<clientVars, applied>>

Walking ==
  /\ UNCHANGED <<clientVars, applied, answer>>
  /\ \A m \in Messages : at'[m] \in Filing3 => at[m] \in Filing3 \/ RecordOf(m) = NotFiled

LEMMA StepKinds ==
  ASSUME SInv, [Next]_vars
  PROVE  \/ \E m \in Messages : \E b \in Asks[m] : Send(m, b)
         \/ \E m \in Messages : ClientStep(m)
         \/ \E m \in Messages : Declining(m) \/ Replay(m) \/ Record(m)
         \/ Walking
<1>0. CallsTyped BY TypeParts DEF SInv
<1> DEFINE Goal == (\E m \in Messages : Declining(m) \/ Replay(m) \/ Record(m)) \/ Walking
<1>1. ASSUME NEW m \in Messages, ServerStep(m) PROVE Goal
  <2>1. ASSUME NEW why \in {"refused", "down", "error"}, Refused(m, why), at[m] \in InTransaction
        PROVE Declining(m)
    BY <2>1, RollbackKeepsFilings DEF Refused, Answer, Declining
  <2>2. CASE Ask(m) BY <1>0, <2>2 DEF Ask, Walking, Goto, database, CallsTyped, Filing3
  <2>3. CASE TurnAway(m) BY <2>3 DEF TurnAway, Answer, Declining, database
  <2>4. CASE Admit(m) BY <1>0, <2>4 DEF Admit, Walking, Goto, database, CallsTyped, Filing3
  <2>5. CASE TakeTurn(m) BY <1>0, <2>5 DEF TakeTurn, Walking, Goto, CallsTyped, Filing3
  <2>6. CASE LookUp(m) BY <1>0, <2>6 DEF LookUp, Walking, Goto, database, CallsTyped, Filing3
  <2>7. CASE Accept(m) BY <1>0, <2>7 DEF Accept, Walking, Goto, database, CallsTyped, Filing3
  <2>8. CASE Deduct(m) BY <1>0, <2>8 DEF Deduct, Walking, Goto, CallsTyped, Filing3
  <2>9. CASE Mismatch(m) BY <2>1, <2>9 DEF Mismatch, InTransaction
  <2>10. CASE Refuse(m) BY <2>1, <2>10 DEF Refuse, InTransaction
  <2>11. CASE TransactionFails(m) BY <2>1, <2>11 DEF TransactionFails
  <2> QED BY <1>1, <2>2, <2>3, <2>4, <2>5, <2>6, <2>7, <2>8, <2>9, <2>10, <2>11 DEF ServerStep
<1>2. ASSUME NEW c \in Puts, NEW p \in Pairs, NEW row \in PutRows, PutFind(c, p, row) PROVE Walking
  BY <1>2 DEF PutFind, Walking, database, serverVars
<1>3. ASSUME NEW c \in Puts, PutSave(c) PROVE Walking
  BY <1>3 DEF PutSave, Walking, serverVars
<1>4. ASSUME NEW c \in Switches, SwitchRead(c) PROVE Walking
  BY <1>4 DEF SwitchRead, Walking, database, serverVars
<1>5. ASSUME NEW c \in Switches, NEW field \in {"down", "force"}, NEW v \in BOOLEAN, SwitchSave(c, field, v)
      PROVE Walking
  BY <1>5 DEF SwitchSave, Walking, serverVars
<1>6. CASE Crash
  BY <1>6, RollbackKeepsFilings DEF Crash, Walking, Filing3, InTransaction
<1>7. ASSUME NEW m \in Messages, Lose(m) PROVE Walking
  BY <1>0, <1>7 DEF Lose, Walking, Goto, database, CallsTyped, Filing3
<1>8. CASE UNCHANGED vars BY <1>8 DEF vars, Walking, database, clientVars, serverVars
<1> QED BY <1>1, <1>2, <1>3, <1>4, <1>5, <1>6, <1>7, <1>8 DEF Next

LEMMA KeptStep == SInv /\ [Next]_vars => Kept'
<1> SUFFICES ASSUME SInv, [Next]_vars PROVE Kept'
  OBVIOUS
<1>1. ASSUME UNCHANGED <<undo, applied>> PROVE Kept'
  BY <1>1 DEF SInv, Kept
<1>2. ASSUME undo' = NoUndo PROVE Kept'
  BY <1>2 DEF Kept
<1>3. ASSUME NEW m \in Messages, ServerStep(m) PROVE Kept'
  <2>1. CASE TakeTurn(m) BY <2>1 DEF TakeTurn, Tables, Kept
  <2>2. CASE Ask(m) \/ TurnAway(m) \/ Admit(m) \/ LookUp(m) \/ Accept(m) \/ Deduct(m)
    BY <1>1, <2>2 DEF Ask, TurnAway, Admit, LookUp, Accept, Deduct, database
  <2>3. CASE Replay(m) \/ Mismatch(m) \/ Refuse(m) \/ Record(m) \/ TransactionFails(m)
    BY <1>2, <2>3 DEF Replay, Mismatch, Refuse, Record, TransactionFails, Refused, Rollback, Commit
  <2> QED BY <1>3, <2>1, <2>2, <2>3 DEF ServerStep
<1>4. ASSUME NEW m \in Messages, ClientStep(m) \/ Lose(m) \/ \E b \in Asks[m] : Send(m, b) PROVE Kept'
  BY <1>1, <1>4 DEF ClientStep, Abort, Headers, Body, BodyFails, Lose, Send, database
<1>5. ASSUME NEW c \in Puts, PutSave(c) \/ \E p \in Pairs, row \in PutRows : PutFind(c, p, row) PROVE Kept'
  BY <1>1, <1>5 DEF PutSave, PutFind, database
<1>6. ASSUME NEW c \in Switches,
             SwitchRead(c) \/ \E field \in {"down", "force"}, v \in BOOLEAN : SwitchSave(c, field, v)
      PROVE Kept'
  BY <1>1, <1>6 DEF SwitchRead, SwitchSave, database
<1>7. CASE Crash BY <1>2, <1>7 DEF Crash, Rollback
<1>8. CASE UNCHANGED vars BY <1>1, <1>8 DEF vars, database
<1> QED BY <1>3, <1>4, <1>5, <1>6, <1>7, <1>8 DEF Next

(***************************************************************************)
(* Filings and answers.                                                    *)
(***************************************************************************)
\* What is known of a message in the simulator's hands.
LEMMA InHand ==
  ASSUME SInv, NEW m \in Messages, at[m] \notin {"nowhere", "answered"}
  PROVE  /\ body[m] \in Bodies /\ body[m] # NoBody /\ body[m].request \in Requests /\ DaysOf(m) \in Nat
         /\ answer[m] = Silence
         /\ client[m] \notin {"idle", "filed", "refused"}
<1>1. CallsTyped /\ Placed /\ Understood BY TypeParts DEF SInv
<1>2. answer[m] = Silence BY <1>1 DEF Placed
<1>3. body[m] # NoBody /\ body[m] \in Bodies BY <1>1 DEF CallsTyped, Placed
<1>4. client[m] \notin {"idle", "filed", "refused"}
  BY <1>1, <1>2, <1>3 DEF Placed, Understood, Silence
<1> QED BY <1>2, <1>3, <1>4, BodiesAreTyped DEF DaysOf

LEMMA FilingAtRecord ==
  ASSUME SInv, NEW m \in Messages, at[m] = "recording"
  PROVE  FilingOf(m) \in Filing /\ FilingOf(m) # NotFiled
<1>1. found[m] \in Int BY TypeParts DEF SInv, CallsTyped
<1>2. FilingOf(m) \in Filing BY <1>1, InHand DEF FilingOf, Filing
<1> QED BY <1>2, HcmServerAssumption

\* The transactions that run are one.
LEMMA UnfiledStep == SInv /\ [Next]_vars => Unfiled'
<1> SUFFICES ASSUME SInv, [Next]_vars, NEW n \in Messages, at'[n] \in Filing3 PROVE RecordOf(n)' = NotFiled
  BY DEF Unfiled
<1>0. CallsTyped /\ Unfiled /\ Placed BY TypeParts DEF SInv
<1> USE <1>0 DEF CallsTyped, RecordOf, Filing3
<1>1. ASSUME NEW m \in Messages, NEW b \in Asks[m], Send(m, b) PROVE RecordOf(n)' = NotFiled
  BY <1>1 DEF Send, Unfiled, database
<1>2. ASSUME NEW m \in Messages, ClientStep(m) PROVE RecordOf(n)' = NotFiled
  BY <1>2 DEF ClientStep, Abort, Headers, Body, BodyFails, Unfiled, database, serverVars
<1>3. ASSUME NEW m \in Messages, Declining(m) \/ Replay(m) PROVE RecordOf(n)' = NotFiled
  BY <1>3 DEF Declining, Replay, Answer, Goto, Unfiled, clientVars
<1>4. ASSUME NEW m \in Messages, Record(m) PROVE RecordOf(n)' = NotFiled
  <2>1. n # m /\ at[n] \in Filing3 /\ at[m] \in Filing3
    BY <1>4 DEF Record, Answer, Goto
  <2>2. stage[n] = "running" /\ stage[m] = "running" /\ n \in Works /\ m \in Works
    BY <2>1 DEF Placed, InTransaction, Messages
  <2>3. n = m BY <2>2, OneRuns DEF SInv
  <2> QED BY <2>1, <2>3
<1>5. CASE Walking BY <1>5 DEF Walking, Unfiled, clientVars
<1> QED BY <1>1, <1>2, <1>3, <1>4, <1>5, StepKinds

LEMMA AnswersStep == SInv /\ [Next]_vars => (FilersTold /\ ToldTruly)'
<1> SUFFICES ASSUME SInv, [Next]_vars PROVE (FilersTold /\ ToldTruly)'
  OBVIOUS
<1>0. CallsTyped /\ FilersTold /\ ToldTruly /\ Placed /\ applied \in [Requests -> Filing \cup {NotFiled}]
  BY TypeParts DEF SInv, TablesTyped
<1>01. \A r \in Requests : applied[r] # NotFiled => applied[r] \in Filing /\ applied[r].txn \in Messages
  BY <1>0 DEF Filing
<1> DEFINE Goal == FilersTold /\ ToldTruly
<1>1. ASSUME NEW m \in Messages, NEW b \in Asks[m], Send(m, b) PROVE Goal'
  <2>1. UNCHANGED <<applied, answer>> /\ body' = [body EXCEPT ![m] = b] BY <1>1 DEF Send, database
  <2>2. FilersTold' BY <1>0, <2>1 DEF FilersTold
  <2>3. answer[m] = Silence BY <1>0, <1>1 DEF Send, Placed
  <2>4. ToldTruly' BY <1>0, <2>1, <2>3 DEF ToldTruly, RecordOf, CallsTyped, Silence
  <2> QED BY <2>2, <2>4
<1>2. ASSUME NEW m \in Messages, ClientStep(m) PROVE Goal'
  <2>1. UNCHANGED <<applied, answer, body>>
    BY <1>2 DEF ClientStep, Abort, Headers, Body, BodyFails, database, serverVars
  <2> QED BY <1>0, <2>1 DEF FilersTold, ToldTruly, RecordOf
<1>3. ASSUME NEW m \in Messages, Declining(m) PROVE Goal'
  <2>1. /\ answer[m] = Silence /\ answer'[m].kind # "filed" /\ UNCHANGED <<applied, body>>
        /\ \A n \in Messages \ {m} : answer'[n] = answer[n]
    BY <1>0, <1>3, InHand DEF Declining, InTransaction, Declined, Silence, CallsTyped, clientVars
  <2>2. FilersTold' BY <1>0, <1>01, <2>1 DEF FilersTold, Silence
  <2>3. ToldTruly' BY <1>0, <2>1 DEF ToldTruly, RecordOf
  <2> QED BY <2>2, <2>3
<1>4. ASSUME NEW m \in Messages, Replay(m) PROVE Goal'
  <2>1. /\ UNCHANGED <<applied, body>> /\ answer'[m] = Told(RecordOf(m))
        /\ \A n \in Messages \ {m} : answer'[n] = answer[n]
    BY <1>0, <1>4 DEF Replay, Answer, CallsTyped, clientVars
  <2>2. FilersTold' BY <1>0, <1>01, <2>1 DEF FilersTold, Told
  <2>3. ToldTruly' BY <1>0, <1>4, <2>1 DEF ToldTruly, RecordOf, Replay, Told
  <2> QED BY <2>2, <2>3
<1>5. ASSUME NEW m \in Messages, Record(m) PROVE Goal'
  <2>1. at[m] = "recording" BY <1>5 DEF Record
  <2>2. /\ UNCHANGED body /\ answer'[m] = Told(FilingOf(m))
        /\ \A n \in Messages \ {m} : answer'[n] = answer[n]
    BY <1>0, <1>5 DEF Record, Answer, CallsTyped, clientVars
  <2>3. body[m].request \in Requests /\ RecordOf(m) = NotFiled
    BY <2>1, InHand DEF SInv, Unfiled, Filing3
  <2>4. /\ applied'[body[m].request] = FilingOf(m)
        /\ \A r \in Requests \ {body[m].request} : applied'[r] = applied[r]
    BY <1>0, <1>5, <2>3 DEF Record
  <2>5. FilersTold'
    BY <1>0, <1>01, <2>2, <2>3, <2>4 DEF FilersTold, Told, FilingOf
  <2>6. \A n \in Messages : answer[n].kind = "filed" => RecordOf(n)' = RecordOf(n) /\ n # m
    <3> SUFFICES ASSUME NEW n \in Messages, answer[n].kind = "filed"
                 PROVE RecordOf(n)' = RecordOf(n) /\ n # m
      OBVIOUS
    <3>1. RecordOf(n) # NotFiled BY <1>0 DEF ToldTruly
    <3>2. answer[n] # Silence BY DEF Silence
    <3>3. body[n] \in Bodies /\ body[n].request \in Requests
      BY <1>0, <3>2, BodiesAreTyped DEF Placed, CallsTyped
    <3>4. body[n].request # body[m].request BY <2>3, <3>1 DEF RecordOf
    <3> QED BY <2>2, <2>4, <3>3, <3>4 DEF RecordOf
  <2>7. ToldTruly'
    <3> SUFFICES ASSUME NEW n \in Messages, answer'[n].kind = "filed"
                 PROVE (RecordOf(n) # NotFiled /\ RecordOf(n).body = body[n] /\ RecordOf(n).amount = answer[n].amount)'
      BY DEF ToldTruly
    <3>1. CASE n = m
      BY <2>1, <2>2, <2>4, <3>1, FilingAtRecord DEF RecordOf, FilingOf, Told
    <3>2. CASE n # m
      BY <1>0, <2>2, <2>6, <3>2 DEF ToldTruly
    <3> QED BY <3>1, <3>2
  <2> QED BY <2>5, <2>7
<1>6. ASSUME Walking PROVE Goal'
  BY <1>0, <1>6 DEF Walking, FilersTold, ToldTruly, RecordOf, clientVars
<1> QED BY <1>1, <1>2, <1>3, <1>4, <1>5, <1>6, StepKinds

LEMMA UnderstoodStep == SInv /\ [Next]_vars => Understood'
<1> SUFFICES ASSUME SInv, [Next]_vars PROVE Understood'
  OBVIOUS
<1>0. CallsTyped /\ Understood /\ Placed BY TypeParts DEF SInv
<1> USE <1>0 DEF Understood, CallsTyped
<1>1. ASSUME NEW m \in Messages, NEW b \in Asks[m], Send(m, b) PROVE Understood'
  BY <1>1 DEF Send
<1>2. ASSUME NEW m \in Messages, ClientStep(m) PROVE Understood'
  BY <1>2 DEF ClientStep, Abort, Headers, Body, BodyFails, Outcome, serverVars
<1>3. ASSUME NEW m \in Messages, Declining(m) \/ Replay(m) \/ Record(m) PROVE Understood'
  <2>1. client[m] \notin {"filed", "refused"}
    BY <1>3, InHand DEF Declining, Replay, Record, InTransaction
  <2>2. /\ UNCHANGED <<client, told>>
        /\ \A n \in Messages \ {m} : answer'[n] = answer[n]
    BY <1>3 DEF Declining, Replay, Record, Answer, clientVars
  <2> QED BY <2>1, <2>2
<1>4. CASE Walking BY <1>4 DEF Walking, clientVars
<1> QED BY <1>1, <1>2, <1>3, <1>4, StepKinds

LEMMA SInvStep == SInv /\ [Next]_vars => SInv'
BY StepIsQueueStep, QueueInvStep, TypesStep, PlacedStep, KeptStep, UnfiledStep, AnswersStep, UnderstoodStep
   DEF SInv

LEMMA SInvHolds == Spec => []SInv
BY SInvInit, SInvStep, PTL DEF Spec

\* hcm-client.service.ts: what the client makes of an exchange is true of what the
\* HCM has committed, and stays true.
THEOREM OutcomesAreTrue == Spec => []OutcomesTrue
<1>1. SInv => OutcomesTrue
  <2> SUFFICES ASSUME SInv, NEW m \in Messages
               PROVE /\ client[m] = "filed" =>
                          LET filing == Committed.applied[body[m].request]
                          IN  filing # NotFiled /\ filing.body = body[m] /\ filing.amount = told[m]
                     /\ client[m] = "refused" =>
                          \A r \in Requests : applied[r] # NotFiled => applied[r].txn # m
    BY DEF OutcomesTrue
  <2>1. Committed.applied = applied BY CommittedTyped
  <2> QED BY <2>1 DEF SInv, ToldTruly, FilersTold, Understood, RecordOf
<1> QED BY <1>1, SInvHolds, PTL

\* A step of the exchange is a step of the ledger or none of its business.
LEMMA StepIsLedgerStep == SInv /\ [Next]_vars /\ SInv' => [Ledger!Next]_(Ledger!ledgerVars)
<1> SUFFICES ASSUME SInv, [Next]_vars, SInv' PROVE [Ledger!Next]_(Ledger!ledgerVars)
  OBVIOUS
<1>0. /\ Committed.applied = applied /\ (Committed.applied)' = applied'
      /\ CallsTyped /\ Placed /\ applied \in [Requests -> Filing \cup {NotFiled}]
  <2>1. Committed.applied = applied /\ applied \in [Requests -> Filing \cup {NotFiled}]
    BY CommittedTyped
  <2>2. (Committed.applied)' = applied' BY DEF SInv, Kept, Committed, Tables
  <2>3. CallsTyped /\ Placed BY TypeParts DEF SInv
  <2> QED BY <2>1, <2>2, <2>3
<1>1. ASSUME NEW m \in Messages, NEW b \in Asks[m], Send(m, b) PROVE Ledger!Next
  <2>1. b \in Bodies BY HcmServerAssumption
  <2>2. Ledger!Send(m, b) BY <1>0, <1>1 DEF Send, Placed, Ledger!Send, database
  <2> QED BY <2>1, <2>2 DEF Ledger!Next
<1>2. ASSUME NEW m \in Messages, ClientStep(m) PROVE UNCHANGED Ledger!ledgerVars
  BY <1>0, <1>2 DEF ClientStep, Abort, Headers, Body, BodyFails, Ledger!ledgerVars, database, serverVars
<1>3. ASSUME NEW m \in Messages, Declining(m) PROVE Ledger!Next
  <2>1. answer[m] = Silence /\ body[m] # NoBody /\ UNCHANGED <<applied, body>>
    BY <1>3, InHand DEF Declining, InTransaction, clientVars
  <2>2. PICK why \in {"refused", "down", "error"} : answer' = [answer EXCEPT ![m] = Declined(why)]
    BY <1>3 DEF Declining
  <2>3. answer'[m] = Declined(why) /\ Declined(why) \in Ledger!Declined
    BY <1>0, <2>2 DEF CallsTyped, Declined, Silence, Ledger!Declined
  <2>4. Ledger!Decline(m)
    BY <1>0, <2>1, <2>2, <2>3 DEF Ledger!Decline, Ledger!Silence, Silence
  <2> QED BY <2>4 DEF Ledger!Next
<1>4. ASSUME NEW m \in Messages, Replay(m) PROVE Ledger!Next
  <2>1. answer[m] = Silence /\ body[m] # NoBody /\ body[m].request \in Requests
    BY <1>4, InHand DEF Replay
  <2>2. Ledger!Replay(m, body[m].request)
    BY <1>0, <1>4, <2>1
       DEF Replay, RecordOf, Answer, clientVars, Silence, Told, Ledger!Replay, Ledger!Silence, Ledger!Told
  <2> QED BY <2>1, <2>2 DEF Ledger!Next
<1>5. ASSUME NEW m \in Messages, Record(m) PROVE Ledger!Next
  <2> DEFINE r == body[m].request
  <2>1. at[m] = "recording" BY <1>5 DEF Record
  <2>2. /\ answer[m] = Silence /\ body[m] # NoBody /\ r \in Requests
        /\ applied[r] = NotFiled /\ found[m] - DaysOf(m) \in Int
    BY <1>0, <2>1, InHand DEF SInv, Unfiled, Filing3, RecordOf, CallsTyped
  <2>3. /\ applied' = [applied EXCEPT ![r] = FilingOf(m)]
        /\ answer' = [answer EXCEPT ![m] = Told(FilingOf(m))]
        /\ UNCHANGED body
    BY <1>5 DEF Record, Answer, clientVars
  <2>4. applied'[r] = FilingOf(m) BY <1>0, <2>2, <2>3
  <2>5. FilingOf(m) \in [body : {body[m]}, txn : {m}, amount : Int]
    BY <2>2 DEF FilingOf
  <2>6. Ledger!File(m, r)
    BY <1>0, <2>2, <2>3, <2>4, <2>5 DEF Silence, Told, Ledger!File, Ledger!Silence, Ledger!Told
  <2> QED BY <2>2, <2>6 DEF Ledger!Next
<1>6. ASSUME Walking PROVE UNCHANGED Ledger!ledgerVars
  BY <1>0, <1>6 DEF Walking, Ledger!ledgerVars, clientVars
<1> QED BY <1>1, <1>2, <1>3, <1>4, <1>5, <1>6, StepKinds

\* hcm.service.ts: a request is filed once and for good, whoever asks and however
\* often, and everyone is answered from that one filing.
THEOREM ServerKeepsLedger == Spec => LedgerSpec
<1>1. Init => Ledger!Init
  BY DEF Init, Ledger!Init, Ledger!Silence, Silence, Committed, Tables
<1>2. Spec => []SInv BY SInvHolds
<1> QED BY <1>1, <1>2, StepIsLedgerStep, PTL DEF Spec, LedgerSpec, Ledger!Spec

(***************************************************************************)
(* Balances.  While a transaction is open, a row that no PUT was mixed     *)
(* into is what it was at its BEGIN, less the days of the filing that is   *)
(* about to be recorded.                                                   *)
(***************************************************************************)
HistoryTyped == granted \in [Pairs -> Int] /\ mixed \in [Pairs -> BOOLEAN]

FilingsFinite == IsFiniteSet({r \in Requests : applied[r] # NotFiled})

OpenWithOne == (undo # NoUndo) <=> \E m \in Messages : at[m] \in InTransaction

Balanced ==
  \A p \in Pairs : Committed.rows[p] # NoRow /\ ~mixed[p] =>
    Committed.rows[p].amount + FiledDays(applied, p) = granted[p]

UndoneRows ==
  undo # NoUndo => \A p \in Pairs :
    mixed[p] \/ rows[p] = undo.rows[p] \/ \E m \in Messages : at[m] = "recording" /\ p = PairOf(m)

ReadRow ==
  \A m \in Messages : at[m] = "saving" /\ ~mixed[PairOf(m)] =>
    rows[PairOf(m)] # NoRow /\ found[m] = rows[PairOf(m)].amount

WroteRow ==
  \A m \in Messages : at[m] = "recording" /\ ~mixed[PairOf(m)] =>
    /\ rows[PairOf(m)] # NoRow /\ undo.rows[PairOf(m)] # NoRow
    /\ rows[PairOf(m)].amount = undo.rows[PairOf(m)].amount - DaysOf(m)

Rest == OpenWithOne /\ UndoneRows /\ ReadRow /\ WroteRow
BInv == SInv /\ HistoryTyped /\ FilingsFinite /\ Balanced /\ Rest

LEMMA NothingFiled ==
  ASSUME NEW filings, \A r \in Requests : filings[r] = NotFiled
  PROVE  /\ IsFiniteSet({r \in Requests : filings[r] # NotFiled})
         /\ \A p : FiledDays(filings, p) = 0
<1>1. {r \in Requests : filings[r] # NotFiled} = {} OBVIOUS
<1>2. ASSUME NEW p PROVE FiledDays(filings, p) = 0
  <2> DEFINE filed == {r \in Requests : filings[r] # NotFiled /\ filings[r].body.pair = p}
             f == [r \in filed |-> filings[r].body.days]
  <2>1. filed = {} /\ DOMAIN f = filed OBVIOUS
  <2>2. FiledDays(filings, p) = SumFunctionOnSet(f, {})
    BY <2>1 DEF FiledDays, SumFunction
  <2> QED BY <2>2, SumOfNone
<1> QED BY <1>1, <1>2, FS_EmptySet

LEMMA BInvInit == Init => BInv
<1> SUFFICES ASSUME Init PROVE BInv
  OBVIOUS
<1>1. SInv BY SInvInit
<1>2. \A p \in Pairs : rows[p] # NoRow => rows[p].amount \in Int
  BY <1>1, TypeParts DEF SInv, TablesTyped, Row
<1>3. HistoryTyped BY <1>2 DEF Init, HistoryTyped
<1>4. FilingsFinite /\ \A p : FiledDays(applied, p) = 0
  BY NothingFiled DEF Init, FilingsFinite
<1>5. Balanced BY <1>2, <1>4 DEF Init, Balanced, Committed, Tables
<1>6. Rest BY DEF Init, Rest, OpenWithOne, UndoneRows, ReadRow, WroteRow, InTransaction
<1> QED BY <1>1, <1>3, <1>4, <1>5, <1>6 DEF BInv

\* What is filed against a pair is a number of days.
LEMMA FiledDaysType ==
  ASSUME SInv, FilingsFinite, NEW p \in Pairs
  PROVE  FiledDays(applied, p) \in Int
<1> DEFINE filed == {r \in Requests : applied[r] # NotFiled /\ applied[r].body.pair = p}
           f == [r \in filed |-> applied[r].body.days]
<1>1. IsFiniteSet(filed)
  BY FS_Subset DEF FilingsFinite
<1>2. \A r \in filed : f[r] \in Int
  <2> SUFFICES ASSUME NEW r \in filed PROVE applied[r].body.days \in Int
    OBVIOUS
  <2>1. applied[r].body \in Bodies BY CommittedTyped DEF Filing
  <2> QED BY <2>1, BodiesAreTyped
<1>3. FiledDays(applied, p) = SumFunctionOnSet(f, filed)
  BY DEF FiledDays, SumFunction
<1> HIDE DEF filed, f
<1> QED BY <1>1, <1>2, <1>3, SumType

\* A filing adds its days to those of its pair and to no others.
LEMMA FiledDaysGrow ==
  ASSUME SInv, FilingsFinite, NEW m \in Messages, Record(m)
  PROVE  /\ FilingsFinite'
         /\ FiledDays(applied', PairOf(m)) = FiledDays(applied, PairOf(m)) + DaysOf(m)
         /\ \A p \in Pairs \ {PairOf(m)} : FiledDays(applied', p) = FiledDays(applied, p)
<1> DEFINE q == body[m].request
           Filed(filings, p) == {r \in Requests : filings[r] # NotFiled /\ filings[r].body.pair = p}
           Days(filings, p) == [r \in Filed(filings, p) |-> filings[r].body.days]
<1>1. at[m] = "recording" BY DEF Record
<1>2. /\ body[m] \in Bodies /\ q \in Requests /\ DaysOf(m) \in Nat /\ applied[q] = NotFiled
      /\ FilingOf(m) # NotFiled
  BY <1>1, InHand, FilingAtRecord DEF SInv, Unfiled, Filing3, RecordOf
<1>3. /\ applied'[q] = FilingOf(m) /\ \A r \in Requests \ {q} : applied'[r] = applied[r]
      /\ FilingOf(m).body = body[m]
  BY <1>2, CommittedTyped DEF Record, FilingOf
<1>4. FilingsFinite'
  <2>1. {r \in Requests : applied'[r] # NotFiled} \subseteq {r \in Requests : applied[r] # NotFiled} \cup {q}
    BY <1>3
  <2>2. IsFiniteSet({r \in Requests : applied[r] # NotFiled} \cup {q})
    BY FS_AddElement DEF FilingsFinite
  <2> QED BY <2>1, <2>2, FS_Subset DEF FilingsFinite
<1>5. ASSUME NEW p \in Pairs
      PROVE /\ IsFiniteSet(Filed(applied, p)) /\ q \notin Filed(applied, p)
            /\ \A r \in Filed(applied, p) : Days(applied, p)[r] = Days(applied', p)[r] /\ Days(applied', p)[r] \in Int
            /\ Filed(applied', p) = IF p = PairOf(m) THEN Filed(applied, p) \cup {q} ELSE Filed(applied, p)
  <2>1. IsFiniteSet(Filed(applied, p)) BY FS_Subset DEF FilingsFinite
  <2>2. \A r \in Filed(applied, p) : r # q /\ applied[r].body.days \in Int
    BY <1>2, CommittedTyped, BodiesAreTyped DEF Filing
  <2>3. \A r \in Filed(applied, p) : r \in Filed(applied', p) /\ applied'[r] = applied[r]
    BY <1>3, <2>2
  <2>4. Filed(applied', p) = IF p = PairOf(m) THEN Filed(applied, p) \cup {q} ELSE Filed(applied, p)
    BY <1>2, <1>3 DEF PairOf
  <2>5. \A r \in Filed(applied, p) : Days(applied, p)[r] = Days(applied', p)[r] /\ Days(applied', p)[r] \in Int
    BY <2>2, <2>3
  <2> QED BY <2>1, <2>2, <2>4, <2>5
<1>6. \A p \in Pairs : /\ FiledDays(applied, p) = SumFunctionOnSet(Days(applied, p), Filed(applied, p))
                       /\ FiledDays(applied', p) = SumFunctionOnSet(Days(applied', p), Filed(applied', p))
  BY DEF FiledDays, SumFunction
<1>7. PairOf(m) \in Pairs => Days(applied', PairOf(m))[q] = DaysOf(m)
  BY <1>2, <1>3 DEF PairOf, DaysOf
<1>8. PairOf(m) \in Pairs BY <1>2, BodiesAreTyped DEF PairOf
<1> HIDE DEF Filed, Days, q
<1>9. \A p \in Pairs : SumFunctionOnSet(Days(applied', p), Filed(applied, p)) = FiledDays(applied, p)
  BY <1>5, <1>6, SumOfEquals
<1>10. FiledDays(applied', PairOf(m)) = FiledDays(applied, PairOf(m)) + DaysOf(m)
  <2> DEFINE p == PairOf(m)
  <2>1. SumFunctionOnSet(Days(applied', p), Filed(applied, p) \cup {q})
          = Days(applied', p)[q] + SumFunctionOnSet(Days(applied', p), Filed(applied, p))
    BY <1>2, <1>5, <1>7, <1>8, SumWith
  <2>2. FiledDays(applied', p) = DaysOf(m) + FiledDays(applied, p)
    BY <1>5, <1>6, <1>7, <1>8, <1>9, <2>1
  <2>3. FiledDays(applied, p) \in Int BY <1>8, FiledDaysType
  <2> QED BY <1>2, <2>2, <2>3
<1>11. \A p \in Pairs \ {PairOf(m)} : FiledDays(applied', p) = FiledDays(applied, p)
  BY <1>5, <1>6, <1>9
<1> QED BY <1>4, <1>10, <1>11

(***************************************************************************)
(* What a step may do with the balances.                                   *)
(***************************************************************************)
Aside ==
  /\ UNCHANGED <<rows, undo, applied, history>>
  /\ \A m \in Messages :
       /\ (at'[m] \in InTransaction) <=> (at[m] \in InTransaction)
       /\ (at'[m] = "recording") <=> (at[m] = "recording")
       /\ at'[m] \in {"saving", "recording"} => at[m] = at'[m] /\ found'[m] = found[m]
       /\ at[m] \in InTransaction => body'[m] = body[m]

Ending ==
  /\ UNCHANGED <<applied, history>>
  /\ rows' = Committed.rows /\ undo' = NoUndo
  /\ \A m \in Messages : at'[m] \notin InTransaction

\* Only the running transaction is past its BEGIN.
LEMMA OneInTransaction ==
  ASSUME SInv, NEW m \in Messages, NEW n \in Messages, at[m] \in InTransaction, at[n] \in InTransaction
  PROVE  m = n
<1>1. stage[m] = "running" /\ stage[n] = "running" /\ m \in Works /\ n \in Works
  BY DEF SInv, Placed, Messages
<1> QED BY <1>1, OneRuns DEF SInv

LEMMA RefusedEnds ==
  ASSUME BInv, NEW m \in Messages, NEW why, at[m] \in InTransaction, Refused(m, why)
  PROVE  Ending
<1>1. CallsTyped BY TypeParts DEF BInv, SInv
<1>2. \A n \in Messages \ {m} : at[n] \notin InTransaction BY OneInTransaction DEF BInv
<1>3. \A n \in Messages : at'[n] \notin InTransaction
  BY <1>1, <1>2 DEF Refused, Answer, Goto, CallsTyped, InTransaction
<1>4. rows' = Committed.rows /\ UNCHANGED applied /\ undo' = NoUndo
  BY CommittedTyped DEF BInv, Refused, Rollback
<1> QED BY <1>3, <1>4 DEF Ending, Refused, history

LEMMA BalanceSteps ==
  ASSUME BInv, [Next]_vars
  PROVE  \/ Aside \/ Ending
         \/ \E m \in Messages : TakeTurn(m) \/ Replay(m) \/ Accept(m) \/ Deduct(m) \/ Record(m)
         \/ \E p \in Pairs, row \in Row :
              PutSaves(p, row) /\ UNCHANGED <<applied, undo, body, serverVars>>
<1>0. CallsTyped /\ Placed /\ Loaded /\ SInv BY TypeParts DEF BInv, SInv
<1> DEFINE Goal == \/ Aside \/ Ending
                   \/ \E m \in Messages : TakeTurn(m) \/ Replay(m) \/ Accept(m) \/ Deduct(m) \/ Record(m)
                   \/ \E p \in Pairs, row \in Row :
                        PutSaves(p, row) /\ UNCHANGED <<applied, undo, body, serverVars>>
<1> USE DEF Aside, InTransaction, Goto, Answer, database, clientVars, serverVars, operatorVars, history
<1>1. ASSUME NEW m \in Messages, NEW b \in Asks[m], Send(m, b) PROVE Goal
  <2>1. at[m] = "nowhere" BY <1>0, <1>1 DEF Send, Placed
  <2> QED BY <1>0, <1>1, <2>1 DEF Send, CallsTyped
<1>2. ASSUME NEW m \in Messages, ClientStep(m) PROVE Goal
  BY <1>2 DEF ClientStep, Abort, Headers, Body, BodyFails
<1>3. ASSUME NEW m \in Messages, ServerStep(m) PROVE Goal
  <2>1. CASE Ask(m) \/ Admit(m) \/ LookUp(m) BY <1>0, <2>1 DEF Ask, Admit, LookUp, CallsTyped
  <2>2. CASE TurnAway(m) BY <1>0, <2>2 DEF TurnAway, CallsTyped
  <2>3. CASE Mismatch(m) \/ Refuse(m) \/ TransactionFails(m)
    BY <2>3, RefusedEnds DEF Mismatch, Refuse, TransactionFails
  <2> QED BY <1>3, <2>1, <2>2, <2>3 DEF ServerStep
<1>4. ASSUME NEW c \in Puts, NEW p \in Pairs, NEW row \in PutRows, PutFind(c, p, row) PROVE Goal
  BY <1>4 DEF PutFind
<1>5. ASSUME NEW c \in Puts, PutSave(c) PROVE Goal
  <2>1. change[c].pair \in Pairs /\ change[c].row \in Row BY <1>0, <1>5 DEF PutSave, Loaded
  <2> QED BY <1>5, <2>1 DEF PutSave
<1>6. ASSUME NEW c \in Switches, SwitchRead(c) PROVE Goal
  BY <1>6 DEF SwitchRead
<1>7. ASSUME NEW c \in Switches, NEW field \in {"down", "force"}, NEW v \in BOOLEAN, SwitchSave(c, field, v)
      PROVE Goal
  BY <1>7 DEF SwitchSave
<1>8. CASE Crash
  <2>1. Ending BY <1>0, <1>8, CommittedTyped DEF Crash, Rollback, Ending
  <2> QED BY <2>1
<1>9. ASSUME NEW m \in Messages, Lose(m) PROVE Goal
  BY <1>0, <1>9 DEF Lose, CallsTyped
<1>10. CASE UNCHANGED vars BY <1>10 DEF vars
<1> QED BY <1>1, <1>2, <1>3, <1>4, <1>5, <1>6, <1>7, <1>8, <1>9, <1>10 DEF Next

\* Every step keeps the history typed, the filings finite and the balances adding up.
LEMMA BInvStep ==
  ASSUME BInv, [Next]_vars
  PROVE  (HistoryTyped /\ FilingsFinite /\ Balanced /\ Rest)'
<1> DEFINE Goal == HistoryTyped /\ FilingsFinite /\ Balanced /\ Rest
<1>0. /\ SInv /\ Goal /\ CallsTyped /\ TablesTyped
      /\ \A m \in Messages : at[m] \in InTransaction =>
           body[m] \in Bodies /\ PairOf(m) \in Pairs /\ DaysOf(m) \in Nat
      /\ \A p \in Pairs : FiledDays(applied, p) \in Int
  <2>1. SInv /\ Goal /\ CallsTyped /\ TablesTyped BY TypeParts DEF BInv, SInv
  <2>2. \A m \in Messages : at[m] \in InTransaction =>
           body[m] \in Bodies /\ PairOf(m) \in Pairs /\ DaysOf(m) \in Nat
    BY <2>1, InHand, BodiesAreTyped DEF InTransaction, PairOf
  <2> QED BY <2>1, <2>2, FiledDaysType
<1>00. /\ rows \in [Pairs -> Row \cup {NoRow}]
       /\ Committed.rows \in [Pairs -> Row \cup {NoRow}]
       /\ undo # NoUndo => undo.rows \in [Pairs -> Row \cup {NoRow}] /\ Committed = undo
       /\ undo = NoUndo => Committed.rows = rows
       /\ \A row \in Row : row.amount \in Int /\ row # NoRow
  <2>1. undo # NoUndo => undo.rows \in [Pairs -> Row \cup {NoRow}]
    BY <1>0 DEF TablesTyped, Databases
  <2>2. \A row \in Row : row.amount \in Int /\ row # NoRow BY HcmServerAssumption DEF Row
  <2> QED BY <1>0, <2>1, <2>2, CommittedTyped DEF TablesTyped, Committed, Tables
<1>1. ASSUME Aside PROVE Goal'
  <2>1. UNCHANGED <<rows, undo, applied, granted, mixed>> BY <1>1 DEF Aside, history
  <2>2. HistoryTyped' /\ FilingsFinite'
    BY <1>0, <2>1 DEF HistoryTyped, FilingsFinite
  <2>3. Balanced'
    <3>1. Committed'.rows = Committed.rows BY <2>1 DEF Committed, Tables
    <3> QED BY <1>0, <2>1, <3>1 DEF Balanced
  <2>4. OpenWithOne' BY <1>0, <1>1, <2>1 DEF Rest, OpenWithOne, Aside
  <2>5. \A m \in Messages : at'[m] \in {"saving", "recording"} =>
           at[m] = at'[m] /\ PairOf(m)' = PairOf(m) /\ DaysOf(m)' = DaysOf(m) /\ found'[m] = found[m]
    BY <1>1 DEF Aside, InTransaction, PairOf, DaysOf
  <2>6. UndoneRows'
    <3>1. \A m \in Messages : at[m] = "recording" => at'[m] = "recording" /\ PairOf(m)' = PairOf(m)
      BY <1>1, <2>5 DEF Aside
    <3> QED BY <1>0, <2>1, <3>1 DEF Rest, UndoneRows
  <2>7. ReadRow' BY <1>0, <2>1, <2>5 DEF Rest, ReadRow
  <2>8. WroteRow' BY <1>0, <2>1, <2>5 DEF Rest, WroteRow
  <2> QED BY <2>2, <2>3, <2>4, <2>6, <2>7, <2>8 DEF Rest
<1>2. ASSUME Ending PROVE Goal'
  <2>1. HistoryTyped' /\ FilingsFinite'
    BY <1>0, <1>2 DEF Ending, history, HistoryTyped, FilingsFinite
  <2>2. Balanced'
    <3>1. Committed'.rows = Committed.rows BY <1>2 DEF Ending, Committed, Tables
    <3> QED BY <1>0, <1>2, <3>1 DEF Ending, history, Balanced
  <2>3. Rest' BY <1>2 DEF Ending, Rest, OpenWithOne, UndoneRows, ReadRow, WroteRow, InTransaction
  <2> QED BY <2>1, <2>2, <2>3
<1>3. ASSUME NEW m \in Messages, TakeTurn(m) PROVE Goal'
  <2>1. stage[m] = "waiting" /\ at[m] = "queued" BY <1>0, <1>3 DEF TakeTurn, Begin, SInv, Placed
  <2>2. \A n \in Messages : at[n] \notin InTransaction
    <3>1. Begin(m) /\ QueueInv /\ m \in Works BY <1>0, <1>3 DEF TakeTurn, SInv, Messages
    <3>2. \A n \in Messages : stage[n] # "running" BY <3>1, BeginsAlone DEF Messages
    <3> QED BY <1>0, <3>2 DEF Placed, SInv
  <2>3. undo = NoUndo BY <1>0, <2>2 DEF Rest, OpenWithOne
  <2>4. /\ undo' = Tables /\ undo' # NoUndo /\ undo'.rows = rows
        /\ UNCHANGED <<rows, applied, granted, mixed>>
    <3>1. Tables \in Databases BY <1>0 DEF SInv, StateTypeOK
    <3>2. Tables # NoUndo BY <3>1, HcmServerAssumption
    <3> QED BY <1>3, <3>2 DEF TakeTurn, Tables, history
  <2>5. \A n \in Messages : at'[n] \in InTransaction <=> n = m
    BY <1>0, <1>3, <2>2 DEF TakeTurn, Goto, CallsTyped, InTransaction
  <2>6. \A n \in Messages : at'[n] \notin {"saving", "recording"}
    BY <1>0, <1>3, <2>2 DEF TakeTurn, Goto, CallsTyped, InTransaction
  <2>7. HistoryTyped' /\ FilingsFinite' BY <1>0, <2>4 DEF HistoryTyped, FilingsFinite
  <2>8. Balanced'
    <3>1. Committed'.rows = Committed.rows BY <2>3, <2>4 DEF Committed, Tables
    <3> QED BY <1>0, <2>4, <3>1 DEF Balanced
  <2>9. Rest' BY <2>4, <2>5, <2>6 DEF Rest, OpenWithOne, UndoneRows, ReadRow, WroteRow
  <2> QED BY <2>7, <2>8, <2>9
<1>4. ASSUME NEW m \in Messages, Replay(m) PROVE Goal'
  <2>1. at[m] = "looking" /\ \A n \in Messages \ {m} : at[n] \notin InTransaction
    BY <1>0, <1>4, OneInTransaction DEF Replay, InTransaction
  <2>2. /\ UNCHANGED <<rows, applied, granted, mixed>> /\ undo' = NoUndo
        /\ undo # NoUndo /\ \A n \in Messages : at'[n] \notin InTransaction
    BY <1>0, <1>4, <2>1
       DEF Replay, Answer, Goto, Commit, history, CallsTyped, Rest, OpenWithOne, InTransaction
  <2>3. HistoryTyped' /\ FilingsFinite' BY <1>0, <2>2 DEF HistoryTyped, FilingsFinite
  <2>4. Balanced'
    <3>1. Committed'.rows = rows BY <2>2 DEF Committed, Tables
    <3>2. \A p \in Pairs : mixed[p] \/ rows[p] = Committed.rows[p]
      BY <1>0, <1>00, <2>1, <2>2 DEF Rest, UndoneRows, InTransaction
    <3> QED BY <1>0, <2>2, <3>1, <3>2 DEF Balanced
  <2>5. Rest' BY <2>2 DEF Rest, OpenWithOne, UndoneRows, ReadRow, WroteRow, InTransaction
  <2> QED BY <2>3, <2>4, <2>5
<1>5. ASSUME NEW m \in Messages, Accept(m) PROVE Goal'
  <2>1. at[m] = "checking" /\ \A n \in Messages \ {m} : at[n] \notin InTransaction
    BY <1>0, <1>5, OneInTransaction DEF Accept, InTransaction
  <2>2. /\ UNCHANGED <<rows, undo, applied, granted, mixed, body>>
        /\ at'[m] = "saving" /\ \A n \in Messages \ {m} : at'[n] = at[n]
        /\ found'[m] = rows[PairOf(m)].amount /\ rows[PairOf(m)] # NoRow
    BY <1>0, <1>5 DEF Accept, CanFile, Goto, CallsTyped, database, clientVars, history
  <2>3. HistoryTyped' /\ FilingsFinite' BY <1>0, <2>2 DEF HistoryTyped, FilingsFinite
  <2>4. Balanced'
    <3>1. Committed'.rows = Committed.rows BY <2>2 DEF Committed, Tables
    <3> QED BY <1>0, <2>2, <3>1 DEF Balanced
  <2>5. Rest'
    <3>1. OpenWithOne' BY <1>0, <2>1, <2>2 DEF Rest, OpenWithOne, InTransaction
    <3>2. UndoneRows' BY <1>0, <2>1, <2>2 DEF Rest, UndoneRows, InTransaction
    <3>3. ReadRow' /\ WroteRow'
      BY <2>1, <2>2 DEF ReadRow, WroteRow, InTransaction, PairOf
    <3> QED BY <3>1, <3>2, <3>3 DEF Rest
  <2> QED BY <2>3, <2>4, <2>5
<1>6. ASSUME NEW m \in Messages, Deduct(m) PROVE Goal'
  <2> DEFINE p == PairOf(m)
  <2>1. at[m] = "saving" /\ \A n \in Messages \ {m} : at[n] \notin InTransaction
    BY <1>0, <1>6, OneInTransaction DEF Deduct, InTransaction
  <2>2. /\ UNCHANGED <<undo, applied, granted, mixed, body>> /\ p \in Pairs
        /\ at'[m] = "recording" /\ \A n \in Messages \ {m} : at'[n] = at[n]
        /\ rows' = [rows EXCEPT ![p] = [amount |-> found[m] - DaysOf(m), valid |-> TRUE]]
        /\ undo # NoUndo /\ found[m] \in Int /\ DaysOf(m) \in Nat
    BY <1>0, <1>6, <2>1
       DEF Deduct, Goto, CallsTyped, clientVars, history, Rest, OpenWithOne, InTransaction
  <2>3. /\ rows'[p].amount = found[m] - DaysOf(m) /\ rows'[p] # NoRow
        /\ \A q \in Pairs \ {p} : rows'[q] = rows[q]
    <3>1. [amount |-> found[m] - DaysOf(m), valid |-> TRUE] \in Row BY <2>2 DEF Row
    <3> QED BY <1>00, <2>2, <3>1
  <2>4. ~mixed[p] => undo.rows[p] # NoRow /\ found[m] = undo.rows[p].amount
    <3>1. mixed[p] \/ rows[p] = undo.rows[p]
      BY <1>0, <2>1, <2>2 DEF Rest, UndoneRows, InTransaction
    <3> QED BY <1>0, <2>1, <3>1 DEF Rest, ReadRow
  <2>5. HistoryTyped' /\ FilingsFinite' BY <1>0, <2>2 DEF HistoryTyped, FilingsFinite
  <2>6. Balanced'
    <3>1. Committed'.rows = Committed.rows BY <2>2 DEF Committed, Tables
    <3> QED BY <1>0, <2>2, <3>1 DEF Balanced
  <2>7. Rest'
    <3>1. OpenWithOne' BY <2>1, <2>2 DEF OpenWithOne, InTransaction
    <3>2. UndoneRows'
      BY <1>0, <2>1, <2>2, <2>3 DEF Rest, UndoneRows, InTransaction, PairOf
    <3>3. ReadRow' /\ WroteRow'
      BY <2>1, <2>2, <2>3, <2>4 DEF ReadRow, WroteRow, InTransaction, PairOf, DaysOf
    <3> QED BY <3>1, <3>2, <3>3 DEF Rest
  <2> QED BY <2>5, <2>6, <2>7
<1>7. ASSUME NEW m \in Messages, Record(m) PROVE Goal'
  <2> DEFINE p == PairOf(m)
  <2>1. at[m] = "recording" /\ \A n \in Messages \ {m} : at[n] \notin InTransaction
    BY <1>0, <1>7, OneInTransaction DEF Record, InTransaction
  <2>2. /\ UNCHANGED <<rows, granted, mixed>> /\ undo' = NoUndo /\ undo # NoUndo
        /\ p \in Pairs /\ DaysOf(m) \in Nat
        /\ \A n \in Messages : at'[n] \notin InTransaction
    BY <1>0, <1>7, <2>1
       DEF Record, Answer, Goto, Commit, history, CallsTyped, Rest, OpenWithOne, InTransaction
  <2>3. /\ FilingsFinite' /\ FiledDays(applied', p) = FiledDays(applied, p) + DaysOf(m)
        /\ \A q \in Pairs \ {p} : FiledDays(applied', q) = FiledDays(applied, q)
    BY <1>0, <1>7, FiledDaysGrow
  <2>4. HistoryTyped' BY <1>0, <2>2 DEF HistoryTyped
  <2>5. Balanced'
    <3> SUFFICES ASSUME NEW q \in Pairs, Committed'.rows[q] # NoRow, ~mixed'[q]
                 PROVE Committed'.rows[q].amount + FiledDays(applied', q) = granted'[q]
      BY DEF Balanced
    <3>1. Committed'.rows = rows /\ Committed.rows = undo.rows /\ rows[q] # NoRow /\ ~mixed[q]
      BY <1>00, <2>2 DEF Committed, Tables
    <3>2. CASE q = p
      <4>1. undo.rows[p] # NoRow /\ rows[p].amount = undo.rows[p].amount - DaysOf(m)
        BY <1>0, <2>1, <3>1, <3>2 DEF Rest, WroteRow
      <4>2. undo.rows[p].amount + FiledDays(applied, p) = granted[p]
        BY <1>0, <2>2, <3>1, <3>2, <4>1 DEF Balanced
      <4>3. undo.rows[p].amount \in Int /\ FiledDays(applied, p) \in Int
        BY <1>0, <1>00, <2>2, <4>1
      <4> DEFINE a == undo.rows[p].amount
                 b == FiledDays(applied, p)
      <4>4. rows[p].amount + FiledDays(applied', p) = (a - DaysOf(m)) + (b + DaysOf(m)) /\ a + b = granted[p]
        BY <2>3, <4>1, <4>2
      <4>5. a \in Int /\ b \in Int /\ DaysOf(m) \in Int BY <2>2, <4>3
      <4> HIDE DEF a, b
      <4>6. rows[p].amount + FiledDays(applied', p) = granted[p] BY <4>4, <4>5
      <4> QED BY <2>2, <3>1, <3>2, <4>6
    <3>3. CASE q # p
      <4>1. rows[q] = undo.rows[q]
        BY <1>0, <2>1, <2>2, <3>1, <3>3 DEF Rest, UndoneRows, InTransaction
      <4> QED BY <1>0, <2>2, <2>3, <3>1, <3>3, <4>1 DEF Balanced
    <3> QED BY <3>2, <3>3
  <2>6. Rest' BY <2>2 DEF Rest, OpenWithOne, UndoneRows, ReadRow, WroteRow, InTransaction
  <2> QED BY <2>3, <2>4, <2>5, <2>6
<1>8. ASSUME NEW p \in Pairs, NEW row \in Row, PutSaves(p, row), UNCHANGED <<applied, undo, body, serverVars>>
      PROVE Goal'
  <2>1. /\ rows' = [rows EXCEPT ![p] = row] /\ UNCHANGED <<applied, undo, body, at, found>>
        /\ granted' = [granted EXCEPT ![p] = row.amount + FiledDays(applied, p)]
        /\ mixed' = [mixed EXCEPT ![p] = undo # NoUndo]
    BY <1>8 DEF PutSaves, serverVars
  <2>2. HistoryTyped' /\ FilingsFinite'
    <3>1. row.amount + FiledDays(applied, p) \in Int BY <1>0, <1>00
    <3> QED BY <1>0, <2>1, <3>1 DEF HistoryTyped, FilingsFinite
  <2>3. Balanced'
    <3> SUFFICES ASSUME NEW q \in Pairs, Committed'.rows[q] # NoRow, ~mixed'[q]
                 PROVE Committed'.rows[q].amount + FiledDays(applied, q) = granted'[q]
      BY <2>1 DEF Balanced
    <3>1. undo # NoUndo => q # p /\ Committed'.rows = Committed.rows
      BY <1>0, <2>1 DEF HistoryTyped, Committed
    <3>2. undo = NoUndo => Committed'.rows = rows'
      BY <2>1 DEF Committed, Tables
    <3>3. q # p => Committed'.rows[q] = Committed.rows[q]
      BY <1>00, <2>1, <3>1, <3>2
    <3>4. CASE q = p
      BY <1>0, <1>00, <2>1, <3>1, <3>2, <3>4 DEF HistoryTyped
    <3>5. CASE q # p
      BY <1>0, <2>1, <3>3, <3>5 DEF HistoryTyped, Balanced
    <3> QED BY <3>4, <3>5
  <2>4. \A q \in Pairs : ~mixed'[q] /\ undo # NoUndo => q # p /\ rows'[q] = rows[q] /\ ~mixed[q]
    BY <1>0, <1>00, <2>1 DEF HistoryTyped
  <2>5. OpenWithOne' BY <1>0, <2>1 DEF Rest, OpenWithOne
  <2>6. UndoneRows' BY <1>0, <2>1, <2>4 DEF Rest, UndoneRows, PairOf, HistoryTyped
  <2>7. ReadRow' /\ WroteRow'
    <3>1. \A m \in Messages : at[m] \in {"saving", "recording"} => undo # NoUndo /\ PairOf(m) \in Pairs
      BY <1>0 DEF Rest, OpenWithOne, InTransaction
    <3> QED BY <1>0, <2>1, <2>4, <3>1 DEF Rest, ReadRow, WroteRow, PairOf, DaysOf
  <2> QED BY <2>2, <2>3, <2>5, <2>6, <2>7 DEF Rest
<1> HIDE DEF Goal
<1>9. Goal' BY <1>1, <1>2, <1>3, <1>4, <1>5, <1>6, <1>7, <1>8, BalanceSteps, Zenon
<1> QED BY <1>9 DEF Goal

LEMMA BInvHolds == Spec => []BInv
<1>1. BInv /\ [Next]_vars => BInv'
  <2> SUFFICES ASSUME BInv, [Next]_vars PROVE BInv'
    OBVIOUS
  <2>1. SInv' BY SInvStep DEF BInv
  <2>2. (HistoryTyped /\ FilingsFinite /\ Balanced /\ Rest)' BY BInvStep
  <2> QED BY <2>1, <2>2 DEF BInv
<1> QED BY <1>1, BInvInit, PTL DEF Spec

\* hcm.service.ts, hcm-client.service.ts: no variable of the exchange leaves its type.
\* Balances are any integers, as a forced filing may take one below zero, but what a
\* client is told was read; what was granted is a number because only finitely many
\* requests are ever filed.
THEOREM ServerTypes == Spec => []TypeOK
<1>1. BInv => TypeOK BY DEF BInv, SInv, TypeOK, HistoryTyped
<1> QED BY <1>1, BInvHolds, PTL

\* hcm.service.ts: what is left of a balance and what was filed against it add up
\* to what was granted, for any number of messages, requests and pairs.
THEOREM BalancesAddUp == Spec => []BalanceAddsUp
<1>1. BInv => BalanceAddsUp
  <2> SUFFICES ASSUME BInv PROVE BalanceAddsUp
    OBVIOUS
  <2>1. Committed.applied = applied BY CommittedTyped DEF BInv
  <2> QED BY <2>1 DEF BInv, Balanced, BalanceAddsUp
<1> QED BY <1>1, BInvHolds, PTL
=============================================================================
