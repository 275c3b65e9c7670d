------------------------------ MODULE TimeOff ------------------------------
(***************************************************************************)
(* The TimeOff service: time-off requests, the local cache of HCM          *)
(* balances, and the calls that move a request between PENDING, APPROVING  *)
(* and its final status, together with the HCM they talk to (module Hcm).  *)
(*                                                                         *)
(* Every call of the HTTP API is a process of its own: a creation, an      *)
(* approval or a balance refresh is an identifier used once, with a        *)
(* program counter whose values name the await the handler stands at.      *)
(* Between two awaits anything else may run.  A creation is identified     *)
(* with the request row it would insert, an approval with its              *)
(* approvalAttemptId: both are UUIDs drawn for the call.                   *)
(*                                                                         *)
(* Transactions run one at a time on the write queue.  One that holds no   *)
(* await another writer could use is a single action, taken when the       *)
(* queue is free; the transaction of a creation reads the cached balance,  *)
(* then the reservations, then inserts, and balance refreshes do not wait  *)
(* for the queue, so it is three actions under the queue's lock.  They     *)
(* share the one SQLite connection with it: a balance saved meanwhile is   *)
(* part of the creation's transaction, and goes with it when that is       *)
(* rolled back.                                                            *)
(***************************************************************************)
EXTENDS Hcm, Sequences, Functions

CONSTANTS Refreshes,    \* calls that refresh one balance and nothing else
          Keys,         \* idempotency keys
          NoKey,        \* the header is absent
          Dtos,         \* bodies (and key) a creation may come with
          NoDto,        \* the creation has not been called
          NoRow,        \* the pair has no cached balance row
          NoAttempt,    \* approvalAttemptId, hcmTransactionId: column is null
          NoRequest,    \* the approval or refresh has not been called
          NoWriter,     \* the write queue is idle
          NoUndo,       \* no creation's transaction is open
          PutBalances,  \* balances PUT may write while the system runs
          Faults        \* which of "crash", "tx" may happen

VARIABLES dto,          \* body of each creation, and columns of its row
          status,       \* status column, NONE without a row
          attempt,      \* approvalAttemptId column
          txn,          \* hcmTransactionId column
          events,       \* audit log of each request
          cache,        \* cached balance of each pair
          writer,       \* creation whose transaction holds the write queue
          undo,         \* the cache when its transaction began
          pc,           \* where each call stands
          seen,         \* balance a creation or refresh last read
          target,       \* request an approval is for, pair a refresh is for
          sent,         \* apply messages the HCM has not processed
          reply,        \* HCM's answer to an apply, until the call takes it
          cause,        \* failure event an approval is about to record
          told          \* history: what the HCM answered each apply message

rowVars == <<dto, status, attempt, txn, events>>
queueVars == <<writer, undo>>
callVars == <<pc, seen, target, reply, cause>>
vars == <<hcmVars, rowVars, cache, queueVars, callVars, sent, told>>

Calls == Requests \cup Approvals \cup Refreshes
Caches == [Pairs -> Nat \cup {NoRow}]

ASSUME TimeOffAssumption ==
  /\ Dtos \subseteq [pair : Pairs, days : Nat \ {0}, key : Keys \cup {NoKey}]
  /\ \A d \in Dtos : d.days \notin Unparseable
  /\ NoKey \notin Keys /\ NoDto \notin Dtos /\ NoRow \notin Int
  /\ NoAttempt \notin Approvals \cup [request : Requests] /\ NoRequest \notin Requests \cup Pairs
  /\ NoWriter \notin Requests /\ NoUndo \notin Caches
  /\ NotFiled \notin [body : [request : Requests], txn : Approvals, amount : Int]
  /\ Requests \cap Approvals = {} /\ Requests \cap Refreshes = {}
  /\ Approvals \cap Refreshes = {}
  /\ PutBalances \subseteq Nat
  /\ Faults \subseteq {"crash", "tx"}

(***************************************************************************)
(* Types.                                                                  *)
(***************************************************************************)
Statuses == {"NONE", "PENDING", "APPROVING", "APPROVED", "REJECTED", "CANCELLED"}

Failures == {"APPROVAL_FAILED_INSUFFICIENT_HCM_BALANCE",
             "APPROVAL_FAILED_HCM_UNAVAILABLE",
             "APPROVAL_FAILED_HCM_REJECTED"}

EventTypes == Failures \cup {"REQUEST_CREATED", "REQUEST_APPROVING", "REQUEST_APPROVED",
                             "REQUEST_REJECTED", "REQUEST_CANCELLED"}

Filling == {"fetching", "finding", "updating", "inserting"}
Applying == {"checking", "applying", "finalizing", "reverting"}
InTransaction == {"summing", "saving"}
Active == Filling \cup Applying \cup InTransaction \cup {"queued"}
Ended == {"created", "replayed", "refreshed", "approved", "failed", "dead"}

NoAnswer == [kind |-> "none", txn |-> NoAttempt, balance |-> 0]
Replies == [kind : {"none", "filed", "refused", "down"},
            txn : Approvals \cup {NoAttempt}, balance : Int]

TypeOK ==
  /\ HcmTypeOK
  /\ dto \in [Requests -> Dtos \cup {NoDto}]
  /\ status \in [Requests -> Statuses]
  /\ attempt \in [Requests -> Approvals \cup {NoAttempt}]
  /\ txn \in [Requests -> Approvals \cup {NoAttempt}]
  /\ events \in [Requests -> Seq(EventTypes)]
  /\ cache \in Caches
  /\ writer \in Requests \cup {NoWriter} /\ undo \in Caches \cup {NoUndo}
  /\ pc \in [Calls -> {"idle"} \cup Active \cup Ended]
  /\ seen \in [Requests \cup Refreshes -> Nat]
  /\ target \in [Approvals \cup Refreshes -> Requests \cup Pairs \cup {NoRequest}]
  /\ \A a \in Approvals : pc[a] # "idle" => target[a] \in Requests
  /\ sent \subseteq Approvals
  /\ reply \in [Approvals -> Replies] /\ told \in [Approvals -> Replies]
  /\ cause \in [Approvals -> Failures \cup {"none"}]

(***************************************************************************)
(* Initially no call has been made; the databases hold any balances.       *)
(***************************************************************************)
Init ==
  /\ HcmInit
  /\ dto = [r \in Requests |-> NoDto]
  /\ status = [r \in Requests |-> "NONE"]
  /\ attempt = [r \in Requests |-> NoAttempt]
  /\ txn = [r \in Requests |-> NoAttempt]
  /\ events = [r \in Requests |-> <<>>]
  /\ cache \in [Pairs -> (Balances \ Unparseable) \cup {NoRow}]
  /\ writer = NoWriter /\ undo = NoUndo
  /\ pc = [c \in Calls |-> "idle"]
  /\ seen = [c \in Requests \cup Refreshes |-> 0]
  /\ target = [c \in Approvals \cup Refreshes |-> NoRequest]
  /\ sent = {}
  /\ reply = [a \in Approvals |-> NoAnswer]
  /\ told = [a \in Approvals |-> NoAnswer]
  /\ cause = [a \in Approvals |-> "none"]

\* The write queue runs one piece of work to its end before the next.
QueueFree == writer = NoWriter

Row(r) == status[r] # "NONE"
SameKey(d, e) == d.key = e.key /\ d.key # NoKey
SamePayload(d, e) == d.pair = e.pair /\ d.days = e.days

Reserving(r) == status[r] \in {"PENDING", "APPROVING"}
DaysOver(S) == SumFunction([r \in S |-> dto[r].days])
Reserved(p) == DaysOver({r \in Requests : Reserving(r) /\ dto[r].pair = p})

Log(r, e) == events' = [events EXCEPT ![r] = Append(@, e)]
Goto(c, l) == pc' = [pc EXCEPT ![c] = l]

(***************************************************************************)
(* Refreshing a balance: ask the HCM, look for the cached row, save it.    *)
(* None of it waits for the write queue.  A creation starts with one.      *)
(***************************************************************************)
PairOf(c) == IF c \in Requests THEN dto[c].pair ELSE target[c]

RefreshStart(f, p) ==
  /\ pc[f] = "idle"
  /\ Goto(f, "fetching")
  /\ target' = [target EXCEPT ![f] = p]
  /\ UNCHANGED <<hcmVars, rowVars, cache, queueVars, seen, reply, cause, sent, told>>

FetchBalance(c) ==
  /\ pc[c] = "fetching"
  /\ BalanceAnswers(PairOf(c))
  /\ Goto(c, "finding")
  /\ seen' = [seen EXCEPT ![c] = hcmBalance[PairOf(c)]]
  /\ UNCHANGED <<hcmVars, rowVars, cache, queueVars, target, reply, cause, sent, told>>

\* 404, 503, a time-out, a broken connection, or an amount that does not parse.
FetchFails(c) ==
  /\ pc[c] = "fetching"
  /\ Goto(c, "failed")
  /\ UNCHANGED <<hcmVars, rowVars, cache, queueVars, seen, target, reply, cause, sent, told>>

FindCached(c) ==
  /\ pc[c] = "finding"
  /\ Goto(c, IF cache[PairOf(c)] = NoRow THEN "inserting" ELSE "updating")
  /\ UNCHANGED <<hcmVars, rowVars, cache, queueVars, seen, target, reply, cause, sent, told>>

\* The insert of a row someone else inserted meanwhile breaks the unique index.
SaveCached(c) ==
  /\ pc[c] \in {"inserting", "updating"}
  /\ IF pc[c] = "inserting" /\ cache[PairOf(c)] # NoRow
       THEN Goto(c, "failed") /\ UNCHANGED cache
       ELSE /\ cache' = [cache EXCEPT ![PairOf(c)] = seen[c]]
            /\ Goto(c, IF c \in Requests THEN "queued" ELSE "refreshed")
  /\ seen' = [seen EXCEPT ![c] = 0]
  /\ UNCHANGED <<hcmVars, rowVars, queueVars, target, reply, cause, sent, told>>

(***************************************************************************)
(* create: look the key up, refresh, then one transaction.                 *)
(***************************************************************************)
CreateStart(r, d) ==
  /\ pc[r] = "idle"
  /\ dto' = [dto EXCEPT ![r] = d]
  /\ LET known == {s \in Requests : Row(s) /\ SameKey(dto[s], d)}
     IN  Goto(r, CASE known = {} -> "fetching"
                   [] \E s \in known : SamePayload(dto[s], d) -> "replayed"
                   [] OTHER -> "failed")
  /\ UNCHANGED <<hcmVars, status, attempt, txn, events, cache, queueVars,
                 seen, target, reply, cause, sent, told>>

\* The creation has the queue, and the connection a transaction.
Open(r) == writer' = r /\ undo' = cache /\ seen' = [seen EXCEPT ![r] = cache[dto[r].pair]]
Commit == writer' = NoWriter /\ undo' = NoUndo /\ UNCHANGED cache
Rollback ==
  /\ IF undo = NoUndo THEN UNCHANGED cache ELSE cache' = undo
  /\ writer' = NoWriter /\ undo' = NoUndo

\* Mutation of CreateReadBalance: the transaction does not wait for the queue.
CreateUnqueued(r) ==
  /\ pc[r] = "queued"
  /\ IF cache[dto[r].pair] = NoRow
       THEN Goto(r, "failed") /\ UNCHANGED <<queueVars, seen>>
       ELSE Goto(r, "summing") /\ Open(r)
  /\ UNCHANGED <<hcmVars, rowVars, cache, target, reply, cause, sent, told>>

\* The refresh has left a row, unless a rollback has taken it away again.
CreateReadBalance(r) ==
  /\ pc[r] = "queued" /\ QueueFree
  /\ IF cache[dto[r].pair] = NoRow
       THEN Goto(r, "failed") /\ UNCHANGED <<queueVars, seen>>
       ELSE Goto(r, "summing") /\ Open(r)
  /\ UNCHANGED <<hcmVars, rowVars, cache, target, reply, cause, sent, told>>

\* Mutation of CreateSumReserved: a refused creation keeps the queue waiting.
CreateStuck(r) ==
  /\ pc[r] = "summing"
  /\ Goto(r, IF seen[r] - Reserved(dto[r].pair) < dto[r].days THEN "failed" ELSE "saving")
  /\ UNCHANGED <<hcmVars, rowVars, cache, queueVars, seen, target, reply, cause, sent, told>>

\* A refusal is returned, not thrown: the transaction is committed.
CreateSumReserved(r) ==
  /\ pc[r] = "summing"
  /\ IF seen[r] - Reserved(dto[r].pair) < dto[r].days
       THEN Goto(r, "failed") /\ Commit /\ seen' = [seen EXCEPT ![r] = 0]
       ELSE Goto(r, "saving") /\ UNCHANGED <<queueVars, cache, seen>>
  /\ UNCHANGED <<hcmVars, rowVars, target, reply, cause, sent, told>>

\* Mutation of CreateSave: the key column has no unique index.
CreateUnindexed(r) ==
  /\ pc[r] = "saving"
  /\ Commit
  /\ seen' = [seen EXCEPT ![r] = 0]
  /\ Goto(r, "created")
  /\ status' = [status EXCEPT ![r] = "PENDING"]
  /\ Log(r, "REQUEST_CREATED")
  /\ UNCHANGED <<hcmVars, dto, attempt, txn, target, reply, cause, sent, told>>

\* Insert, audit and commit; idempotencyKey has a unique index, whose violation
\* rolls the transaction back.
CreateSave(r) ==
  /\ pc[r] = "saving"
  /\ seen' = [seen EXCEPT ![r] = 0]
  /\ IF \E s \in Requests : Row(s) /\ SameKey(dto[s], dto[r])
       THEN Goto(r, "failed") /\ Rollback /\ UNCHANGED <<status, events>>
       ELSE /\ Goto(r, "created") /\ Commit
            /\ status' = [status EXCEPT ![r] = "PENDING"]
            /\ Log(r, "REQUEST_CREATED")
  /\ UNCHANGED <<hcmVars, dto, attempt, txn, target, reply, cause, sent, told>>

(***************************************************************************)
(* approve: lock the request, check the HCM's balance, apply, finalize or  *)
(* give the request back.                                                  *)
(***************************************************************************)
PairFor(a) == dto[target[a]].pair
DaysFor(a) == dto[target[a]].days

\* Mutation of ApproveLock: a request another approval has locked is locked again.
ApproveRelock(a, r) ==
  /\ pc[a] = "idle" /\ QueueFree
  /\ status[r] \in {"PENDING", "APPROVING"}
  /\ Goto(a, "checking")
  /\ target' = [target EXCEPT ![a] = r]
  /\ status' = [status EXCEPT ![r] = "APPROVING"]
  /\ attempt' = [attempt EXCEPT ![r] = a]
  /\ Log(r, "REQUEST_APPROVING")
  /\ UNCHANGED <<hcmVars, dto, txn, cache, queueVars, seen, reply, cause, sent, told>>

ApproveLock(a, r) ==
  /\ pc[a] = "idle" /\ QueueFree
  /\ status[r] = "PENDING"
  /\ Goto(a, "checking")
  /\ target' = [target EXCEPT ![a] = r]
  /\ status' = [status EXCEPT ![r] = "APPROVING"]
  /\ attempt' = [attempt EXCEPT ![r] = a]
  /\ Log(r, "REQUEST_APPROVING")
  /\ UNCHANGED <<hcmVars, dto, txn, cache, queueVars, seen, reply, cause, sent, told>>

\* Already approved: answered with the row.  Locked, closed or unknown: refused.
ApproveAnswered(a, r) ==
  /\ pc[a] = "idle" /\ QueueFree
  /\ status[r] # "PENDING"
  /\ Goto(a, IF status[r] = "APPROVED" THEN "approved" ELSE "failed")
  /\ target' = [target EXCEPT ![a] = r]
  /\ UNCHANGED <<hcmVars, rowVars, cache, queueVars, seen, reply, cause, sent, told>>

\* Mutation of GiveUp: every failure is logged as an insufficient balance.
GiveUpMislabelled(a, why) ==
  /\ Goto(a, "reverting")
  /\ cause' = [cause EXCEPT ![a] = "APPROVAL_FAILED_INSUFFICIENT_HCM_BALANCE"]

GiveUp(a, why) ==
  /\ Goto(a, "reverting")
  /\ cause' = [cause EXCEPT ![a] = why]

\* The HCM reads the balance; the apply request leaves at some later time, and
\* is a message from then on, so nothing is lost by sending it here.
CheckSufficient(a) ==
  /\ pc[a] = "checking"
  /\ BalanceAnswers(PairFor(a)) /\ hcmBalance[PairFor(a)] >= DaysFor(a)
  /\ Goto(a, "applying")
  /\ sent' = sent \cup {a}
  /\ UNCHANGED <<hcmVars, rowVars, cache, queueVars, seen, target, reply, cause, told>>

CheckInsufficient(a) ==
  /\ pc[a] = "checking"
  /\ BalanceAnswers(PairFor(a)) /\ hcmBalance[PairFor(a)] < DaysFor(a)
  /\ GiveUp(a, "APPROVAL_FAILED_INSUFFICIENT_HCM_BALANCE")
  /\ UNCHANGED <<hcmVars, rowVars, cache, queueVars, seen, target, reply, sent, told>>

\* A time-out, 503 or refused connection counts as unavailable; a 404, a broken
\* body or an amount that does not parse as rejected.
ExchangeFailures == {"APPROVAL_FAILED_HCM_UNAVAILABLE", "APPROVAL_FAILED_HCM_REJECTED"}

\* Mutation of CheckFails: the error leaves approve without giving the lock back.
CheckThrows(a) ==
  /\ pc[a] = "checking"
  /\ Goto(a, "failed")
  /\ UNCHANGED <<hcmVars, rowVars, cache, queueVars, seen, target, reply, cause, sent, told>>

CheckFails(a) ==
  /\ pc[a] = "checking"
  /\ \E why \in ExchangeFailures : GiveUp(a, why)
  /\ UNCHANGED <<hcmVars, rowVars, cache, queueVars, seen, target, reply, sent, told>>

(***************************************************************************)
(* The HCM takes an apply message whenever it gets to it, also after the   *)
(* caller has aborted or died; only a caller still waiting sees an answer. *)
(***************************************************************************)
Consume(a, answer) ==
  /\ sent' = sent \ {a}
  /\ told' = [told EXCEPT ![a] = answer]
  /\ reply' = IF pc[a] = "applying" THEN [reply EXCEPT ![a] = answer] ELSE reply
  /\ UNCHANGED <<rowVars, cache, queueVars, pc, seen, target, cause>>

HcmFiles(a) ==
  /\ a \in sent
  /\ FileTimeOff(target[a], PairFor(a), DaysFor(a), a)
  /\ Consume(a, [kind |-> "filed", txn |-> a,
                 balance |-> hcmBalance[PairFor(a)] - DaysFor(a)])

\* Mutation of HcmReplays: a repeated apply is answered with a new transaction id.
HcmRenames(a) ==
  /\ a \in sent
  /\ Filed(target[a])
  /\ Consume(a, [kind |-> "filed", txn |-> a, balance |-> filings[target[a]].balance])
  /\ UNCHANGED hcmVars

\* The stored transaction, with the balance as it was when that was filed.
HcmReplays(a) ==
  /\ a \in sent
  /\ Filed(target[a])
  /\ Consume(a, [kind |-> "filed", txn |-> filings[target[a]].txn,
                 balance |-> filings[target[a]].balance])
  /\ UNCHANGED hcmVars

HcmRefuses(a) ==
  /\ a \in sent
  /\ ~Filed(target[a]) /\ ~CanFile(PairFor(a), DaysFor(a))
  /\ Consume(a, [NoAnswer EXCEPT !.kind = "refused"])
  /\ UNCHANGED hcmVars

HcmUnavailable(a) ==
  /\ a \in sent
  /\ Consume(a, [NoAnswer EXCEPT !.kind = "down"])
  /\ UNCHANGED hcmVars

(***************************************************************************)
(* Back in approve.                                                        *)
(***************************************************************************)
\* The abort timer or the connection: the message may still be on its way.
ApplyFails(a) ==
  /\ pc[a] = "applying"
  /\ \E why \in ExchangeFailures : GiveUp(a, why)
  /\ reply' = [reply EXCEPT ![a] = NoAnswer]
  /\ UNCHANGED <<hcmVars, rowVars, cache, queueVars, seen, target, sent, told>>

\* Mutation of ApplyAnswered: the resulting balance is taken as it comes.
ApplyUnchecked(a) ==
  /\ pc[a] = "applying"
  /\ reply[a].kind = "filed"
  /\ Goto(a, "finalizing")
  /\ UNCHANGED <<hcmVars, rowVars, cache, queueVars, seen, target, reply, cause, sent, told>>

\* An answer whose balance does not parse counts as a rejection.
ApplyAnswered(a) ==
  /\ pc[a] = "applying"
  /\ reply[a].kind # "none"
  /\ IF reply[a].kind = "filed" /\ Parses(reply[a].balance)
       THEN Goto(a, "finalizing") /\ UNCHANGED <<cause, reply>>
       ELSE /\ GiveUp(a, IF reply[a].kind = "down"
                           THEN "APPROVAL_FAILED_HCM_UNAVAILABLE"
                           ELSE "APPROVAL_FAILED_HCM_REJECTED")
            /\ reply' = [reply EXCEPT ![a] = NoAnswer]
  /\ UNCHANGED <<hcmVars, rowVars, cache, queueVars, seen, target, sent, told>>

HoldsLock(a) == status[target[a]] = "APPROVING" /\ attempt[target[a]] = a

\* Mutation of Finalize: the days are deducted from whatever is cached.
FinalizeDeducting(a) ==
  /\ pc[a] = "finalizing" /\ QueueFree
  /\ HoldsLock(a)
  /\ cache' = [cache EXCEPT ![PairFor(a)] = @ - DaysFor(a)]
  /\ status' = [status EXCEPT ![target[a]] = "APPROVED"]
  /\ txn' = [txn EXCEPT ![target[a]] = reply[a].txn]
  /\ Log(target[a], "REQUEST_APPROVED")
  /\ Goto(a, "approved")
  /\ reply' = [reply EXCEPT ![a] = NoAnswer]
  /\ UNCHANGED <<hcmVars, dto, attempt, queueVars, seen, target, cause, sent, told>>

\* attempt keeps its value: the row is saved with the column undefined, which
\* TypeORM leaves out of the update.
Finalize(a) ==
  /\ pc[a] = "finalizing" /\ QueueFree
  /\ IF HoldsLock(a)
       THEN /\ cache' = [cache EXCEPT ![PairFor(a)] = reply[a].balance]
            /\ status' = [status EXCEPT ![target[a]] = "APPROVED"]
            /\ txn' = [txn EXCEPT ![target[a]] = reply[a].txn]
            /\ Log(target[a], "REQUEST_APPROVED")
            /\ Goto(a, "approved")
       ELSE Goto(a, "failed") /\ UNCHANGED <<cache, status, txn, events>>
  /\ reply' = [reply EXCEPT ![a] = NoAnswer]
  /\ UNCHANGED <<hcmVars, dto, attempt, queueVars, seen, target, cause, sent, told>>

\* Mutation of Revert: the failure is not recorded in the audit log.
RevertUnlogged(a) ==
  /\ pc[a] = "reverting" /\ QueueFree
  /\ status' = [status EXCEPT ![target[a]] = "PENDING"]
  /\ Goto(a, "failed")
  /\ cause' = [cause EXCEPT ![a] = "none"]
  /\ UNCHANGED <<hcmVars, dto, attempt, txn, events, cache, queueVars, seen, target, reply, sent, told>>

Revert(a) ==
  /\ pc[a] = "reverting" /\ QueueFree
  /\ IF HoldsLock(a)
       THEN /\ status' = [status EXCEPT ![target[a]] = "PENDING"]
            /\ Log(target[a], cause[a])
       ELSE UNCHANGED <<status, events>>
  /\ Goto(a, "failed")
  /\ cause' = [cause EXCEPT ![a] = "none"]
  /\ UNCHANGED <<hcmVars, dto, attempt, txn, cache, queueVars, seen, target, reply, sent, told>>

(***************************************************************************)
(* reject and cancel.                                                      *)
(***************************************************************************)
\* Mutation of Close: a request under approval can be closed.
CloseApproving(r, s, e) ==
  /\ QueueFree
  /\ status[r] \in {"PENDING", "APPROVING"}
  /\ status' = [status EXCEPT ![r] = s]
  /\ Log(r, e)
  /\ UNCHANGED <<hcmVars, dto, attempt, txn, cache, queueVars, callVars, sent, told>>

Close(r, s, e) ==
  /\ QueueFree
  /\ status[r] = "PENDING"
  /\ status' = [status EXCEPT ![r] = s]
  /\ Log(r, e)
  /\ UNCHANGED <<hcmVars, dto, attempt, txn, cache, queueVars, callVars, sent, told>>

Reject(r) == Close(r, "REJECTED", "REQUEST_REJECTED")
Cancel(r) == Close(r, "CANCELLED", "REQUEST_CANCELLED")

(***************************************************************************)
(* Faults.  The process stops: its calls are gone, an open transaction is  *)
(* rolled back, the databases and the messages on their way remain.        *)
(***************************************************************************)
Crash ==
  /\ "crash" \in Faults
  /\ \E c \in Calls : pc[c] \in Active
  /\ pc' = [c \in Calls |-> IF pc[c] \in Active THEN "dead" ELSE pc[c]]
  /\ Rollback
  /\ seen' = [c \in Requests \cup Refreshes |-> 0]
  /\ reply' = [a \in Approvals |-> NoAnswer]
  /\ cause' = [a \in Approvals |-> "none"]
  /\ UNCHANGED <<hcmVars, rowVars, target, sent, told>>

\* The database refuses the transaction that would release the lock.  approve
\* throws, and nothing tries again; only a refused balance is given back inside
\* the try block, whose catch then gives it back once more, as a rejection.
ReleaseFails(a) ==
  /\ "tx" \in Faults
  /\ pc[a] \in {"finalizing", "reverting"} /\ QueueFree
  /\ IF cause[a] = "APPROVAL_FAILED_INSUFFICIENT_HCM_BALANCE"
       THEN GiveUp(a, "APPROVAL_FAILED_HCM_REJECTED")
       ELSE Goto(a, "dead") /\ cause' = [cause EXCEPT ![a] = "none"]
  /\ reply' = [reply EXCEPT ![a] = NoAnswer]
  /\ UNCHANGED <<hcmVars, rowVars, cache, queueVars, seen, target, sent, told>>

(***************************************************************************)
(* The specification.                                                      *)
(***************************************************************************)
RefreshStep(c) == FetchBalance(c) \/ FetchFails(c) \/ FindCached(c) \/ SaveCached(c)

CreateStep(r) == CreateReadBalance(r) \/ CreateSumReserved(r) \/ CreateSave(r)

ApproveStep(a) ==
  \/ CheckSufficient(a) \/ CheckInsufficient(a) \/ CheckFails(a)
  \/ ApplyFails(a) \/ ApplyAnswered(a)
  \/ Finalize(a) \/ Revert(a)

HcmStep(a) == HcmFiles(a) \/ HcmReplays(a) \/ HcmRefuses(a) \/ HcmUnavailable(a)

HcmChange(p, n, v) ==
  /\ PutBalance(p, n, v)
  /\ UNCHANGED <<rowVars, cache, queueVars, callVars, sent, told>>

ForceChange(f) ==
  /\ SetForce(f)
  /\ UNCHANGED <<rowVars, cache, queueVars, callVars, sent, told>>

Next ==
  \/ \E r \in Requests, d \in Dtos : CreateStart(r, d)
  \/ \E r \in Requests : CreateStep(r)
  \/ \E f \in Refreshes, p \in Pairs : RefreshStart(f, p)
  \/ \E c \in Requests \cup Refreshes : RefreshStep(c)
  \/ \E a \in Approvals, r \in Requests : ApproveLock(a, r)
  \/ \E a \in Approvals, r \in Requests : ApproveAnswered(a, r)
  \/ \E a \in Approvals : ApproveStep(a)
  \/ \E a \in Approvals : HcmStep(a)
  \/ \E r \in Requests : Reject(r)
  \/ \E r \in Requests : Cancel(r)
  \/ Crash
  \/ \E a \in Approvals : ReleaseFails(a)
  \/ \E p \in Pairs, n \in PutBalances, v \in BOOLEAN : HcmChange(p, n, v)
  \/ \E f \in ForceValues : ForceChange(f)

Spec == Init /\ [][Next]_vars

\* A call keeps running: every await it stands at ends, the HCM exchanges by
\* their abort timer if by nothing else, the write queue because it goes on to
\* the next piece of work whether the last one succeeded or not.
Fairness ==
  /\ \A c \in Requests \cup Refreshes : WF_vars(RefreshStep(c))
  /\ \A r \in Requests : WF_vars(CreateStep(r))
  /\ \A a \in Approvals : WF_vars(ApproveStep(a))

FairSpec == Spec /\ Fairness

(***************************************************************************)
(* Safety.                                                                 *)
(***************************************************************************)
\* The lock of approve: an approval that has locked a request finds it APPROVING
\* under its own attempt id until it releases it itself, so no two run against
\* the HCM at once and none meets "no longer active"; and a request is APPROVING
\* only while the approval that locked it runs, or for good, when the process
\* died or the releasing transaction failed.
ApprovalLock ==
  /\ \A a \in Approvals : pc[a] \in Applying \cup {"dead"} => HoldsLock(a)
  /\ \A r \in Requests : status[r] = "APPROVING" =>
       /\ attempt[r] \in Approvals
       /\ target[attempt[r]] = r
       /\ pc[attempt[r]] \in Applying \cup {"dead"}

\* An APPROVED request was filed by the HCM, and carries the transaction id of
\* that filing, also when the filing came from an earlier attempt whose answer
\* was lost and the approval that succeeded was answered from the HCM's record.
ApprovedIsFiled ==
  \A r \in Requests : status[r] = "APPROVED" => Filed(r) /\ txn[r] = filings[r].txn

Logged(r, e) == \E i \in DOMAIN events[r] : events[r][i] = e

\* When the HCM holds time off for a request the service shows as pending or
\* closed, the audit log of the request says so: some approval of it failed as
\* HCM_UNAVAILABLE or HCM_REJECTED.  Reconciling those requests is enough.
DivergenceIsAudited ==
  \A r \in Requests : Filed(r) /\ status[r] \in {"PENDING", "REJECTED", "CANCELLED"} =>
    \E why \in ExchangeFailures : Logged(r, why)

StatusAfter(e) ==
  CASE e = "REQUEST_APPROVING" -> "APPROVING"
    [] e = "REQUEST_APPROVED" -> "APPROVED"
    [] e = "REQUEST_REJECTED" -> "REJECTED"
    [] e = "REQUEST_CANCELLED" -> "CANCELLED"
    [] OTHER -> "PENDING"

StatusBefore(e) ==
  CASE e = "REQUEST_CREATED" -> "NONE"
    [] e \in Failures \cup {"REQUEST_APPROVED"} -> "APPROVING"
    [] OTHER -> "PENDING"

\* Replaying the audit log of a request gives its status: every event is legal
\* after the one before it, and the last one leads to the status column.
AuditReplays ==
  \A r \in Requests :
    LET After(i) == IF i = 0 THEN "NONE" ELSE StatusAfter(events[r][i])
    IN  /\ \A i \in DOMAIN events[r] : StatusBefore(events[r][i]) = After(i - 1)
        /\ status[r] = After(Len(events[r]))

\* Two creations with one Idempotency-Key leave at most one row, however their
\* lookups, refreshes and transactions interleave.
OneRowPerKey ==
  \A r, s \in Requests : Row(r) /\ Row(s) /\ SameKey(dto[r], dto[s]) => r = s

(***************************************************************************)
(* What a step may never do.                                               *)
(***************************************************************************)
NewlyFiled(p) == {r \in Requests : Filed(r)' /\ ~Filed(r) /\ dto[r].pair = p}

\* The official balance falls by the days of a request when the HCM files it
\* for the first time and at no other time: a repeated apply deducts nothing.
\* (Someone setting the balance by hand is the one other change.)
DeductedOnce ==
  [][(\E p \in Pairs, n \in PutBalances, v \in BOOLEAN : HcmChange(p, n, v))
     \/ \A p \in Pairs : hcmBalance'[p] = hcmBalance[p] - DaysOver(NewlyFiled(p))]_vars

\* A request is created only if, with it, the reservations of its pair fit the
\* cached balance its transaction read: creations racing for the same balance
\* never both pass the check, because the write queue keeps them apart.
ReservationFits ==
  [][\A r \in Requests : ~Row(r) /\ Row(r)' =>
       Reserved(dto[r].pair)' <= seen[r]]_vars

\* Without changes by hand at the HCM and from caches that are not too low, a
\* cached balance may lag behind the HCM but only upwards, whatever the order in
\* which refreshes and approvals save what they were told, and whatever of it a
\* creation that is rolled back takes back: stale data lets a request through, it
\* never refuses one.
CacheNeverLow == \A p \in Pairs : cache[p] # NoRow => cache[p] >= hcmBalance[p]

Lifecycle == INSTANCE RequestLifecycle
  WITH tried <- [r \in Requests |-> Logged(r, "REQUEST_APPROVING")],
       filed <- [r \in Requests |-> Filed(r)]

\* The service keeps the promises of RequestLifecycle.
LifecycleSpec == Lifecycle!Spec

\* What an approval asks to be filed is fixed with its request, since the columns
\* that make up the body of the message never change.
AskedFor == [a \in Approvals |->
  IF target[a] = NoRequest THEN NoAttempt ELSE [request |-> target[a]]]
Recorded == [r \in Requests |->
  IF Filed(r) THEN [body |-> [request |-> r], txn |-> filings[r].txn, amount |-> filings[r].balance]
              ELSE NotFiled]
AnswerTo == [a \in Approvals |->
  [kind |-> told[a].kind, txn |-> told[a].txn, amount |-> told[a].balance]]

Ledger == INSTANCE HcmLedger
  WITH Messages <- Approvals, Bodies <- [request : Requests], NoBody <- NoAttempt,
       body <- AskedFor, record <- Recorded, answer <- AnswerTo

\* The HCM of this model keeps the promises of HcmLedger, which HcmServer shows
\* of the simulator await by await: one filing of a request and for good, however
\* many approvals ask for it, and whoever is answered with it gets its transaction.
LedgerSpec == Ledger!Spec

(***************************************************************************)
(* Liveness, of FairSpec and without faults.                               *)
(***************************************************************************)
\* No request stays locked: an approval that locked it approves it or gives it
\* back, whatever the HCM answers or fails to answer.
ApprovalResolves ==
  \A r \in Requests : status[r] = "APPROVING" ~> status[r] # "APPROVING"

\* Every call ends: none waits forever for the write queue or another call.
CallsEnd == \A c \in Calls : pc[c] \in Active ~> pc[c] \in Ended

(***************************************************************************)
(* What the documents promise and the code does not keep.                  *)
(***************************************************************************)
\* docs/TRD.md 58: the HCM deducts only when a manager approves the request.  A
\* request that was rejected or cancelled is then not filed with the HCM.
ClosedIsNotFiled ==
  \A r \in Requests : status[r] \in {"REJECTED", "CANCELLED"} => ~Filed(r)

\* docs/TRD.md 373: after an approval failed because the HCM was unavailable the
\* request stays retryable.  A retry is then not refused for the balance the HCM
\* has already deducted for this very request.
RetryIsNotRefused ==
  [][\A a \in Approvals : CheckInsufficient(a) => ~Filed(target[a])]_vars

\* docs/TRD.md 368: if the HCM is lower than the requested days, a creation
\* leaves no PENDING request.  (Checked with no change by hand at the HCM.)
CreatedIsBacked ==
  [][\A r \in Requests : ~Row(r) /\ Row(r)' =>
       dto[r].days <= hcmBalance[dto[r].pair]]_vars

\* docs/TEST_PLAN.md TC-029: a creation with the key and the payload of an
\* earlier one is answered with the original request.
RetryReturnsOriginal ==
  [][\A r \in Requests : pc[r] \in InTransaction /\ pc'[r] = "failed" =>
       ~\E s \in Requests : Row(s) /\ SameKey(dto[s], dto[r])
                             /\ SamePayload(dto[s], dto[r])]_vars
=============================================================================
