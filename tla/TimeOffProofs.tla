--------------------------- MODULE TimeOffProofs ---------------------------
(***************************************************************************)
(* Machine-checked proofs about TimeOff, for every value of its constants. *)
(***************************************************************************)
EXTENDS TimeOff, TLAPS

(***************************************************************************)
(* What each call knows at each of its awaits.  This is the part of the    *)
(* inductive invariant that is about local state: arguments are set once a *)
(* call has started, and an answer that is being used was really given.    *)
(***************************************************************************)
CreationsKnown ==
  \A r \in Requests :
    /\ pc[r] # "idle" => dto[r] \in Dtos
    /\ Row(r) => pc[r] = "created"

RefreshesKnown == \A f \in Refreshes : pc[f] # "idle" => target[f] \in Pairs

ApprovalStates == {"idle", "approved", "failed", "dead"} \cup Applying

ApprovalsKnown == \A a \in Approvals : pc[a] \in ApprovalStates

\* An apply message, and the call that sent it, is about an existing request.
MessagesKnown ==
  \A a \in Approvals : a \in sent \/ pc[a] \in Applying => pc[a] # "idle" /\ Row(target[a])

CausesKnown == \A a \in Approvals : pc[a] = "reverting" => cause[a] \in Failures

\* A positive answer tells what the HCM has filed for the request, and is only
\* kept by the call that waits for it or is about to finalize with it.
RepliesKnown ==
  \A a \in Approvals :
    /\ pc[a] = "finalizing" => reply[a].kind = "filed" /\ reply[a].balance \in Nat
    /\ reply[a].kind = "filed" =>
         /\ pc[a] \in {"applying", "finalizing"}
         /\ Filed(target[a]) /\ reply[a].txn = filings[target[a]].txn

CallsKnown ==
  /\ CreationsKnown /\ RefreshesKnown /\ ApprovalsKnown
  /\ MessagesKnown /\ CausesKnown /\ RepliesKnown

IInv == TypeOK /\ CallsKnown /\ ApprovalLock /\ ApprovedIsFiled

(***************************************************************************)
(* The initial states.                                                     *)
(***************************************************************************)
\* Every initial state is well typed.
LEMMA InitTypeOK == Init => TypeOK
<1> SUFFICES ASSUME Init PROVE TypeOK
    OBVIOUS
<1>1. HcmTypeOK
  <2>1. hcmBalance \in [Pairs -> Int]
    <3>1. hcmBalance \in [Pairs -> Balances] /\ \A n \in Balances : n \in Nat
      BY HcmAssumption, Zenon DEF Init, HcmInit
    <3> QED
      BY <3>1
  <2>2. hcmValid \in [Pairs -> BOOLEAN] /\ forceApply \in BOOLEAN
    BY HcmAssumption, Zenon DEF Init, HcmInit
  <2>3. filings \in [Requests -> Filings \cup {NotFiled}]
    BY DEF Init, HcmInit
  <2> QED
    BY <2>1, <2>2, <2>3 DEF HcmTypeOK
<1>2. /\ dto \in [Requests -> Dtos \cup {NoDto}]
      /\ status \in [Requests -> Statuses]
      /\ attempt \in [Requests -> Approvals \cup {NoAttempt}]
      /\ txn \in [Requests -> Approvals \cup {NoAttempt}]
      /\ events \in [Requests -> Seq(EventTypes)]
  BY DEF Init, Statuses
<1>3. cache \in Caches
  BY HcmAssumption DEF Init, Caches
<1>4. /\ writer \in Requests \cup {NoWriter} /\ undo \in Caches \cup {NoUndo}
      /\ pc \in [Calls -> {"idle"} \cup Active \cup Ended]
      /\ seen \in [Requests \cup Refreshes -> Nat]
      /\ target \in [Approvals \cup Refreshes -> Requests \cup Pairs \cup {NoRequest}]
      /\ \A a \in Approvals : pc[a] # "idle" => target[a] \in Requests
      /\ sent \subseteq Approvals
  BY DEF Init, Calls
<1>5. /\ reply \in [Approvals -> Replies] /\ told \in [Approvals -> Replies]
      /\ cause \in [Approvals -> Failures \cup {"none"}]
  BY DEF Init, Replies, NoAnswer
<1> QED
  BY <1>1, <1>2, <1>3, <1>4, <1>5 DEF TypeOK

\* Every initial state satisfies the inductive invariant.
LEMMA InitIInv == Init => IInv
<1> SUFFICES ASSUME Init PROVE IInv
    OBVIOUS
<1>1. TypeOK
  BY InitTypeOK
<1>2. CallsKnown
  BY DEF Init, CallsKnown, CreationsKnown, RefreshesKnown, ApprovalsKnown,
         ApprovalStates, MessagesKnown, CausesKnown, RepliesKnown, Row, Applying, NoAnswer, Calls
<1>3. ApprovalLock
  BY DEF Init, ApprovalLock, Applying, Calls
<1>4. ApprovedIsFiled
  BY DEF Init, ApprovedIsFiled
<1> QED
  BY <1>1, <1>2, <1>3, <1>4 DEF IInv

\* An event of the enumerated types appended to the log of one request.
LEMMA LogTyped ==
  ASSUME NEW log \in [Requests -> Seq(EventTypes)], NEW r \in Requests, NEW e \in EventTypes
  PROVE  [log EXCEPT ![r] = Append(@, e)] \in [Requests -> Seq(EventTypes)]
OBVIOUS

\* The days a message asks for, and what they would leave of the balance.
LEMMA FilingTyped ==
  ASSUME TypeOK, CreationsKnown, MessagesKnown, NEW a \in Approvals, a \in sent
  PROVE  /\ PairFor(a) \in Pairs /\ DaysFor(a) \in Nat
         /\ hcmBalance[PairFor(a)] - DaysFor(a) \in Int
<1>1. dto[target[a]] \in Dtos
  BY DEF TypeOK, CreationsKnown, MessagesKnown
<1>2. PairFor(a) \in Pairs /\ DaysFor(a) \in Nat
  BY <1>1, TimeOffAssumption DEF PairFor, DaysFor
<1> QED
  BY <1>2 DEF TypeOK, HcmTypeOK

\* A transaction that fails leaves the lock with its approval, which either ends
\* or tries again to give the request back.
LEMMA ReleaseStep ==
  ASSUME TypeOK, NEW a \in Approvals, ReleaseFails(a)
  PROVE  \E l \in {"dead", "reverting"}, why \in Failures \cup {"none"} :
           Goto(a, l) /\ cause' = [cause EXCEPT ![a] = why]
<1>1. CASE cause[a] = "APPROVAL_FAILED_INSUFFICIENT_HCM_BALANCE"
  BY <1>1 DEF ReleaseFails, GiveUp, Failures
<1>2. CASE cause[a] # "APPROVAL_FAILED_INSUFFICIENT_HCM_BALANCE"
  BY <1>2 DEF ReleaseFails
<1> QED
  BY <1>1, <1>2

(***************************************************************************)
(* Types.  Every action keeps them, given what its call knows.             *)
(***************************************************************************)
\* A transaction that ends leaves a cache behind, committed or rolled back.
LEMMA EndTyped ==
  ASSUME TypeOK, Commit \/ Rollback
  PROVE  /\ cache' \in Caches
         /\ writer' \in Requests \cup {NoWriter} /\ undo' \in Caches \cup {NoUndo}
BY DEF TypeOK, Commit, Rollback

LEMMA TypeStep == TypeOK /\ CallsKnown /\ [Next]_vars => TypeOK'
<1> SUFFICES ASSUME TypeOK, CallsKnown, [Next]_vars PROVE TypeOK'
    OBVIOUS
<1> USE DEF queueVars
<1>1. ASSUME NEW r \in Requests, NEW d \in Dtos, CreateStart(r, d) PROVE TypeOK'
  <2>1. PICK l \in {"fetching", "replayed", "failed"} : Goto(r, l)
    BY <1>1, Zenon DEF CreateStart
  <2>2. dto' = [dto EXCEPT ![r] = d]
    BY <1>1 DEF CreateStart
  <2>3. pc' \in [Calls -> {"idle"} \cup Active \cup Ended]
    BY <2>1 DEF TypeOK, Goto, Active, Ended, Filling
  <2>4. \A a \in Approvals : pc'[a] = pc[a]
    BY <2>1, TimeOffAssumption DEF TypeOK, Goto, Calls
  <2> QED
    BY <1>1, <2>2, <2>3, <2>4 DEF CreateStart, TypeOK, HcmTypeOK, hcmVars
<1>2. ASSUME NEW r \in Requests, CreateReadBalance(r) PROVE TypeOK'
  <2>1. CASE Goto(r, "failed") /\ UNCHANGED <<queueVars, seen>>
    BY <1>2, <2>1
       DEF CreateReadBalance, TypeOK, HcmTypeOK, rowVars, hcmVars, Goto, Calls, Ended
  <2>2. CASE Goto(r, "summing") /\ Open(r) /\ cache[dto[r].pair] # NoRow
    <3>1. dto[r].pair \in Pairs
      BY <1>2, TimeOffAssumption DEF CreateReadBalance, CallsKnown, CreationsKnown, Active
    <3>2. cache[dto[r].pair] \in Nat
      BY <2>2, <3>1 DEF TypeOK, Caches
    <3>3. /\ seen' \in [Requests \cup Refreshes -> Nat] /\ undo' = cache /\ writer' = r
          /\ pc' \in [Calls -> {"idle"} \cup Active \cup Ended]
      BY <2>2, <3>2 DEF Open, TypeOK, Goto, Active, InTransaction
    <3>4. \A a \in Approvals : pc'[a] = pc[a]
      BY <2>2, TimeOffAssumption DEF TypeOK, Goto, Calls
    <3> QED
      BY <1>2, <3>3, <3>4 DEF CreateReadBalance, TypeOK, HcmTypeOK, rowVars, hcmVars
  <2> QED
    BY <1>2, <2>1, <2>2, Zenon DEF CreateReadBalance
<1>3. ASSUME NEW r \in Requests, CreateSumReserved(r) PROVE TypeOK'
  <2>1. CASE Goto(r, "failed") /\ Commit /\ seen' = [seen EXCEPT ![r] = 0]
    BY <1>3, <2>1, EndTyped
       DEF CreateSumReserved, TypeOK, HcmTypeOK, rowVars, hcmVars, callVars, Goto, Log,
           Calls, Ended
  <2>2. CASE Goto(r, "saving") /\ UNCHANGED <<queueVars, cache, seen>>
    BY <1>3, <2>2
       DEF CreateSumReserved, TypeOK, HcmTypeOK, rowVars, hcmVars, callVars, Goto, Log,
           Calls, Active, InTransaction
  <2> QED
    BY <1>3, <2>1, <2>2, Zenon DEF CreateSumReserved
<1>4. ASSUME NEW r \in Requests, CreateSave(r) PROVE TypeOK'
  <2>1. CASE Goto(r, "failed") /\ Rollback /\ UNCHANGED <<status, events>>
    BY <1>4, <2>1, EndTyped
       DEF CreateSave, TypeOK, HcmTypeOK, rowVars, hcmVars, callVars, Goto, Log, Calls, Ended
  <2>2. CASE /\ Goto(r, "created") /\ Commit
             /\ status' = [status EXCEPT ![r] = "PENDING"]
             /\ Log(r, "REQUEST_CREATED")
    BY <1>4, <2>2, EndTyped
       DEF CreateSave, TypeOK, HcmTypeOK, rowVars, hcmVars, callVars, Goto, Log, Calls,
           Ended, EventTypes, Statuses
  <2> QED
    BY <1>4, <2>1, <2>2, Zenon DEF CreateSave
<1>5. ASSUME NEW f \in Refreshes, NEW p \in Pairs, RefreshStart(f, p) PROVE TypeOK'
  BY TimeOffAssumption, <1>5
     DEF TypeOK, HcmTypeOK, rowVars, hcmVars, callVars, Goto, Log, Calls, RefreshStart,
         Active, Filling
<1>6. ASSUME NEW c \in Requests \cup Refreshes, FetchBalance(c) PROVE TypeOK'
  BY TimeOffAssumption, <1>6
     DEF TypeOK, HcmTypeOK, rowVars, hcmVars, callVars, Goto, Log, Calls, FetchBalance,
         CallsKnown, CreationsKnown, RefreshesKnown, PairOf, BalanceAnswers, Parses, Active,
         Filling
<1>7. ASSUME NEW c \in Requests \cup Refreshes, FetchFails(c) PROVE TypeOK'
  BY <1>7 DEF TypeOK, HcmTypeOK, rowVars, hcmVars, callVars, Goto, Log, Calls, FetchFails, Ended
<1>8. ASSUME NEW c \in Requests \cup Refreshes, FindCached(c) PROVE TypeOK'
  BY <1>8
     DEF TypeOK, HcmTypeOK, rowVars, hcmVars, callVars, Goto, Log, Calls, FindCached, Active,
         Filling
<1>9. ASSUME NEW c \in Requests \cup Refreshes, SaveCached(c) PROVE TypeOK'
  <2>1. CASE Goto(c, "failed") /\ UNCHANGED cache
    BY <1>9, <2>1
       DEF SaveCached, TypeOK, HcmTypeOK, rowVars, hcmVars, callVars, Goto, Log, Calls, Ended
  <2>2. CASE /\ cache' = [cache EXCEPT ![PairOf(c)] = seen[c]]
             /\ Goto(c, IF c \in Requests THEN "queued" ELSE "refreshed")
    <3>1. pc' \in [Calls -> {"idle"} \cup Active \cup Ended]
      BY <2>2 DEF TypeOK, Goto, Active, Ended
    <3>2. cache' \in Caches
      BY <2>2 DEF TypeOK, Caches
    <3>3. \A a \in Approvals : pc'[a] = pc[a]
      BY <2>2, TimeOffAssumption DEF TypeOK, Goto, Calls
    <3> QED
      BY <1>9, <3>1, <3>2, <3>3 DEF SaveCached, TypeOK, HcmTypeOK, hcmVars, rowVars
  <2> QED
    BY <1>9, <2>1, <2>2, Zenon DEF SaveCached
<1>10. ASSUME NEW a \in Approvals, NEW r \in Requests, ApproveLock(a, r) PROVE TypeOK'
  BY TimeOffAssumption, <1>10
     DEF TypeOK, HcmTypeOK, rowVars, hcmVars, callVars, Goto, Log, Calls, ApproveLock,
         Active, Applying, EventTypes, Statuses
<1>11. ASSUME NEW a \in Approvals, NEW r \in Requests, ApproveAnswered(a, r) PROVE TypeOK'
  BY TimeOffAssumption, <1>11
     DEF TypeOK, HcmTypeOK, rowVars, hcmVars, callVars, Goto, Log, Calls, ApproveAnswered, Ended
<1>12. ASSUME NEW a \in Approvals, CheckSufficient(a) PROVE TypeOK'
  BY <1>12
     DEF TypeOK, HcmTypeOK, rowVars, hcmVars, callVars, Goto, Log, Calls, CheckSufficient,
         Active, Applying
<1>13. ASSUME NEW a \in Approvals, CheckInsufficient(a) PROVE TypeOK'
  BY <1>13
     DEF TypeOK, HcmTypeOK, rowVars, hcmVars, callVars, Goto, Log, Calls, CheckInsufficient,
         GiveUp, Failures, Active, Applying
<1>14. ASSUME NEW a \in Approvals, CheckFails(a) PROVE TypeOK'
  BY <1>14
     DEF TypeOK, HcmTypeOK, rowVars, hcmVars, callVars, Goto, Log, Calls, CheckFails, GiveUp,
         ExchangeFailures, Failures, Active, Applying
<1>15. ASSUME NEW a \in Approvals, ApplyFails(a) PROVE TypeOK'
  BY <1>15
     DEF TypeOK, HcmTypeOK, rowVars, hcmVars, callVars, Goto, Log, Calls, ApplyFails, GiveUp,
         ExchangeFailures, Failures, Active, Applying, NoAnswer, Replies
<1>16. ASSUME NEW a \in Approvals, ApplyAnswered(a) PROVE TypeOK'
  <2>1. CASE Goto(a, "finalizing") /\ UNCHANGED <<cause, reply>>
    BY <1>16, <2>1
       DEF ApplyAnswered, TypeOK, HcmTypeOK, rowVars, hcmVars, callVars, Goto, Log, Calls,
           Active, Applying
  <2>2. CASE /\ \E why \in ExchangeFailures : GiveUp(a, why)
             /\ reply' = [reply EXCEPT ![a] = NoAnswer]
    BY <1>16, <2>2
       DEF ApplyAnswered, GiveUp, ExchangeFailures, TypeOK, HcmTypeOK, rowVars, hcmVars,
           callVars, Goto, Log, Calls, Failures, Active,
                       Applying, NoAnswer, Replies
  <2>3. (IF reply[a].kind = "down" THEN "APPROVAL_FAILED_HCM_UNAVAILABLE"
         ELSE "APPROVAL_FAILED_HCM_REJECTED") \in ExchangeFailures
    BY DEF ExchangeFailures
  <2> QED
    BY <1>16, <2>1, <2>2, <2>3, Zenon DEF ApplyAnswered
<1>17. ASSUME NEW a \in Approvals, Finalize(a) PROVE TypeOK'
  <2>1. CASE HoldsLock(a)
    <3>1. cache' = [cache EXCEPT ![PairFor(a)] = reply[a].balance] /\ reply[a].balance \in Nat
      BY <1>17, <2>1 DEF Finalize, CallsKnown, RepliesKnown
    <3>2. cache' \in Caches
      BY <3>1 DEF TypeOK, Caches
    <3>3. txn' \in [Requests -> Approvals \cup {NoAttempt}]
      BY <1>17, <2>1 DEF Finalize, TypeOK, Replies
    <3>4. /\ status' \in [Requests -> Statuses]
          /\ pc' \in [Calls -> {"idle"} \cup Active \cup Ended]
          /\ \A b \in Approvals : pc'[b] # "idle" => target[b] \in Requests
      BY <1>17, <2>1 DEF Finalize, Goto, TypeOK, Statuses, Ended, Calls
    <3>5. events' \in [Requests -> Seq(EventTypes)]
      <4>1. target[a] \in Requests
        BY <1>17 DEF Finalize, TypeOK
      <4>2. "REQUEST_APPROVED" \in EventTypes
        BY DEF EventTypes
      <4>3. events \in [Requests -> Seq(EventTypes)]
        BY DEF TypeOK
      <4>4. events' = [events EXCEPT ![target[a]] = Append(@, "REQUEST_APPROVED")]
        BY <1>17, <2>1, Zenon DEF Finalize, Log
      <4> QED
        BY <4>1, <4>2, <4>3, <4>4, LogTyped
    <3>6. reply' \in [Approvals -> Replies]
      BY <1>17 DEF Finalize, TypeOK, Replies, NoAnswer
    <3> QED
      BY <1>17, <3>2, <3>3, <3>4, <3>5, <3>6 DEF Finalize, TypeOK, HcmTypeOK, hcmVars
  <2>2. CASE ~HoldsLock(a)
    <3>1. Goto(a, "failed") /\ UNCHANGED <<cache, status, txn, events>>
      BY <1>17, <2>2, Zenon DEF Finalize
    <3>2. reply' \in [Approvals -> Replies]
      BY <1>17 DEF Finalize, TypeOK, Replies, NoAnswer
    <3>3. /\ pc' \in [Calls -> {"idle"} \cup Active \cup Ended]
          /\ \A b \in Approvals : pc'[b] # "idle" => target[b] \in Requests
      BY <1>17, <3>1 DEF Finalize, Goto, TypeOK, Ended, Calls
    <3> QED
      BY <1>17, <3>1, <3>2, <3>3 DEF Finalize, TypeOK, HcmTypeOK, hcmVars
  <2> QED
    BY <2>1, <2>2
<1>18. ASSUME NEW a \in Approvals, Revert(a) PROVE TypeOK'
  <2>1. CASE HoldsLock(a)
    <3>1. events' \in [Requests -> Seq(EventTypes)]
      <4>1. target[a] \in Requests
        BY <1>18 DEF Revert, TypeOK
      <4>2. cause[a] \in EventTypes
        BY <1>18 DEF Revert, CallsKnown, CausesKnown, EventTypes
      <4>3. events \in [Requests -> Seq(EventTypes)]
        BY DEF TypeOK
      <4>4. events' = [events EXCEPT ![target[a]] = Append(@, cause[a])]
        BY <1>18, <2>1, Zenon DEF Revert, Log
      <4> QED
        BY <4>1, <4>2, <4>3, <4>4, LogTyped
    <3>2. status' \in [Requests -> Statuses]
      BY <1>18, <2>1 DEF Revert, TypeOK, Statuses
    <3>3. /\ pc' \in [Calls -> {"idle"} \cup Active \cup Ended]
          /\ \A b \in Approvals : pc'[b] # "idle" => target[b] \in Requests
          /\ cause' \in [Approvals -> Failures \cup {"none"}]
      BY <1>18 DEF Revert, Goto, TypeOK, Ended, Calls
    <3> QED
      BY <1>18, <3>1, <3>2, <3>3 DEF Revert, TypeOK, HcmTypeOK, hcmVars
  <2>2. CASE ~HoldsLock(a)
    BY <1>18, <2>2
       DEF Revert, TypeOK, HcmTypeOK, rowVars, hcmVars, callVars, Goto, Log, Calls, Ended
  <2> QED
    BY <2>1, <2>2
<1>19. ASSUME NEW a \in Approvals, HcmFiles(a) PROVE TypeOK'
  <2>1. PairFor(a) \in Pairs
    BY <1>19, FilingTyped DEF HcmFiles, CallsKnown
  <2>2. hcmBalance[PairFor(a)] - DaysFor(a) \in Int
    BY <1>19, FilingTyped DEF HcmFiles, CallsKnown
  <2>3. HcmTypeOK'
    BY <1>19, <2>1, <2>2 DEF HcmFiles, FileTimeOff, TypeOK, HcmTypeOK, Filings
  <2>4. reply' \in [Approvals -> Replies]
    BY <1>19, <2>2 DEF HcmFiles, Consume, TypeOK, Replies
  <2>5. told' \in [Approvals -> Replies]
    BY <1>19, <2>2 DEF HcmFiles, Consume, TypeOK, Replies
  <2> QED
    BY <1>19, <2>3, <2>4, <2>5 DEF HcmFiles, Consume, TypeOK, rowVars
<1>20. ASSUME NEW a \in Approvals, HcmReplays(a) PROVE TypeOK'
  <2> DEFINE answer == [kind |-> "filed", txn |-> filings[target[a]].txn,
                        balance |-> filings[target[a]].balance]
  <2>1. answer \in Replies
    BY <1>20 DEF HcmReplays, Filed, CallsKnown, MessagesKnown, TypeOK, HcmTypeOK, Filings, Replies
  <2>2. Consume(a, answer) /\ UNCHANGED hcmVars
    BY <1>20 DEF HcmReplays
  <2> HIDE DEF answer
  <2> QED
    BY <2>1, <2>2 DEF TypeOK, HcmTypeOK, rowVars, hcmVars, Consume
<1>21. ASSUME NEW a \in Approvals, HcmRefuses(a) PROVE TypeOK'
  BY <1>21
     DEF TypeOK, HcmTypeOK, rowVars, hcmVars, callVars, Goto, Log, Calls, HcmRefuses,
         Consume, NoAnswer, Replies
<1>22. ASSUME NEW a \in Approvals, HcmUnavailable(a) PROVE TypeOK'
  BY <1>22
     DEF TypeOK, HcmTypeOK, rowVars, hcmVars, callVars, Goto, Log, Calls, HcmUnavailable,
         Consume, NoAnswer, Replies
<1>23. ASSUME NEW r \in Requests, Reject(r) PROVE TypeOK'
  BY <1>23
     DEF TypeOK, HcmTypeOK, rowVars, hcmVars, callVars, Goto, Log, Calls, Reject, Close,
         EventTypes, Statuses
<1>24. ASSUME NEW r \in Requests, Cancel(r) PROVE TypeOK'
  BY <1>24
     DEF TypeOK, HcmTypeOK, rowVars, hcmVars, callVars, Goto, Log, Calls, Cancel, Close,
         EventTypes, Statuses
<1>25. ASSUME Crash PROVE TypeOK'
  <2>1. /\ pc' \in [Calls -> {"idle"} \cup Active \cup Ended]
        /\ \A a \in Approvals : pc'[a] # "idle" => pc[a] # "idle"
    <3>1. pc' = [c \in Calls |-> IF pc[c] \in Active THEN "dead" ELSE pc[c]]
      BY <1>25, Zenon DEF Crash
    <3>2. \A c \in Calls : pc'[c] = "dead" \/ pc'[c] = pc[c]
      BY <3>1
    <3>3. "dead" \in Ended /\ "idle" \notin Active
      BY DEF Ended, Active, Filling, Applying, InTransaction
    <3>4. pc' \in [Calls -> {"idle"} \cup Active \cup Ended]
      BY <3>1, <3>2, <3>3 DEF TypeOK
    <3>5. \A a \in Approvals : pc'[a] # "idle" => pc[a] # "idle"
      BY <3>1, <3>3 DEF Calls
    <3> QED
      BY <3>4, <3>5
  <2>2. reply' \in [Approvals -> Replies]
    BY <1>25 DEF Crash, Replies, NoAnswer
  <2>3. Rollback
    BY <1>25, Zenon DEF Crash
  <2> QED
    BY <1>25, <2>1, <2>2, <2>3, EndTyped DEF Crash, TypeOK, HcmTypeOK, hcmVars, rowVars
<1>26. ASSUME NEW a \in Approvals, ReleaseFails(a) PROVE TypeOK'
  <2>1. PICK l \in {"dead", "reverting"}, why \in Failures \cup {"none"} :
          Goto(a, l) /\ cause' = [cause EXCEPT ![a] = why]
    BY <1>26, ReleaseStep
  <2>2. l \in {"idle"} \cup Active \cup Ended /\ a \in Calls
    BY DEF Active, Applying, Ended, Calls
  <2>3. /\ pc' \in [Calls -> {"idle"} \cup Active \cup Ended]
        /\ cause' \in [Approvals -> Failures \cup {"none"}]
        /\ \A b \in Approvals : pc'[b] # "idle" => pc[b] # "idle"
    BY <1>26, <2>1, <2>2 DEF TypeOK, Goto, Calls, ReleaseFails
  <2>4. reply' \in [Approvals -> Replies]
    BY <1>26 DEF ReleaseFails, TypeOK, NoAnswer, Replies
  <2> QED
    BY <1>26, <2>3, <2>4 DEF ReleaseFails, TypeOK, HcmTypeOK, rowVars, hcmVars
<1>27. ASSUME NEW p \in Pairs, NEW n \in PutBalances, NEW v \in BOOLEAN, HcmChange(p, n, v)
       PROVE TypeOK'
  BY TimeOffAssumption, <1>27
     DEF TypeOK, HcmTypeOK, rowVars, hcmVars, callVars, Goto, Log, Calls, HcmChange,
         PutBalance, Parses
<1>28. ASSUME NEW f \in ForceValues, ForceChange(f) PROVE TypeOK'
  BY HcmAssumption, <1>28
     DEF TypeOK, HcmTypeOK, rowVars, hcmVars, callVars, Goto, Log, Calls, ForceChange, SetForce
<1>29. ASSUME UNCHANGED vars PROVE TypeOK'
  BY <1>29 DEF TypeOK, HcmTypeOK, rowVars, hcmVars, callVars, Goto, Log, Calls, vars
<1> QED
  BY <1>1, <1>2, <1>3, <1>4, <1>5, <1>6, <1>7, <1>8, <1>9, <1>10, <1>11, <1>12, <1>13, <1>14,
     <1>15, <1>16, <1>17, <1>18, <1>19, <1>20, <1>21, <1>22, <1>23, <1>24, <1>25, <1>26,
         <1>27, <1>28, <1>29
     DEF Next, CreateStep, RefreshStep, ApproveStep, HcmStep

(***************************************************************************)
(* Steps of creations, refreshes, of reject and cancel and of people at    *)
(* the HCM leave the approvals and what the HCM has filed as they are.     *)
(***************************************************************************)
ApprovalsUntouched ==
  /\ \A a \in Approvals : pc'[a] = pc[a] /\ target'[a] = target[a]
  /\ UNCHANGED <<attempt, txn, filings, reply, cause, sent, told>>
  /\ \A r \in Requests : Row(r) => Row(r)'
  /\ \A r \in Requests : status'[r] # status[r] =>
       status[r] \in {"NONE", "PENDING"} /\ status'[r] \in {"PENDING", "REJECTED", "CANCELLED"}

ApprovalMoves(a) ==
  \/ \E r \in Requests : ApproveLock(a, r)
  \/ \E r \in Requests : ApproveAnswered(a, r)
  \/ ApproveStep(a)
  \/ HcmStep(a)
  \/ ReleaseFails(a)

\* Every step moves an approval, is a crash, or leaves the approvals alone.
LEMMA OthersStep ==
  TypeOK /\ CreationsKnown /\ [Next]_vars =>
    ApprovalsUntouched \/ Crash \/ \E a \in Approvals : ApprovalMoves(a)
<1> SUFFICES ASSUME TypeOK, CreationsKnown, [Next]_vars,
                    ~Crash, ~\E a \in Approvals : ApprovalMoves(a)
             PROVE  ApprovalsUntouched
    OBVIOUS
<1>1. ASSUME NEW r \in Requests, NEW d \in Dtos, CreateStart(r, d) PROVE ApprovalsUntouched
  BY TimeOffAssumption, <1>1
     DEF hcmVars, rowVars, callVars, Goto, Log, Calls, TypeOK, ApprovalsUntouched, Row,
         CreateStart
<1>2. ASSUME NEW r \in Requests, CreateReadBalance(r) PROVE ApprovalsUntouched
  BY TimeOffAssumption, <1>2
     DEF hcmVars, rowVars, callVars, Goto, Log, Calls, TypeOK, ApprovalsUntouched, Row,
         CreateReadBalance
<1>3. ASSUME NEW r \in Requests, CreateSumReserved(r) PROVE ApprovalsUntouched
  BY TimeOffAssumption, <1>3
     DEF hcmVars, rowVars, callVars, Goto, Log, Calls, TypeOK, ApprovalsUntouched, Row,
         CreateSumReserved
<1>4. ASSUME NEW r \in Requests, CreateSave(r) PROVE ApprovalsUntouched
  BY TimeOffAssumption, <1>4
     DEF hcmVars, rowVars, callVars, Goto, Log, Calls, TypeOK, ApprovalsUntouched, Row,
         CreateSave, CreationsKnown
<1>5. ASSUME NEW f \in Refreshes, NEW p \in Pairs, RefreshStart(f, p) PROVE ApprovalsUntouched
  BY TimeOffAssumption, <1>5
     DEF hcmVars, rowVars, callVars, Goto, Log, Calls, TypeOK, ApprovalsUntouched, Row,
         RefreshStart
<1>6. ASSUME NEW c \in Requests \cup Refreshes, FetchBalance(c) PROVE ApprovalsUntouched
  BY TimeOffAssumption, <1>6
     DEF hcmVars, rowVars, callVars, Goto, Log, Calls, TypeOK, ApprovalsUntouched, Row,
         FetchBalance
<1>7. ASSUME NEW c \in Requests \cup Refreshes, FetchFails(c) PROVE ApprovalsUntouched
  BY TimeOffAssumption, <1>7
     DEF hcmVars, rowVars, callVars, Goto, Log, Calls, TypeOK, ApprovalsUntouched, Row,
         FetchFails
<1>8. ASSUME NEW c \in Requests \cup Refreshes, FindCached(c) PROVE ApprovalsUntouched
  BY TimeOffAssumption, <1>8
     DEF hcmVars, rowVars, callVars, Goto, Log, Calls, TypeOK, ApprovalsUntouched, Row,
         FindCached
<1>9. ASSUME NEW c \in Requests \cup Refreshes, SaveCached(c) PROVE ApprovalsUntouched
  BY TimeOffAssumption, <1>9
     DEF hcmVars, rowVars, callVars, Goto, Log, Calls, TypeOK, ApprovalsUntouched, Row,
         SaveCached
<1>10. ASSUME NEW r \in Requests, Reject(r) PROVE ApprovalsUntouched
  BY TimeOffAssumption, <1>10
     DEF hcmVars, rowVars, callVars, Goto, Log, Calls, TypeOK, ApprovalsUntouched, Row,
         Reject, Close
<1>11. ASSUME NEW r \in Requests, Cancel(r) PROVE ApprovalsUntouched
  BY TimeOffAssumption, <1>11
     DEF hcmVars, rowVars, callVars, Goto, Log, Calls, TypeOK, ApprovalsUntouched, Row,
         Cancel, Close
<1>12. ASSUME NEW p \in Pairs, NEW n \in PutBalances, NEW v \in BOOLEAN, HcmChange(p, n, v)
       PROVE ApprovalsUntouched
  BY TimeOffAssumption, <1>12
     DEF hcmVars, rowVars, callVars, Goto, Log, Calls, TypeOK, ApprovalsUntouched, Row,
         HcmChange, PutBalance
<1>13. ASSUME NEW f \in ForceValues, ForceChange(f) PROVE ApprovalsUntouched
  BY TimeOffAssumption, <1>13
     DEF hcmVars, rowVars, callVars, Goto, Log, Calls, TypeOK, ApprovalsUntouched, Row,
         ForceChange, SetForce
<1>14. ASSUME UNCHANGED vars PROVE ApprovalsUntouched
  BY TimeOffAssumption, <1>14
     DEF hcmVars, rowVars, callVars, Goto, Log, Calls, TypeOK, ApprovalsUntouched, Row, vars
<1> QED
  BY <1>1, <1>2, <1>3, <1>4, <1>5, <1>6, <1>7, <1>8, <1>9, <1>10, <1>11, <1>12, <1>13, <1>14
     DEF Next, CreateStep, RefreshStep, ApprovalMoves

\* The program counters of an approval, by name.
LEMMA States ==
  /\ "checking" \in ApprovalStates /\ "applying" \in ApprovalStates
  /\ "finalizing" \in ApprovalStates /\ "reverting" \in ApprovalStates
  /\ "approved" \in ApprovalStates /\ "failed" \in ApprovalStates
  /\ "dead" \in ApprovalStates
  /\ \A l \in ApprovalStates : l \in Active => l \in Applying
BY DEF ApprovalStates, Active, Filling, Applying, InTransaction

\* A crash ends the calls that run, and no others.
LEMMA CrashStep ==
  TypeOK /\ Crash => /\ \A c \in Calls : pc'[c] = IF pc[c] \in Active THEN "dead" ELSE pc[c]
                     /\ \A c \in Calls : pc'[c] \notin Active
                     /\ "idle" \notin Active /\ "created" \notin Active
<1> SUFFICES ASSUME TypeOK, Crash
             PROVE  /\ \A c \in Calls : pc'[c] = IF pc[c] \in Active THEN "dead" ELSE pc[c]
                    /\ \A c \in Calls : pc'[c] \notin Active
                    /\ "idle" \notin Active /\ "created" \notin Active
    OBVIOUS
<1>1. pc' = [c \in Calls |-> IF pc[c] \in Active THEN "dead" ELSE pc[c]]
  BY Zenon DEF Crash
<1>2. "dead" \notin Active /\ "idle" \notin Active /\ "created" \notin Active
  BY DEF Active, Filling, Applying, InTransaction
<1> QED
  BY <1>1, <1>2

\* Steps of an approval, or of the HCM for it, touch nothing of the other calls
\* and no request but the one the approval is for.
ApprovalTouches(a) ==
  /\ dto' = dto
  /\ \A c \in Requests \cup Refreshes : pc'[c] = pc[c]
  /\ \A f \in Refreshes : target'[f] = target[f]
  /\ \A r \in Requests : Row(r)' = Row(r)

\* What a step of an approval, or of the HCM about one, leaves alone.
LEMMA ApprovalFrame ==
  ASSUME TypeOK, ApprovalLock, NEW a \in Approvals, ApprovalMoves(a)
  PROVE  ApprovalTouches(a)
<1>1. ASSUME NEW r \in Requests, ApproveLock(a, r) PROVE ApprovalTouches(a)
  BY TimeOffAssumption, <1>1
     DEF hcmVars, rowVars, callVars, Goto, Log, Calls, TypeOK, ApprovalTouches, Row, ApproveLock
<1>2. ASSUME NEW r \in Requests, ApproveAnswered(a, r) PROVE ApprovalTouches(a)
  BY TimeOffAssumption, <1>2
     DEF hcmVars, rowVars, callVars, Goto, Log, Calls, TypeOK, ApprovalTouches, Row,
         ApproveAnswered
<1>3. ASSUME CheckSufficient(a) PROVE ApprovalTouches(a)
  BY TimeOffAssumption, <1>3
     DEF hcmVars, rowVars, callVars, Goto, Log, Calls, TypeOK, ApprovalTouches, Row,
         CheckSufficient
<1>4. ASSUME CheckInsufficient(a) PROVE ApprovalTouches(a)
  BY TimeOffAssumption, <1>4
     DEF hcmVars, rowVars, callVars, Goto, Log, Calls, TypeOK, ApprovalTouches, Row,
         CheckInsufficient, GiveUp
<1>5. ASSUME CheckFails(a) PROVE ApprovalTouches(a)
  BY TimeOffAssumption, <1>5
     DEF hcmVars, rowVars, callVars, Goto, Log, Calls, TypeOK, ApprovalTouches, Row,
         CheckFails, GiveUp
<1>6. ASSUME ApplyFails(a) PROVE ApprovalTouches(a)
  BY TimeOffAssumption, <1>6
     DEF hcmVars, rowVars, callVars, Goto, Log, Calls, TypeOK, ApprovalTouches, Row,
         ApplyFails, GiveUp
<1>7. ASSUME ApplyAnswered(a) PROVE ApprovalTouches(a)
  BY TimeOffAssumption, <1>7
     DEF hcmVars, rowVars, callVars, Goto, Log, Calls, TypeOK, ApprovalTouches, Row,
         ApplyAnswered, GiveUp
<1>8. ASSUME Finalize(a) PROVE ApprovalTouches(a)
  BY TimeOffAssumption, <1>8
     DEF hcmVars, rowVars, callVars, Goto, Log, Calls, TypeOK, ApprovalTouches, Row,
         Finalize, ApprovalLock, HoldsLock, Applying
<1>9. ASSUME Revert(a) PROVE ApprovalTouches(a)
  BY TimeOffAssumption, <1>9
     DEF hcmVars, rowVars, callVars, Goto, Log, Calls, TypeOK, ApprovalTouches, Row, Revert,
         ApprovalLock, HoldsLock, Applying
<1>10. ASSUME HcmFiles(a) PROVE ApprovalTouches(a)
  BY TimeOffAssumption, <1>10
     DEF hcmVars, rowVars, callVars, Goto, Log, Calls, TypeOK, ApprovalTouches, Row,
         HcmFiles, FileTimeOff, Consume
<1>11. ASSUME HcmReplays(a) PROVE ApprovalTouches(a)
  BY TimeOffAssumption, <1>11
     DEF hcmVars, rowVars, callVars, Goto, Log, Calls, TypeOK, ApprovalTouches, Row,
         HcmReplays, Consume
<1>12. ASSUME HcmRefuses(a) PROVE ApprovalTouches(a)
  BY TimeOffAssumption, <1>12
     DEF hcmVars, rowVars, callVars, Goto, Log, Calls, TypeOK, ApprovalTouches, Row,
         HcmRefuses, Consume
<1>13. ASSUME HcmUnavailable(a) PROVE ApprovalTouches(a)
  BY TimeOffAssumption, <1>13
     DEF hcmVars, rowVars, callVars, Goto, Log, Calls, TypeOK, ApprovalTouches, Row,
         HcmUnavailable, Consume
<1>14. ASSUME ReleaseFails(a) PROVE ApprovalTouches(a)
  BY TimeOffAssumption, <1>14
     DEF hcmVars, rowVars, callVars, Goto, Log, Calls, TypeOK, ApprovalTouches, Row,
         ReleaseFails, GiveUp
<1> QED
  BY <1>1, <1>2, <1>3, <1>4, <1>5, <1>6, <1>7, <1>8, <1>9, <1>10, <1>11, <1>12, <1>13, <1>14
     DEF ApprovalMoves, ApproveStep, HcmStep

(***************************************************************************)
(* What the calls know.                                                    *)
(***************************************************************************)
\* A creation keeps its body, and has a row only when it has been answered.
LEMMA CreationsStep ==
  TypeOK /\ CreationsKnown /\ ApprovalLock /\ [Next]_vars => CreationsKnown'
<1> SUFFICES ASSUME TypeOK, CreationsKnown, ApprovalLock, [Next]_vars PROVE CreationsKnown'
    OBVIOUS
<1>1. ASSUME NEW a \in Approvals, ApprovalMoves(a) PROVE CreationsKnown'
  BY <1>1, ApprovalFrame DEF ApprovalTouches, CreationsKnown
<1>2. CASE Crash
  BY <1>2, CrashStep
     DEF Crash, hcmVars, rowVars, callVars, Goto, Log, Calls, TypeOK, CreationsKnown, Row
<1>3. ASSUME NEW r \in Requests, NEW d \in Dtos, CreateStart(r, d) PROVE CreationsKnown'
  BY TimeOffAssumption, <1>3
     DEF hcmVars, rowVars, callVars, Goto, Log, Calls, TypeOK, CreationsKnown, Row, CreateStart
<1>4. ASSUME NEW r \in Requests, CreateReadBalance(r) PROVE CreationsKnown'
  BY TimeOffAssumption, <1>4
     DEF hcmVars, rowVars, callVars, Goto, Log, Calls, TypeOK, CreationsKnown, Row,
         CreateReadBalance
<1>5. ASSUME NEW r \in Requests, CreateSumReserved(r) PROVE CreationsKnown'
  BY TimeOffAssumption, <1>5
     DEF hcmVars, rowVars, callVars, Goto, Log, Calls, TypeOK, CreationsKnown, Row,
         CreateSumReserved
<1>6. ASSUME NEW r \in Requests, CreateSave(r) PROVE CreationsKnown'
  BY TimeOffAssumption, <1>6
     DEF hcmVars, rowVars, callVars, Goto, Log, Calls, TypeOK, CreationsKnown, Row, CreateSave
<1>7. ASSUME NEW f \in Refreshes, NEW p \in Pairs, RefreshStart(f, p) PROVE CreationsKnown'
  BY TimeOffAssumption, <1>7
     DEF hcmVars, rowVars, callVars, Goto, Log, Calls, TypeOK, CreationsKnown, Row, RefreshStart
<1>8. ASSUME NEW c \in Requests \cup Refreshes, FetchBalance(c) PROVE CreationsKnown'
  BY TimeOffAssumption, <1>8
     DEF hcmVars, rowVars, callVars, Goto, Log, Calls, TypeOK, CreationsKnown, Row, FetchBalance
<1>9. ASSUME NEW c \in Requests \cup Refreshes, FetchFails(c) PROVE CreationsKnown'
  BY TimeOffAssumption, <1>9
     DEF hcmVars, rowVars, callVars, Goto, Log, Calls, TypeOK, CreationsKnown, Row, FetchFails
<1>10. ASSUME NEW c \in Requests \cup Refreshes, FindCached(c) PROVE CreationsKnown'
  BY TimeOffAssumption, <1>10
     DEF hcmVars, rowVars, callVars, Goto, Log, Calls, TypeOK, CreationsKnown, Row, FindCached
<1>11. ASSUME NEW c \in Requests \cup Refreshes, SaveCached(c) PROVE CreationsKnown'
  BY TimeOffAssumption, <1>11
     DEF hcmVars, rowVars, callVars, Goto, Log, Calls, TypeOK, CreationsKnown, Row, SaveCached
<1>12. ASSUME NEW r \in Requests, Reject(r) PROVE CreationsKnown'
  BY TimeOffAssumption, <1>12
     DEF hcmVars, rowVars, callVars, Goto, Log, Calls, TypeOK, CreationsKnown, Row, Reject,
         Close
<1>13. ASSUME NEW r \in Requests, Cancel(r) PROVE CreationsKnown'
  BY TimeOffAssumption, <1>13
     DEF hcmVars, rowVars, callVars, Goto, Log, Calls, TypeOK, CreationsKnown, Row, Cancel,
         Close
<1>14. ASSUME NEW p \in Pairs, NEW n \in PutBalances, NEW v \in BOOLEAN, HcmChange(p, n, v)
       PROVE CreationsKnown'
  BY TimeOffAssumption, <1>14
     DEF hcmVars, rowVars, callVars, Goto, Log, Calls, TypeOK, CreationsKnown, Row,
         HcmChange, PutBalance
<1>15. ASSUME NEW f \in ForceValues, ForceChange(f) PROVE CreationsKnown'
  BY TimeOffAssumption, <1>15
     DEF hcmVars, rowVars, callVars, Goto, Log, Calls, TypeOK, CreationsKnown, Row,
         ForceChange, SetForce
<1>16. ASSUME UNCHANGED vars PROVE CreationsKnown'
  BY TimeOffAssumption, <1>16
     DEF hcmVars, rowVars, callVars, Goto, Log, Calls, TypeOK, CreationsKnown, Row, vars
<1> QED
  BY <1>1, <1>2, <1>3, <1>4, <1>5, <1>6, <1>7, <1>8, <1>9, <1>10, <1>11, <1>12, <1>13, <1>14,
     <1>15, <1>16
     DEF Next, CreateStep, RefreshStep, ApprovalMoves

\* A refresh keeps the pair it was called for.
LEMMA RefreshesStep ==
  TypeOK /\ RefreshesKnown /\ ApprovalLock /\ [Next]_vars => RefreshesKnown'
<1> SUFFICES ASSUME TypeOK, RefreshesKnown, ApprovalLock, [Next]_vars PROVE RefreshesKnown'
    OBVIOUS
<1>1. ASSUME NEW a \in Approvals, ApprovalMoves(a) PROVE RefreshesKnown'
  BY <1>1, ApprovalFrame DEF ApprovalTouches, RefreshesKnown
<1>2. CASE Crash
  BY <1>2, CrashStep
     DEF Crash, hcmVars, rowVars, callVars, Goto, Log, Calls, TypeOK, RefreshesKnown
<1>3. ASSUME NEW r \in Requests, NEW d \in Dtos, CreateStart(r, d) PROVE RefreshesKnown'
  BY TimeOffAssumption, <1>3
     DEF hcmVars, rowVars, callVars, Goto, Log, Calls, TypeOK, RefreshesKnown, CreateStart
<1>4. ASSUME NEW r \in Requests, CreateReadBalance(r) PROVE RefreshesKnown'
  BY TimeOffAssumption, <1>4
     DEF hcmVars, rowVars, callVars, Goto, Log, Calls, TypeOK, RefreshesKnown, CreateReadBalance
<1>5. ASSUME NEW r \in Requests, CreateSumReserved(r) PROVE RefreshesKnown'
  BY TimeOffAssumption, <1>5
     DEF hcmVars, rowVars, callVars, Goto, Log, Calls, TypeOK, RefreshesKnown, CreateSumReserved
<1>6. ASSUME NEW r \in Requests, CreateSave(r) PROVE RefreshesKnown'
  BY TimeOffAssumption, <1>6
     DEF hcmVars, rowVars, callVars, Goto, Log, Calls, TypeOK, RefreshesKnown, CreateSave
<1>7. ASSUME NEW f \in Refreshes, NEW p \in Pairs, RefreshStart(f, p) PROVE RefreshesKnown'
  BY TimeOffAssumption, <1>7
     DEF hcmVars, rowVars, callVars, Goto, Log, Calls, TypeOK, RefreshesKnown, RefreshStart
<1>8. ASSUME NEW c \in Requests \cup Refreshes, FetchBalance(c) PROVE RefreshesKnown'
  BY TimeOffAssumption, <1>8
     DEF hcmVars, rowVars, callVars, Goto, Log, Calls, TypeOK, RefreshesKnown, FetchBalance
<1>9. ASSUME NEW c \in Requests \cup Refreshes, FetchFails(c) PROVE RefreshesKnown'
  BY TimeOffAssumption, <1>9
     DEF hcmVars, rowVars, callVars, Goto, Log, Calls, TypeOK, RefreshesKnown, FetchFails
<1>10. ASSUME NEW c \in Requests \cup Refreshes, FindCached(c) PROVE RefreshesKnown'
  BY TimeOffAssumption, <1>10
     DEF hcmVars, rowVars, callVars, Goto, Log, Calls, TypeOK, RefreshesKnown, FindCached
<1>11. ASSUME NEW c \in Requests \cup Refreshes, SaveCached(c) PROVE RefreshesKnown'
  BY TimeOffAssumption, <1>11
     DEF hcmVars, rowVars, callVars, Goto, Log, Calls, TypeOK, RefreshesKnown, SaveCached
<1>12. ASSUME NEW r \in Requests, Reject(r) PROVE RefreshesKnown'
  BY TimeOffAssumption, <1>12
     DEF hcmVars, rowVars, callVars, Goto, Log, Calls, TypeOK, RefreshesKnown, Reject, Close
<1>13. ASSUME NEW r \in Requests, Cancel(r) PROVE RefreshesKnown'
  BY TimeOffAssumption, <1>13
     DEF hcmVars, rowVars, callVars, Goto, Log, Calls, TypeOK, RefreshesKnown, Cancel, Close
<1>14. ASSUME NEW p \in Pairs, NEW n \in PutBalances, NEW v \in BOOLEAN, HcmChange(p, n, v)
       PROVE RefreshesKnown'
  BY TimeOffAssumption, <1>14
     DEF hcmVars, rowVars, callVars, Goto, Log, Calls, TypeOK, RefreshesKnown, HcmChange,
         PutBalance
<1>15. ASSUME NEW f \in ForceValues, ForceChange(f) PROVE RefreshesKnown'
  BY TimeOffAssumption, <1>15
     DEF hcmVars, rowVars, callVars, Goto, Log, Calls, TypeOK, RefreshesKnown, ForceChange,
         SetForce
<1>16. ASSUME UNCHANGED vars PROVE RefreshesKnown'
  BY TimeOffAssumption, <1>16
     DEF hcmVars, rowVars, callVars, Goto, Log, Calls, TypeOK, RefreshesKnown, vars
<1> QED
  BY <1>1, <1>2, <1>3, <1>4, <1>5, <1>6, <1>7, <1>8, <1>9, <1>10, <1>11, <1>12, <1>13, <1>14,
     <1>15, <1>16
     DEF Next, CreateStep, RefreshStep, ApprovalMoves

\* An approval stays at the awaits of approve.
LEMMA ApprovalsStep ==
  TypeOK /\ CreationsKnown /\ ApprovalsKnown /\ [Next]_vars => ApprovalsKnown'
<1> SUFFICES ASSUME TypeOK, CreationsKnown, ApprovalsKnown, [Next]_vars PROVE ApprovalsKnown'
    OBVIOUS
<1>1. CASE ApprovalsUntouched
  BY <1>1, TimeOffAssumption
     DEF hcmVars, rowVars, callVars, Goto, Log, Calls, TypeOK, ApprovalsKnown,
         ApprovalsUntouched, Row
<1>2. CASE Crash
  BY <1>2, CrashStep, States
     DEF Crash, hcmVars, rowVars, callVars, Goto, Log, Calls, TypeOK, ApprovalsKnown
<1>3. ASSUME NEW a \in Approvals, NEW r \in Requests, ApproveLock(a, r) PROVE ApprovalsKnown'
  BY States, <1>3
     DEF hcmVars, rowVars, callVars, Goto, Log, Calls, TypeOK, ApprovalsKnown, ApproveLock
<1>4. ASSUME NEW a \in Approvals, NEW r \in Requests, ApproveAnswered(a, r)
      PROVE ApprovalsKnown'
  BY States, <1>4
     DEF hcmVars, rowVars, callVars, Goto, Log, Calls, TypeOK, ApprovalsKnown, ApproveAnswered
<1>5. ASSUME NEW a \in Approvals, CheckSufficient(a) PROVE ApprovalsKnown'
  BY States, <1>5
     DEF hcmVars, rowVars, callVars, Goto, Log, Calls, TypeOK, ApprovalsKnown, CheckSufficient
<1>6. ASSUME NEW a \in Approvals, CheckInsufficient(a) PROVE ApprovalsKnown'
  BY States, <1>6
     DEF hcmVars, rowVars, callVars, Goto, Log, Calls, TypeOK, ApprovalsKnown,
         CheckInsufficient, GiveUp
<1>7. ASSUME NEW a \in Approvals, CheckFails(a) PROVE ApprovalsKnown'
  BY States, <1>7
     DEF hcmVars, rowVars, callVars, Goto, Log, Calls, TypeOK, ApprovalsKnown, CheckFails,
         GiveUp
<1>8. ASSUME NEW a \in Approvals, ApplyFails(a) PROVE ApprovalsKnown'
  BY States, <1>8
     DEF hcmVars, rowVars, callVars, Goto, Log, Calls, TypeOK, ApprovalsKnown, ApplyFails,
         GiveUp
<1>9. ASSUME NEW a \in Approvals, ApplyAnswered(a) PROVE ApprovalsKnown'
  BY States, <1>9
     DEF hcmVars, rowVars, callVars, Goto, Log, Calls, TypeOK, ApprovalsKnown, ApplyAnswered,
         GiveUp
<1>10. ASSUME NEW a \in Approvals, Finalize(a) PROVE ApprovalsKnown'
  BY States, <1>10
     DEF hcmVars, rowVars, callVars, Goto, Log, Calls, TypeOK, ApprovalsKnown, Finalize
<1>11. ASSUME NEW a \in Approvals, Revert(a) PROVE ApprovalsKnown'
  BY States, <1>11
     DEF hcmVars, rowVars, callVars, Goto, Log, Calls, TypeOK, ApprovalsKnown, Revert
<1>12. ASSUME NEW a \in Approvals, HcmFiles(a) PROVE ApprovalsKnown'
  BY States, <1>12
     DEF hcmVars, rowVars, callVars, Goto, Log, Calls, TypeOK, ApprovalsKnown, HcmFiles,
         FileTimeOff, Consume
<1>13. ASSUME NEW a \in Approvals, HcmReplays(a) PROVE ApprovalsKnown'
  BY States, <1>13
     DEF hcmVars, rowVars, callVars, Goto, Log, Calls, TypeOK, ApprovalsKnown, HcmReplays,
         Consume
<1>14. ASSUME NEW a \in Approvals, HcmRefuses(a) PROVE ApprovalsKnown'
  BY States, <1>14
     DEF hcmVars, rowVars, callVars, Goto, Log, Calls, TypeOK, ApprovalsKnown, HcmRefuses,
         Consume
<1>15. ASSUME NEW a \in Approvals, HcmUnavailable(a) PROVE ApprovalsKnown'
  BY States, <1>15
     DEF hcmVars, rowVars, callVars, Goto, Log, Calls, TypeOK, ApprovalsKnown,
         HcmUnavailable, Consume
<1>16. ASSUME NEW a \in Approvals, ReleaseFails(a) PROVE ApprovalsKnown'
  BY States, <1>16
     DEF hcmVars, rowVars, callVars, Goto, Log, Calls, TypeOK, ApprovalsKnown, ReleaseFails, GiveUp
<1> QED
  BY OthersStep, <1>1, <1>2, <1>3, <1>4, <1>5, <1>6, <1>7, <1>8, <1>9, <1>10, <1>11, <1>12,
     <1>13, <1>14, <1>15, <1>16
     DEF ApprovalMoves, ApproveStep, HcmStep

\* Requests that approvals and apply messages are about do not disappear.
LEMMA MessagesStep ==
  TypeOK /\ CreationsKnown /\ ApprovalsKnown /\ MessagesKnown /\ ApprovalLock
    /\ [Next]_vars => MessagesKnown'
<1> SUFFICES ASSUME TypeOK, CreationsKnown, ApprovalsKnown, MessagesKnown, ApprovalLock,
                    [Next]_vars
             PROVE MessagesKnown'
    OBVIOUS
<1>1. CASE ApprovalsUntouched
  BY <1>1, TimeOffAssumption
     DEF hcmVars, rowVars, callVars, Goto, Log, Calls, TypeOK, MessagesKnown, Row, Applying,
         ApprovalsUntouched, Row
<1>2. CASE Crash
  BY <1>2, CrashStep, States
     DEF Crash, hcmVars, rowVars, callVars, Goto, Log, Calls, TypeOK, MessagesKnown, Row,
         Applying, Active
<1>3. ASSUME NEW a \in Approvals, NEW r \in Requests, ApproveLock(a, r) PROVE MessagesKnown'
  BY TimeOffAssumption, <1>3
     DEF hcmVars, rowVars, callVars, Goto, Log, Calls, TypeOK, MessagesKnown, Row, Applying,
         ApproveLock
<1>4. ASSUME NEW a \in Approvals, NEW r \in Requests, ApproveAnswered(a, r) PROVE MessagesKnown'
  BY TimeOffAssumption, <1>4
     DEF hcmVars, rowVars, callVars, Goto, Log, Calls, TypeOK, MessagesKnown, Row, Applying,
         ApproveAnswered
<1>5. ASSUME NEW a \in Approvals, CheckSufficient(a) PROVE MessagesKnown'
  BY TimeOffAssumption, <1>5
     DEF hcmVars, rowVars, callVars, Goto, Log, Calls, TypeOK, MessagesKnown, Row, Applying,
         CheckSufficient
<1>6. ASSUME NEW a \in Approvals, CheckInsufficient(a) PROVE MessagesKnown'
  BY TimeOffAssumption, <1>6
     DEF hcmVars, rowVars, callVars, Goto, Log, Calls, TypeOK, MessagesKnown, Row, Applying,
         CheckInsufficient, GiveUp
<1>7. ASSUME NEW a \in Approvals, CheckFails(a) PROVE MessagesKnown'
  BY TimeOffAssumption, <1>7
     DEF hcmVars, rowVars, callVars, Goto, Log, Calls, TypeOK, MessagesKnown, Row, Applying,
         CheckFails, GiveUp
<1>8. ASSUME NEW a \in Approvals, ApplyFails(a) PROVE MessagesKnown'
  BY TimeOffAssumption, <1>8
     DEF hcmVars, rowVars, callVars, Goto, Log, Calls, TypeOK, MessagesKnown, Row, Applying,
         ApplyFails, GiveUp
<1>9. ASSUME NEW a \in Approvals, ApplyAnswered(a) PROVE MessagesKnown'
  BY TimeOffAssumption, <1>9
     DEF hcmVars, rowVars, callVars, Goto, Log, Calls, TypeOK, MessagesKnown, Row, Applying,
         ApplyAnswered, GiveUp
<1>10. ASSUME NEW a \in Approvals, Finalize(a) PROVE MessagesKnown'
  BY TimeOffAssumption, <1>10
     DEF hcmVars, rowVars, callVars, Goto, Log, Calls, TypeOK, MessagesKnown, Row, Applying,
         Finalize
<1>11. ASSUME NEW a \in Approvals, Revert(a) PROVE MessagesKnown'
  BY TimeOffAssumption, <1>11
     DEF hcmVars, rowVars, callVars, Goto, Log, Calls, TypeOK, MessagesKnown, Row, Applying,
         Revert
<1>12. ASSUME NEW a \in Approvals, HcmFiles(a) PROVE MessagesKnown'
  BY TimeOffAssumption, <1>12
     DEF hcmVars, rowVars, callVars, Goto, Log, Calls, TypeOK, MessagesKnown, Row, Applying,
         HcmFiles, FileTimeOff, Consume
<1>13. ASSUME NEW a \in Approvals, HcmReplays(a) PROVE MessagesKnown'
  BY TimeOffAssumption, <1>13
     DEF hcmVars, rowVars, callVars, Goto, Log, Calls, TypeOK, MessagesKnown, Row, Applying,
         HcmReplays, Consume
<1>14. ASSUME NEW a \in Approvals, HcmRefuses(a) PROVE MessagesKnown'
  BY TimeOffAssumption, <1>14
     DEF hcmVars, rowVars, callVars, Goto, Log, Calls, TypeOK, MessagesKnown, Row, Applying,
         HcmRefuses, Consume
<1>15. ASSUME NEW a \in Approvals, HcmUnavailable(a) PROVE MessagesKnown'
  BY TimeOffAssumption, <1>15
     DEF hcmVars, rowVars, callVars, Goto, Log, Calls, TypeOK, MessagesKnown, Row, Applying,
         HcmUnavailable, Consume
<1>16. ASSUME NEW a \in Approvals, ReleaseFails(a) PROVE MessagesKnown'
  BY TimeOffAssumption, <1>16
     DEF hcmVars, rowVars, callVars, Goto, Log, Calls, TypeOK, MessagesKnown, Row, Applying,
         ReleaseFails, GiveUp
<1> QED
  BY OthersStep, <1>1, <1>2, <1>3, <1>4, <1>5, <1>6, <1>7, <1>8, <1>9, <1>10, <1>11, <1>12,
     <1>13, <1>14, <1>15, <1>16
     DEF ApprovalMoves, ApproveStep, HcmStep

\* An approval that gives a request back has an event to log.
LEMMA CausesStep ==
  TypeOK /\ CreationsKnown /\ CausesKnown /\ [Next]_vars => CausesKnown'
<1> SUFFICES ASSUME TypeOK, CreationsKnown, CausesKnown, [Next]_vars PROVE CausesKnown'
    OBVIOUS
<1>1. CASE ApprovalsUntouched
  BY <1>1, TimeOffAssumption
     DEF hcmVars, rowVars, callVars, Goto, Log, Calls, TypeOK, CausesKnown, Failures,
         ApprovalsUntouched, Row
<1>2. CASE Crash
  BY <1>2, CrashStep, States
     DEF Crash, hcmVars, rowVars, callVars, Goto, Log, Calls, TypeOK, CausesKnown, Failures,
         Active, Applying
<1>3. ASSUME NEW a \in Approvals, NEW r \in Requests, ApproveLock(a, r) PROVE CausesKnown'
  BY TimeOffAssumption, <1>3
     DEF hcmVars, rowVars, callVars, Goto, Log, Calls, TypeOK, CausesKnown, Failures,
         ApproveLock
<1>4. ASSUME NEW a \in Approvals, NEW r \in Requests, ApproveAnswered(a, r) PROVE CausesKnown'
  BY TimeOffAssumption, <1>4
     DEF hcmVars, rowVars, callVars, Goto, Log, Calls, TypeOK, CausesKnown, Failures,
         ApproveAnswered
<1>5. ASSUME NEW a \in Approvals, CheckSufficient(a) PROVE CausesKnown'
  BY TimeOffAssumption, <1>5
     DEF hcmVars, rowVars, callVars, Goto, Log, Calls, TypeOK, CausesKnown, Failures,
         CheckSufficient
<1>6. ASSUME NEW a \in Approvals, CheckInsufficient(a) PROVE CausesKnown'
  BY TimeOffAssumption, <1>6
     DEF hcmVars, rowVars, callVars, Goto, Log, Calls, TypeOK, CausesKnown, Failures,
         CheckInsufficient, GiveUp
<1>7. ASSUME NEW a \in Approvals, CheckFails(a) PROVE CausesKnown'
  BY TimeOffAssumption, <1>7
     DEF hcmVars, rowVars, callVars, Goto, Log, Calls, TypeOK, CausesKnown, Failures,
         CheckFails, GiveUp, ExchangeFailures
<1>8. ASSUME NEW a \in Approvals, ApplyFails(a) PROVE CausesKnown'
  BY TimeOffAssumption, <1>8
     DEF hcmVars, rowVars, callVars, Goto, Log, Calls, TypeOK, CausesKnown, Failures,
         ApplyFails, GiveUp, ExchangeFailures
<1>9. ASSUME NEW a \in Approvals, ApplyAnswered(a) PROVE CausesKnown'
  BY TimeOffAssumption, <1>9
     DEF hcmVars, rowVars, callVars, Goto, Log, Calls, TypeOK, CausesKnown, Failures,
         ApplyAnswered, GiveUp
<1>10. ASSUME NEW a \in Approvals, Finalize(a) PROVE CausesKnown'
  BY TimeOffAssumption, <1>10
     DEF hcmVars, rowVars, callVars, Goto, Log, Calls, TypeOK, CausesKnown, Failures, Finalize
<1>11. ASSUME NEW a \in Approvals, Revert(a) PROVE CausesKnown'
  BY TimeOffAssumption, <1>11
     DEF hcmVars, rowVars, callVars, Goto, Log, Calls, TypeOK, CausesKnown, Failures, Revert
<1>12. ASSUME NEW a \in Approvals, HcmFiles(a) PROVE CausesKnown'
  BY TimeOffAssumption, <1>12
     DEF hcmVars, rowVars, callVars, Goto, Log, Calls, TypeOK, CausesKnown, Failures,
         HcmFiles, FileTimeOff, Consume
<1>13. ASSUME NEW a \in Approvals, HcmReplays(a) PROVE CausesKnown'
  BY TimeOffAssumption, <1>13
     DEF hcmVars, rowVars, callVars, Goto, Log, Calls, TypeOK, CausesKnown, Failures,
         HcmReplays, Consume
<1>14. ASSUME NEW a \in Approvals, HcmRefuses(a) PROVE CausesKnown'
  BY TimeOffAssumption, <1>14
     DEF hcmVars, rowVars, callVars, Goto, Log, Calls, TypeOK, CausesKnown, Failures,
         HcmRefuses, Consume
<1>15. ASSUME NEW a \in Approvals, HcmUnavailable(a) PROVE CausesKnown'
  BY TimeOffAssumption, <1>15
     DEF hcmVars, rowVars, callVars, Goto, Log, Calls, TypeOK, CausesKnown, Failures,
         HcmUnavailable, Consume
<1>16. ASSUME NEW a \in Approvals, ReleaseFails(a) PROVE CausesKnown'
  <2>1. CASE cause[a] = "APPROVAL_FAILED_INSUFFICIENT_HCM_BALANCE"
    BY <1>16, <2>1 DEF TypeOK, CausesKnown, Failures, Goto, Calls, ReleaseFails, GiveUp
  <2>2. CASE cause[a] # "APPROVAL_FAILED_INSUFFICIENT_HCM_BALANCE"
    BY <1>16, <2>2 DEF TypeOK, CausesKnown, Failures, Goto, Calls, ReleaseFails
  <2> QED
    BY <2>1, <2>2
<1> QED
  BY OthersStep, <1>1, <1>2, <1>3, <1>4, <1>5, <1>6, <1>7, <1>8, <1>9, <1>10, <1>11, <1>12,
     <1>13, <1>14, <1>15, <1>16
     DEF ApprovalMoves, ApproveStep, HcmStep

\* An answer that an approval is about to use is what the HCM has filed.
LEMMA RepliesStep ==
  TypeOK /\ CreationsKnown /\ MessagesKnown /\ RepliesKnown /\ [Next]_vars => RepliesKnown'
<1> SUFFICES ASSUME TypeOK, CreationsKnown, MessagesKnown, RepliesKnown, [Next]_vars
             PROVE RepliesKnown'
    OBVIOUS
<1>1. CASE ApprovalsUntouched
  BY <1>1, TimeOffAssumption
     DEF hcmVars, rowVars, callVars, Goto, Log, Calls, TypeOK, RepliesKnown, Filed,
         ApprovalsUntouched, Row
<1>2. CASE Crash
  <2>1. \A a \in Approvals : reply'[a].kind = "none"
    BY <1>2 DEF Crash, NoAnswer
  <2>2. \A a \in Approvals : pc'[a] # "finalizing"
    BY <1>2, CrashStep DEF Active, Applying, Calls
  <2> QED
    BY <2>1, <2>2 DEF RepliesKnown
<1>3. ASSUME NEW a \in Approvals, NEW r \in Requests, ApproveLock(a, r) PROVE RepliesKnown'
  BY TimeOffAssumption, <1>3
     DEF hcmVars, rowVars, callVars, Goto, Log, Calls, TypeOK, RepliesKnown, Filed, ApproveLock
<1>4. ASSUME NEW a \in Approvals, NEW r \in Requests, ApproveAnswered(a, r) PROVE RepliesKnown'
  BY TimeOffAssumption, <1>4
     DEF hcmVars, rowVars, callVars, Goto, Log, Calls, TypeOK, RepliesKnown, Filed,
         ApproveAnswered
<1>5. ASSUME NEW a \in Approvals, CheckSufficient(a) PROVE RepliesKnown'
  BY TimeOffAssumption, <1>5
     DEF hcmVars, rowVars, callVars, Goto, Log, Calls, TypeOK, RepliesKnown, Filed,
         CheckSufficient
<1>6. ASSUME NEW a \in Approvals, CheckInsufficient(a) PROVE RepliesKnown'
  BY TimeOffAssumption, <1>6
     DEF hcmVars, rowVars, callVars, Goto, Log, Calls, TypeOK, RepliesKnown, Filed,
         CheckInsufficient, GiveUp
<1>7. ASSUME NEW a \in Approvals, CheckFails(a) PROVE RepliesKnown'
  BY TimeOffAssumption, <1>7
     DEF hcmVars, rowVars, callVars, Goto, Log, Calls, TypeOK, RepliesKnown, Filed,
         CheckFails, GiveUp
<1>8. ASSUME NEW a \in Approvals, ApplyFails(a) PROVE RepliesKnown'
  BY TimeOffAssumption, <1>8
     DEF hcmVars, rowVars, callVars, Goto, Log, Calls, TypeOK, RepliesKnown, Filed,
         ApplyFails, GiveUp, NoAnswer
<1>9. ASSUME NEW a \in Approvals, ApplyAnswered(a) PROVE RepliesKnown'
  <2>1. CASE reply[a].kind = "filed" /\ Parses(reply[a].balance)
    <3>1. Goto(a, "finalizing") /\ UNCHANGED <<cause, reply>>
      BY <1>9, <2>1, Zenon DEF ApplyAnswered
    <3>2. reply[a].balance \in Nat
      BY <2>1 DEF TypeOK, Replies, Parses
    <3> QED
      BY <1>9, <2>1, <3>1, <3>2
         DEF ApplyAnswered, TypeOK, RepliesKnown, Goto, Calls, Filed, hcmVars
  <2>2. CASE ~(reply[a].kind = "filed" /\ Parses(reply[a].balance))
    <3>1. Goto(a, "reverting") /\ reply' = [reply EXCEPT ![a] = NoAnswer]
      BY <1>9, <2>2, Zenon DEF ApplyAnswered, GiveUp
    <3> QED
      BY <1>9, <3>1
         DEF ApplyAnswered, TypeOK, RepliesKnown, Goto, Calls, Filed, hcmVars, NoAnswer
  <2> QED
    BY <2>1, <2>2
<1>10. ASSUME NEW a \in Approvals, Finalize(a) PROVE RepliesKnown'
  BY TimeOffAssumption, <1>10
     DEF hcmVars, rowVars, callVars, Goto, Log, Calls, TypeOK, RepliesKnown, Filed, Finalize,
         NoAnswer
<1>11. ASSUME NEW a \in Approvals, Revert(a) PROVE RepliesKnown'
  BY TimeOffAssumption, <1>11
     DEF hcmVars, rowVars, callVars, Goto, Log, Calls, TypeOK, RepliesKnown, Filed, Revert
<1>12. ASSUME NEW a \in Approvals, HcmFiles(a) PROVE RepliesKnown'
  <2>1. target[a] \in Requests /\ ~Filed(target[a])
    BY <1>12 DEF HcmFiles, FileTimeOff, TypeOK, MessagesKnown
  <2>2. PICK n \in Int :
          /\ filings' = [filings EXCEPT ![target[a]] = [txn |-> a, balance |-> n]]
          /\ reply' = IF pc[a] = "applying"
                       THEN [reply EXCEPT ![a] = [kind |-> "filed", txn |-> a, balance |-> n]]
                       ELSE reply
    <3>1. hcmBalance[PairFor(a)] - DaysFor(a) \in Int
      BY <1>12, FilingTyped DEF HcmFiles
    <3> QED
      BY <1>12, <3>1 DEF HcmFiles, FileTimeOff, Consume
  <2>3. Filed(target[a])' /\ filings'[target[a]].txn = a
    BY <1>12, <2>1, <2>2, HcmAssumption DEF HcmFiles, Consume, Filed, TypeOK, HcmTypeOK
  <2>4. ASSUME NEW b \in Approvals, reply'[b].kind = "filed", b # a
        PROVE  /\ pc'[b] \in {"applying", "finalizing"}
               /\ Filed(target[b])' /\ reply'[b].txn = filings'[target'[b]].txn
    <3>1. reply'[b] = reply[b]
      BY <2>2, <2>4 DEF TypeOK
    <3>2. target[b] # target[a] /\ target[b] \in Requests
      BY <2>1, <2>4, <3>1 DEF RepliesKnown, TypeOK
    <3> QED
      BY <1>12, <2>2, <2>4, <3>1, <3>2
         DEF HcmFiles, Consume, RepliesKnown, Filed, TypeOK, HcmTypeOK
  <2>5. reply'[a].kind = "filed" => pc[a] = "applying" /\ reply'[a].txn = a
    BY <2>1, <2>2 DEF RepliesKnown, TypeOK
  <2> QED
    BY <1>12, <2>2, <2>3, <2>4, <2>5 DEF HcmFiles, Consume, RepliesKnown, TypeOK
<1>13. ASSUME NEW a \in Approvals, HcmReplays(a) PROVE RepliesKnown'
  BY TimeOffAssumption, <1>13
     DEF hcmVars, rowVars, callVars, Goto, Log, Calls, TypeOK, RepliesKnown, Filed,
         HcmReplays, Consume
<1>14. ASSUME NEW a \in Approvals, HcmRefuses(a) PROVE RepliesKnown'
  BY TimeOffAssumption, <1>14
     DEF hcmVars, rowVars, callVars, Goto, Log, Calls, TypeOK, RepliesKnown, Filed,
         HcmRefuses, Consume, NoAnswer
<1>15. ASSUME NEW a \in Approvals, HcmUnavailable(a) PROVE RepliesKnown'
  BY TimeOffAssumption, <1>15
     DEF hcmVars, rowVars, callVars, Goto, Log, Calls, TypeOK, RepliesKnown, Filed,
         HcmUnavailable, Consume, NoAnswer
<1>16. ASSUME NEW a \in Approvals, ReleaseFails(a) PROVE RepliesKnown'
  BY TimeOffAssumption, <1>16
     DEF hcmVars, rowVars, callVars, Goto, Log, Calls, TypeOK, RepliesKnown, Filed,
         ReleaseFails, GiveUp, NoAnswer
<1> QED
  BY OthersStep, <1>1, <1>2, <1>3, <1>4, <1>5, <1>6, <1>7, <1>8, <1>9, <1>10, <1>11, <1>12,
     <1>13, <1>14, <1>15, <1>16
     DEF ApprovalMoves, ApproveStep, HcmStep

(***************************************************************************)
(* The lock, and what an approval leaves behind.                           *)
(***************************************************************************)
\* Every step keeps the lock of approve.
LEMMA LockStep ==
  TypeOK /\ CreationsKnown /\ ApprovalsKnown /\ ApprovalLock /\ [Next]_vars => ApprovalLock'
<1> SUFFICES ASSUME TypeOK, CreationsKnown, ApprovalsKnown, ApprovalLock, [Next]_vars
             PROVE ApprovalLock'
    OBVIOUS
<1>1. CASE ApprovalsUntouched
  <2>1. ASSUME NEW a \in Approvals, pc'[a] \in Applying \cup {"dead"} PROVE HoldsLock(a)'
    <3>1. target[a] \in Requests /\ status[target[a]] = "APPROVING" /\ attempt[target[a]] = a
      BY <1>1, <2>1 DEF ApprovalsUntouched, ApprovalLock, HoldsLock, TypeOK, Applying
    <3>2. status'[target[a]] = status[target[a]]
      BY <1>1, <3>1 DEF ApprovalsUntouched
    <3> QED
      BY <1>1, <3>1, <3>2 DEF ApprovalsUntouched, HoldsLock
  <2>2. ASSUME NEW r \in Requests, status'[r] = "APPROVING"
        PROVE  /\ attempt'[r] \in Approvals /\ target'[attempt'[r]] = r
               /\ pc'[attempt'[r]] \in Applying \cup {"dead"}
    <3>1. status[r] = "APPROVING"
      BY <1>1, <2>2 DEF ApprovalsUntouched
    <3> QED
      BY <1>1, <3>1 DEF ApprovalsUntouched, ApprovalLock
  <2> QED
    BY <2>1, <2>2 DEF ApprovalLock
<1>2. CASE Crash
  BY <1>2, CrashStep, States
     DEF Crash, hcmVars, rowVars, callVars, Goto, Log, Calls, TypeOK, ApprovalLock,
         HoldsLock, Applying, Active, ApprovalsKnown
<1>3. ASSUME NEW a \in Approvals, NEW r \in Requests, ApproveLock(a, r) PROVE ApprovalLock'
  BY TimeOffAssumption, <1>3
     DEF hcmVars, rowVars, callVars, Goto, Log, Calls, TypeOK, ApprovalLock, HoldsLock,
         Applying, ApproveLock
<1>4. ASSUME NEW a \in Approvals, NEW r \in Requests, ApproveAnswered(a, r) PROVE ApprovalLock'
  BY TimeOffAssumption, <1>4
     DEF hcmVars, rowVars, callVars, Goto, Log, Calls, TypeOK, ApprovalLock, HoldsLock,
         Applying, ApproveAnswered
<1>5. ASSUME NEW a \in Approvals, CheckSufficient(a) PROVE ApprovalLock'
  BY TimeOffAssumption, <1>5
     DEF hcmVars, rowVars, callVars, Goto, Log, Calls, TypeOK, ApprovalLock, HoldsLock,
         Applying, CheckSufficient
<1>6. ASSUME NEW a \in Approvals, CheckInsufficient(a) PROVE ApprovalLock'
  BY TimeOffAssumption, <1>6
     DEF hcmVars, rowVars, callVars, Goto, Log, Calls, TypeOK, ApprovalLock, HoldsLock,
         Applying, CheckInsufficient, GiveUp
<1>7. ASSUME NEW a \in Approvals, CheckFails(a) PROVE ApprovalLock'
  BY TimeOffAssumption, <1>7
     DEF hcmVars, rowVars, callVars, Goto, Log, Calls, TypeOK, ApprovalLock, HoldsLock,
         Applying, CheckFails, GiveUp
<1>8. ASSUME NEW a \in Approvals, ApplyFails(a) PROVE ApprovalLock'
  BY TimeOffAssumption, <1>8
     DEF hcmVars, rowVars, callVars, Goto, Log, Calls, TypeOK, ApprovalLock, HoldsLock,
         Applying, ApplyFails, GiveUp
<1>9. ASSUME NEW a \in Approvals, ApplyAnswered(a) PROVE ApprovalLock'
  <2>1. PICK l \in {"finalizing", "reverting"} : Goto(a, l)
    BY <1>9, Zenon DEF ApplyAnswered, GiveUp
  <2> QED
    BY <1>9, <2>1
       DEF ApplyAnswered, Goto, Calls, TypeOK, rowVars, ApprovalLock, HoldsLock, Applying
<1>10. ASSUME NEW a \in Approvals, Finalize(a) PROVE ApprovalLock'
  <2>1. HoldsLock(a) /\ target[a] \in Requests
    BY <1>10 DEF Finalize, ApprovalLock, Applying, TypeOK
  <2>2. Goto(a, "approved") /\ status' = [status EXCEPT ![target[a]] = "APPROVED"]
    BY <1>10, <2>1, Zenon DEF Finalize
  <2> QED
    BY <1>10, <2>1, <2>2 DEF Finalize, Goto, Calls, TypeOK, ApprovalLock, HoldsLock, Applying
<1>11. ASSUME NEW a \in Approvals, Revert(a) PROVE ApprovalLock'
  BY TimeOffAssumption, <1>11
     DEF hcmVars, rowVars, callVars, Goto, Log, Calls, TypeOK, ApprovalLock, HoldsLock,
         Applying, Revert
<1>12. ASSUME NEW a \in Approvals, HcmFiles(a) PROVE ApprovalLock'
  BY TimeOffAssumption, <1>12
     DEF hcmVars, rowVars, callVars, Goto, Log, Calls, TypeOK, ApprovalLock, HoldsLock,
         Applying, HcmFiles, FileTimeOff, Consume
<1>13. ASSUME NEW a \in Approvals, HcmReplays(a) PROVE ApprovalLock'
  BY TimeOffAssumption, <1>13
     DEF hcmVars, rowVars, callVars, Goto, Log, Calls, TypeOK, ApprovalLock, HoldsLock,
         Applying, HcmReplays, Consume
<1>14. ASSUME NEW a \in Approvals, HcmRefuses(a) PROVE ApprovalLock'
  BY TimeOffAssumption, <1>14
     DEF hcmVars, rowVars, callVars, Goto, Log, Calls, TypeOK, ApprovalLock, HoldsLock,
         Applying, HcmRefuses, Consume
<1>15. ASSUME NEW a \in Approvals, HcmUnavailable(a) PROVE ApprovalLock'
  BY TimeOffAssumption, <1>15
     DEF hcmVars, rowVars, callVars, Goto, Log, Calls, TypeOK, ApprovalLock, HoldsLock,
         Applying, HcmUnavailable, Consume
<1>16. ASSUME NEW a \in Approvals, ReleaseFails(a) PROVE ApprovalLock'
  <2>1. PICK l \in {"dead", "reverting"} : Goto(a, l)
    BY <1>16, ReleaseStep
  <2>2. /\ \A b \in Approvals : b # a => pc'[b] = pc[b]
        /\ pc[a] \in Applying /\ pc'[a] \in Applying \cup {"dead"}
    BY <1>16, <2>1 DEF Goto, Calls, TypeOK, Applying, ReleaseFails
  <2>3. UNCHANGED <<status, attempt, target>>
    BY <1>16 DEF ReleaseFails, rowVars
  <2> QED
    BY <2>2, <2>3 DEF ApprovalLock, HoldsLock
<1> QED
  BY OthersStep, <1>1, <1>2, <1>3, <1>4, <1>5, <1>6, <1>7, <1>8, <1>9, <1>10, <1>11, <1>12,
     <1>13, <1>14, <1>15, <1>16
     DEF ApprovalMoves, ApproveStep, HcmStep

\* Every step keeps approved requests filed, under their transaction id.
LEMMA ApprovedStep ==
  TypeOK /\ CreationsKnown /\ RepliesKnown /\ ApprovedIsFiled /\ [Next]_vars => ApprovedIsFiled'
<1> SUFFICES ASSUME TypeOK, CreationsKnown, RepliesKnown, ApprovedIsFiled, [Next]_vars
             PROVE ApprovedIsFiled'
    OBVIOUS
<1>1. CASE ApprovalsUntouched
  BY <1>1, TimeOffAssumption
     DEF hcmVars, rowVars, callVars, Goto, Log, Calls, TypeOK, ApprovedIsFiled, Filed,
         ApprovalsUntouched, Row
<1>2. CASE Crash
  BY <1>2, CrashStep, States
     DEF Crash, hcmVars, rowVars, callVars, Goto, Log, Calls, TypeOK, ApprovedIsFiled, Filed
<1>3. ASSUME NEW a \in Approvals, NEW r \in Requests, ApproveLock(a, r) PROVE ApprovedIsFiled'
  BY TimeOffAssumption, <1>3
     DEF hcmVars, rowVars, callVars, Goto, Log, Calls, TypeOK, ApprovedIsFiled, Filed,
         ApproveLock
<1>4. ASSUME NEW a \in Approvals, NEW r \in Requests, ApproveAnswered(a, r)
      PROVE ApprovedIsFiled'
  BY TimeOffAssumption, <1>4
     DEF hcmVars, rowVars, callVars, Goto, Log, Calls, TypeOK, ApprovedIsFiled, Filed,
         ApproveAnswered
<1>5. ASSUME NEW a \in Approvals, CheckSufficient(a) PROVE ApprovedIsFiled'
  BY TimeOffAssumption, <1>5
     DEF hcmVars, rowVars, callVars, Goto, Log, Calls, TypeOK, ApprovedIsFiled, Filed,
         CheckSufficient
<1>6. ASSUME NEW a \in Approvals, CheckInsufficient(a) PROVE ApprovedIsFiled'
  BY TimeOffAssumption, <1>6
     DEF hcmVars, rowVars, callVars, Goto, Log, Calls, TypeOK, ApprovedIsFiled, Filed,
         CheckInsufficient, GiveUp
<1>7. ASSUME NEW a \in Approvals, CheckFails(a) PROVE ApprovedIsFiled'
  BY TimeOffAssumption, <1>7
     DEF hcmVars, rowVars, callVars, Goto, Log, Calls, TypeOK, ApprovedIsFiled, Filed,
         CheckFails, GiveUp
<1>8. ASSUME NEW a \in Approvals, ApplyFails(a) PROVE ApprovedIsFiled'
  BY TimeOffAssumption, <1>8
     DEF hcmVars, rowVars, callVars, Goto, Log, Calls, TypeOK, ApprovedIsFiled, Filed,
         ApplyFails, GiveUp
<1>9. ASSUME NEW a \in Approvals, ApplyAnswered(a) PROVE ApprovedIsFiled'
  BY TimeOffAssumption, <1>9
     DEF hcmVars, rowVars, callVars, Goto, Log, Calls, TypeOK, ApprovedIsFiled, Filed,
         ApplyAnswered, GiveUp
<1>10. ASSUME NEW a \in Approvals, Finalize(a) PROVE ApprovedIsFiled'
  BY TimeOffAssumption, <1>10
     DEF hcmVars, rowVars, callVars, Goto, Log, Calls, TypeOK, ApprovedIsFiled, Filed,
         Finalize, RepliesKnown
<1>11. ASSUME NEW a \in Approvals, Revert(a) PROVE ApprovedIsFiled'
  BY TimeOffAssumption, <1>11
     DEF hcmVars, rowVars, callVars, Goto, Log, Calls, TypeOK, ApprovedIsFiled, Filed, Revert
<1>12. ASSUME NEW a \in Approvals, HcmFiles(a) PROVE ApprovedIsFiled'
  BY TimeOffAssumption, <1>12
     DEF hcmVars, rowVars, callVars, Goto, Log, Calls, TypeOK, ApprovedIsFiled, Filed,
         HcmFiles, FileTimeOff, Consume, HcmTypeOK, Filings
<1>13. ASSUME NEW a \in Approvals, HcmReplays(a) PROVE ApprovedIsFiled'
  BY TimeOffAssumption, <1>13
     DEF hcmVars, rowVars, callVars, Goto, Log, Calls, TypeOK, ApprovedIsFiled, Filed,
         HcmReplays, Consume
<1>14. ASSUME NEW a \in Approvals, HcmRefuses(a) PROVE ApprovedIsFiled'
  BY TimeOffAssumption, <1>14
     DEF hcmVars, rowVars, callVars, Goto, Log, Calls, TypeOK, ApprovedIsFiled, Filed,
         HcmRefuses, Consume
<1>15. ASSUME NEW a \in Approvals, HcmUnavailable(a) PROVE ApprovedIsFiled'
  BY TimeOffAssumption, <1>15
     DEF hcmVars, rowVars, callVars, Goto, Log, Calls, TypeOK, ApprovedIsFiled, Filed,
         HcmUnavailable, Consume
<1>16. ASSUME NEW a \in Approvals, ReleaseFails(a) PROVE ApprovedIsFiled'
  BY TimeOffAssumption, <1>16
     DEF hcmVars, rowVars, callVars, Goto, Log, Calls, TypeOK, ApprovedIsFiled, Filed,
         ReleaseFails, GiveUp
<1> QED
  BY OthersStep, <1>1, <1>2, <1>3, <1>4, <1>5, <1>6, <1>7, <1>8, <1>9, <1>10, <1>11, <1>12,
     <1>13, <1>14, <1>15, <1>16
     DEF ApprovalMoves, ApproveStep, HcmStep

(***************************************************************************)
(* The theorems.                                                           *)
(***************************************************************************)
\* The invariant is inductive: every step keeps it.
LEMMA StepIInv == IInv /\ [Next]_vars => IInv'
BY TypeStep, CreationsStep, RefreshesStep, ApprovalsStep, MessagesStep, CausesStep,
   RepliesStep, LockStep, ApprovedStep
   DEF IInv, CallsKnown

\* The inductive invariant holds in every reachable state.
LEMMA InvariantIInv == Spec => []IInv
BY InitIInv, StepIInv, PTL DEF Spec

\* The type invariant of TimeOff, for any sets of pairs, requests and calls: in
\* particular a cached balance is never negative, whatever the HCM answers.
THEOREM TypeCorrect == Spec => []TypeOK
<1>1. IInv => TypeOK
  BY DEF IInv
<1> QED
  BY <1>1, InvariantIInv, PTL

\* The lock of markApproving excludes every other approval of the request until
\* the call that took it lets it go, through crashes and failed transactions.
THEOREM LockExcludes == Spec => []ApprovalLock
<1>1. IInv => ApprovalLock
  BY DEF IInv
<1> QED
  BY <1>1, InvariantIInv, PTL

\* No request is APPROVED without being filed with the HCM under the transaction
\* id in its row, however late or often the apply messages of its attempts came.
THEOREM ApprovedRequestsAreFiled == Spec => []ApprovedIsFiled
<1>1. IInv => ApprovedIsFiled
  BY DEF IInv
<1> QED
  BY <1>1, InvariantIInv, PTL
============================================================================
