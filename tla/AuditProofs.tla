---------------------------- MODULE AuditProofs ----------------------------
(***************************************************************************)
(* Proofs about what TimeOff leaves in its rows, in its audit log and with *)
(* the HCM, on top of the inductive invariant of TimeOffProofs.            *)
(***************************************************************************)
EXTENDS TimeOffProofs

(***************************************************************************)
(* The status of a request changes together with its log, one event at a   *)
(* time, and every event has the status it is legal in.                    *)
(***************************************************************************)
EventStep(r, e) ==
  /\ status[r] = StatusBefore(e)
  /\ status' = [status EXCEPT ![r] = StatusAfter(e)]
  /\ Log(r, e)
  /\ e = "REQUEST_APPROVED" => Filed(r)
  /\ status[r] = "NONE" => ~\E s \in Requests : Row(s) /\ SameKey(dto[s], dto[r])
  /\ UNCHANGED <<dto, filings>>

\* A step that moves no request.
Quiet == UNCHANGED <<status, events>>

\* What each event says about the status before and after it.
LEMMA EventTable ==
  /\ StatusBefore("REQUEST_CREATED") = "NONE" /\ StatusAfter("REQUEST_CREATED") = "PENDING"
  /\ StatusBefore("REQUEST_APPROVING") = "PENDING"
  /\ StatusAfter("REQUEST_APPROVING") = "APPROVING"
  /\ StatusBefore("REQUEST_APPROVED") = "APPROVING"
  /\ StatusAfter("REQUEST_APPROVED") = "APPROVED"
  /\ StatusBefore("REQUEST_REJECTED") = "PENDING"
  /\ StatusAfter("REQUEST_REJECTED") = "REJECTED"
  /\ StatusBefore("REQUEST_CANCELLED") = "PENDING"
  /\ StatusAfter("REQUEST_CANCELLED") = "CANCELLED"
  /\ \A why \in Failures : StatusBefore(why) = "APPROVING" /\ StatusAfter(why) = "PENDING"
BY DEF StatusBefore, StatusAfter, Failures

\* Every step either logs one event, legal where the request stands, and moves
\* its status accordingly, or touches neither log nor status.
LEMMA StatusFollowsEvents ==
  TypeOK /\ CallsKnown /\ [Next]_vars =>
    Quiet \/ \E r \in Requests, e \in EventTypes : EventStep(r, e)
<1> DEFINE Moves == Quiet \/ \E r \in Requests, e \in EventTypes : EventStep(r, e)
<1> SUFFICES ASSUME TypeOK, CallsKnown, [Next]_vars PROVE Moves
    OBVIOUS
<1>1. ASSUME NEW r \in Requests, CreateSave(r) PROVE Moves
  <2>1. status[r] = "NONE"
    BY <1>1 DEF CreateSave, CallsKnown, CreationsKnown, Row
  <2>2. CASE \E s \in Requests : Row(s) /\ SameKey(dto[s], dto[r])
    BY <1>1, <2>2 DEF CreateSave, Quiet
  <2>3. CASE ~\E s \in Requests : Row(s) /\ SameKey(dto[s], dto[r])
    <3>1. /\ status' = [status EXCEPT ![r] = "PENDING"] /\ Log(r, "REQUEST_CREATED")
          /\ UNCHANGED <<dto, filings>>
      BY <1>1, <2>3 DEF CreateSave, hcmVars
    <3> QED
      BY <2>1, <2>3, <3>1, EventTable DEF EventStep, EventTypes
  <2> QED
    BY <2>2, <2>3
<1>2. ASSUME NEW a \in Approvals, NEW r \in Requests, ApproveLock(a, r) PROVE Moves
  BY <1>2, EventTable DEF ApproveLock, EventStep, EventTypes, hcmVars
<1>3. ASSUME NEW a \in Approvals, Finalize(a) PROVE Moves
  <2>1. target[a] \in Requests /\ Filed(target[a])
    BY <1>3 DEF Finalize, TypeOK, CallsKnown, RepliesKnown
  <2>2. CASE HoldsLock(a)
    BY <1>3, <2>1, <2>2, EventTable DEF Finalize, HoldsLock, EventStep, EventTypes, hcmVars
  <2>3. CASE ~HoldsLock(a)
    BY <1>3, <2>3 DEF Finalize, Quiet
  <2> QED
    BY <2>2, <2>3
<1>4. ASSUME NEW a \in Approvals, Revert(a) PROVE Moves
  <2>1. target[a] \in Requests /\ cause[a] \in Failures
    BY <1>4 DEF Revert, TypeOK, CallsKnown, CausesKnown
  <2>2. CASE HoldsLock(a)
    <3>1. EventStep(target[a], cause[a])
      <4>1. cause[a] # "REQUEST_APPROVED"
        BY <2>1 DEF Failures
      <4> QED
        BY <1>4, <2>1, <2>2, <4>1, EventTable DEF Revert, HoldsLock, EventStep, hcmVars
    <3> QED
      BY <2>1, <3>1 DEF EventTypes
  <2>3. CASE ~HoldsLock(a)
    BY <1>4, <2>3 DEF Revert, Quiet
  <2> QED
    BY <2>2, <2>3
<1>5. ASSUME NEW r \in Requests, Reject(r) PROVE Moves
  BY <1>5, EventTable DEF Reject, Close, EventStep, EventTypes, hcmVars
<1>6. ASSUME NEW r \in Requests, Cancel(r) PROVE Moves
  BY <1>6, EventTable DEF Cancel, Close, EventStep, EventTypes, hcmVars
<1>7. ASSUME NEW r \in Requests, CreateReadBalance(r) \/ CreateSumReserved(r) PROVE Quiet
  BY <1>7 DEF CreateReadBalance, CreateSumReserved, Quiet, rowVars
<1>8. ASSUME NEW r \in Requests, NEW d \in Dtos, CreateStart(r, d) PROVE Quiet
  BY <1>8 DEF CreateStart, Quiet
<1>9. ASSUME NEW f \in Refreshes, NEW p \in Pairs, RefreshStart(f, p) PROVE Quiet
  BY <1>9 DEF RefreshStart, Quiet, rowVars
<1>10. ASSUME NEW c \in Requests \cup Refreshes, RefreshStep(c) PROVE Quiet
  BY <1>10
     DEF RefreshStep, FetchBalance, FetchFails, FindCached, SaveCached, Quiet, rowVars
<1>11. ASSUME NEW a \in Approvals, NEW r \in Requests, ApproveAnswered(a, r) PROVE Quiet
  BY <1>11 DEF ApproveAnswered, Quiet, rowVars
<1>12. ASSUME NEW a \in Approvals,
              \/ CheckSufficient(a) \/ CheckInsufficient(a) \/ CheckFails(a)
              \/ ApplyFails(a) \/ ApplyAnswered(a) \/ ReleaseFails(a)
       PROVE Quiet
  BY <1>12
     DEF CheckSufficient, CheckInsufficient, CheckFails, ApplyFails, ApplyAnswered,
         ReleaseFails, Quiet, rowVars
<1>13. ASSUME NEW a \in Approvals, HcmStep(a) PROVE Quiet
  BY <1>13
     DEF HcmStep, HcmFiles, HcmReplays, HcmRefuses, HcmUnavailable, Consume, Quiet, rowVars
<1>14. ASSUME NEW p \in Pairs, NEW n \in PutBalances, NEW v \in BOOLEAN, HcmChange(p, n, v)
       PROVE Quiet
  BY <1>14 DEF HcmChange, Quiet, rowVars
<1>15. ASSUME NEW f \in ForceValues, ForceChange(f) PROVE Quiet
  BY <1>15 DEF ForceChange, Quiet, rowVars
<1>16. ASSUME Crash \/ UNCHANGED vars PROVE Quiet
  BY <1>16 DEF Crash, Quiet, rowVars, vars
<1> QED
  BY <1>1, <1>2, <1>3, <1>4, <1>5, <1>6, <1>7, <1>8, <1>9, <1>10, <1>11, <1>12, <1>13,
     <1>14, <1>15, <1>16
     DEF Next, CreateStep, ApproveStep

(***************************************************************************)
(* Replaying the log.                                                      *)
(***************************************************************************)
\* What an appended event does to a log.
LEMMA LogAppended ==
  ASSUME TypeOK, NEW r \in Requests, NEW e \in EventTypes, Log(r, e)
  PROVE  /\ \A s \in Requests : s # r => events'[s] = events[s]
         /\ Len(events[r]) \in Nat /\ DOMAIN events[r] = 1..Len(events[r])
         /\ DOMAIN events'[r] = 1..(Len(events[r]) + 1)
         /\ Len(events'[r]) = Len(events[r]) + 1
         /\ \A i \in 1..Len(events[r]) : events'[r][i] = events[r][i]
         /\ events'[r][Len(events[r]) + 1] = e
<1>1. events[r] \in Seq(EventTypes) /\ events'[r] = Append(events[r], e)
  BY DEF TypeOK, Log
<1>2. \A s \in Requests : s # r => events'[s] = events[s]
  BY DEF TypeOK, Log
<1> QED
  BY <1>1, <1>2

\* Every step keeps the log legal, and the status where the log leads.
LEMMA AuditStep == TypeOK /\ CallsKnown /\ AuditReplays /\ [Next]_vars => AuditReplays'
<1> SUFFICES ASSUME TypeOK, CallsKnown, AuditReplays, [Next]_vars PROVE AuditReplays'
    OBVIOUS
<1>1. CASE Quiet
  BY <1>1 DEF Quiet, AuditReplays
<1>2. ASSUME NEW r \in Requests, NEW e \in EventTypes, EventStep(r, e) PROVE AuditReplays'
  <2> DEFINE n == Len(events[r])
  <2>1. Log(r, e)
    BY <1>2 DEF EventStep
  <2>2. ASSUME NEW s \in Requests, s # r
        PROVE  events'[s] = events[s] /\ status'[s] = status[s]
    BY <1>2, <2>1, <2>2, LogAppended DEF EventStep, TypeOK
  <2>3. /\ n \in Nat /\ DOMAIN events[r] = 1..n /\ DOMAIN events'[r] = 1..(n + 1)
        /\ Len(events'[r]) = n + 1 /\ events'[r][n + 1] = e
        /\ \A i \in 1..n : events'[r][i] = events[r][i]
    BY <2>1, LogAppended
  <2>4. /\ status[r] = IF n = 0 THEN "NONE" ELSE StatusAfter(events[r][n])
        /\ \A i \in 1..n : StatusBefore(events[r][i]) =
             IF i - 1 = 0 THEN "NONE" ELSE StatusAfter(events[r][i - 1])
    BY <2>3 DEF AuditReplays
  <2>5. status'[r] = StatusAfter(e) /\ StatusBefore(e) = status[r]
    BY <1>2 DEF EventStep, TypeOK
  <2>6. \A i \in 1..(n + 1) : StatusBefore(events'[r][i]) =
          IF i - 1 = 0 THEN "NONE" ELSE StatusAfter(events'[r][i - 1])
    <3> SUFFICES ASSUME NEW i \in 1..(n + 1)
                 PROVE  StatusBefore(events'[r][i]) =
                          IF i - 1 = 0 THEN "NONE" ELSE StatusAfter(events'[r][i - 1])
        OBVIOUS
    <3>1. CASE i = n + 1
      BY <2>3, <2>4, <2>5, <3>1
    <3>2. CASE i \in 1..n
      <4>1. events'[r][i] = events[r][i]
        BY <2>3, <3>2
      <4>2. i - 1 # 0 => events'[r][i - 1] = events[r][i - 1]
        <5>1. i - 1 # 0 => i - 1 \in 1..n
          BY <2>3, <3>2
        <5> QED
          BY <2>3, <5>1
      <4>3. StatusBefore(events[r][i]) =
              IF i - 1 = 0 THEN "NONE" ELSE StatusAfter(events[r][i - 1])
        BY <2>4, <3>2
      <4> QED
        BY <4>1, <4>2, <4>3
    <3> QED
      BY <2>3, <3>1, <3>2
  <2>7. status'[r] = IF n + 1 = 0 THEN "NONE" ELSE StatusAfter(events'[r][n + 1])
    BY <2>3, <2>5
  <2> DEFINE Replays(s) ==
        /\ \A i \in DOMAIN events[s] : StatusBefore(events[s][i]) =
             IF i - 1 = 0 THEN "NONE" ELSE StatusAfter(events[s][i - 1])
        /\ status[s] =
             IF Len(events[s]) = 0 THEN "NONE" ELSE StatusAfter(events[s][Len(events[s])])
  <2>8. ASSUME NEW s \in Requests, s # r PROVE Replays(s)'
    BY <2>2, <2>8 DEF AuditReplays
  <2>9. Replays(r)'
    <3> HIDE DEF n
    <3> QED
      BY <2>3, <2>6, <2>7
  <2> QED
    BY <2>8, <2>9 DEF AuditReplays
<1> QED
  BY <1>1, <1>2, StatusFollowsEvents

\* The audit log of every request, replayed, is legal event by event and ends in
\* the status column, for any number of requests, attempts and faults.
THEOREM AuditLogReplays == Spec => []AuditReplays
<1>1. Init => AuditReplays
  BY DEF Init, AuditReplays
<1>2. IInv /\ AuditReplays /\ [Next]_vars => AuditReplays'
  BY AuditStep DEF IInv
<1> QED
  BY <1>1, <1>2, InvariantIInv, PTL DEF Spec

(***************************************************************************)
(* Rows and keys.                                                          *)
(***************************************************************************)
\* Only the body of a creation that has no row yet is ever set.
LEMMA BodiesFixed ==
  TypeOK /\ CreationsKnown /\ Quiet /\ [Next]_vars =>
    \A r \in Requests : Row(r) => dto'[r] = dto[r]
<1> SUFFICES ASSUME TypeOK, CreationsKnown, Quiet, [Next]_vars
             PROVE  \A r \in Requests : Row(r) => dto'[r] = dto[r]
    OBVIOUS
<1>1. ASSUME NEW r \in Requests, NEW d \in Dtos, CreateStart(r, d)
      PROVE  \A s \in Requests : Row(s) => dto'[s] = dto[s]
  BY <1>1 DEF CreateStart, TypeOK, CreationsKnown
<1>2. CASE UNCHANGED dto
  BY <1>2
<1>3. ASSUME \A r \in Requests, d \in Dtos : ~CreateStart(r, d) PROVE UNCHANGED dto
  <2>1. ASSUME NEW r \in Requests, CreateStep(r) PROVE UNCHANGED dto
    BY <2>1 DEF CreateStep, CreateReadBalance, CreateSumReserved, CreateSave, rowVars
  <2>2. ASSUME NEW f \in Refreshes, NEW p \in Pairs, RefreshStart(f, p) PROVE UNCHANGED dto
    BY <2>2 DEF RefreshStart, rowVars
  <2>3. ASSUME NEW c \in Requests \cup Refreshes, RefreshStep(c) PROVE UNCHANGED dto
    BY <2>3 DEF RefreshStep, FetchBalance, FetchFails, FindCached, SaveCached, rowVars
  <2>4. ASSUME NEW a \in Approvals, NEW r \in Requests,
               ApproveLock(a, r) \/ ApproveAnswered(a, r)
        PROVE  UNCHANGED dto
    BY <2>4 DEF ApproveLock, ApproveAnswered, rowVars
  <2>5. ASSUME NEW a \in Approvals, ApproveStep(a) \/ ReleaseFails(a) PROVE UNCHANGED dto
    BY <2>5
       DEF ApproveStep, CheckSufficient, CheckInsufficient, CheckFails, ApplyFails,
           ApplyAnswered, Finalize, Revert, ReleaseFails, rowVars
  <2>6. ASSUME NEW a \in Approvals, HcmStep(a) PROVE UNCHANGED dto
    BY <2>6 DEF HcmStep, HcmFiles, HcmReplays, HcmRefuses, HcmUnavailable, Consume, rowVars
  <2>7. ASSUME NEW r \in Requests, Reject(r) \/ Cancel(r) PROVE UNCHANGED dto
    BY <2>7 DEF Reject, Cancel, Close
  <2>8. ASSUME NEW p \in Pairs, NEW n \in PutBalances, NEW v \in BOOLEAN, HcmChange(p, n, v)
        PROVE UNCHANGED dto
    BY <2>8 DEF HcmChange, rowVars
  <2>9. ASSUME NEW f \in ForceValues, ForceChange(f) PROVE UNCHANGED dto
    BY <2>9 DEF ForceChange, rowVars
  <2>10. ASSUME Crash \/ UNCHANGED vars PROVE UNCHANGED dto
    BY <2>10 DEF Crash, vars, rowVars
  <2> QED
    BY <1>3, <2>1, <2>2, <2>3, <2>4, <2>5, <2>6, <2>7, <2>8, <2>9, <2>10 DEF Next
<1> QED
  BY <1>1, <1>2, <1>3

\* Every step leaves at most one row under a key.
LEMMA KeyStep == TypeOK /\ CallsKnown /\ OneRowPerKey /\ [Next]_vars => OneRowPerKey'
<1> SUFFICES ASSUME TypeOK, CallsKnown, OneRowPerKey, [Next]_vars PROVE OneRowPerKey'
    OBVIOUS
<1>1. CASE Quiet
  <2>1. \A r \in Requests : Row(r)' = Row(r)
    BY <1>1 DEF Quiet, Row
  <2>2. \A r \in Requests : Row(r) => dto'[r] = dto[r]
    BY <1>1, BodiesFixed DEF CallsKnown
  <2> QED
    BY <2>1, <2>2 DEF OneRowPerKey, SameKey
<1>2. ASSUME NEW r \in Requests, NEW e \in EventTypes, EventStep(r, e) PROVE OneRowPerKey'
  <2>1. \A s \in Requests : s # r => (Row(s)' <=> Row(s))
    BY <1>2 DEF EventStep, Row, TypeOK
  <2>2. UNCHANGED dto
    BY <1>2 DEF EventStep
  <2>3. CASE Row(r)
    BY <2>1, <2>2, <2>3 DEF OneRowPerKey
  <2>4. CASE ~Row(r)
    <3>1. ~\E s \in Requests : Row(s) /\ SameKey(dto[s], dto[r])
      BY <1>2, <2>4 DEF EventStep, Row
    <3> QED
      BY <2>1, <2>2, <3>1 DEF OneRowPerKey, SameKey
  <2> QED
    BY <2>3, <2>4
<1> QED
  BY <1>1, <1>2, StatusFollowsEvents

\* A key is used by one row at most, however the lookups, refreshes and transactions
\* of any number of creations interleave.
THEOREM KeysAreUsedOnce == Spec => []OneRowPerKey
<1>1. Init => OneRowPerKey
  BY DEF Init, OneRowPerKey, Row
<1>2. IInv /\ OneRowPerKey /\ [Next]_vars => OneRowPerKey'
  BY KeyStep DEF IInv
<1> QED
  BY <1>1, <1>2, InvariantIInv, PTL DEF Spec

(***************************************************************************)
(* The refinement of RequestLifecycle.                                     *)
(***************************************************************************)
\* Logs only grow, by the event that is appended.
LEMMA LogGrows ==
  ASSUME TypeOK, NEW r \in Requests, NEW e \in EventTypes, Log(r, e)
  PROVE  \A s \in Requests : \A x : Logged(s, x)' <=> Logged(s, x) \/ (s = r /\ x = e)
<1>1. ASSUME NEW s \in Requests, s # r
      PROVE  \A x : Logged(s, x)' <=> Logged(s, x)
  BY <1>1, LogAppended DEF Logged
<1>2. \A x : Logged(r, x)' <=> Logged(r, x) \/ x = e
  <2> SUFFICES ASSUME NEW x PROVE Logged(r, x)' <=> Logged(r, x) \/ x = e
      OBVIOUS
  <2>1. Logged(r, x) => Logged(r, x)'
    BY LogAppended DEF Logged
  <2>2. x = e => Logged(r, x)'
    BY LogAppended DEF Logged
  <2>3. Logged(r, x)' => Logged(r, x) \/ x = e
    BY LogAppended DEF Logged
  <2> QED
    BY <2>1, <2>2, <2>3
<1> QED
  BY <1>1, <1>2

\* No step takes an event out of a log.
LEMMA LogsStay ==
  TypeOK /\ CallsKnown /\ [Next]_vars =>
    \A r \in Requests : \A x : Logged(r, x) => Logged(r, x)'
<1> SUFFICES ASSUME TypeOK, CallsKnown, [Next]_vars
             PROVE  \A r \in Requests : \A x : Logged(r, x) => Logged(r, x)'
    OBVIOUS
<1>1. CASE Quiet
  BY <1>1 DEF Quiet, Logged
<1>2. ASSUME NEW r \in Requests, NEW e \in EventTypes, EventStep(r, e)
      PROVE  \A s \in Requests : \A x : Logged(s, x) => Logged(s, x)'
  BY <1>2, LogGrows DEF EventStep
<1> QED
  BY <1>1, <1>2, StatusFollowsEvents

\* A request under approval has been logged as such: its last event says so.
LEMMA ApprovingLogged ==
  ASSUME TypeOK, AuditReplays, NEW r \in Requests, status[r] = "APPROVING"
  PROVE  Logged(r, "REQUEST_APPROVING")
<1> DEFINE n == Len(events[r])
<1>1. events[r] \in Seq(EventTypes) /\ n \in Nat /\ DOMAIN events[r] = 1..n
  BY DEF TypeOK
<1>2. status[r] = IF n = 0 THEN "NONE" ELSE StatusAfter(events[r][n])
  BY DEF AuditReplays
<1>3. n \in 1..n /\ StatusAfter(events[r][n]) = "APPROVING"
  BY <1>1, <1>2
<1>4. events[r][n] = "REQUEST_APPROVING"
  BY <1>3, Zenon DEF StatusAfter
<1> QED
  BY <1>1, <1>3, <1>4 DEF Logged

\* The request of an apply message has been under approval.
TriedKnown == \A a \in sent : Logged(target[a], "REQUEST_APPROVING")

\* A message keeps its request, and is new only when its approval has just
\* checked the balance.
MessageKept(a) ==
  /\ a \in Approvals /\ target'[a] = target[a]
  /\ a \in sent \/ (pc[a] = "checking" /\ pc'[a] = "applying")

\* No step turns a message into one about another request.
LEMMA SentFrame ==
  TypeOK /\ CreationsKnown /\ MessagesKnown /\ [Next]_vars => \A a \in sent' : MessageKept(a)
<1> DEFINE Kept == \A a \in sent' : MessageKept(a)
<1> SUFFICES ASSUME TypeOK, CreationsKnown, MessagesKnown, [Next]_vars PROVE Kept
    OBVIOUS
<1> USE DEF MessageKept
<1>1. sent \subseteq Approvals /\ \A a \in sent : pc[a] # "idle"
  BY DEF TypeOK, MessagesKnown
<1>2. CASE ApprovalsUntouched
  BY <1>1, <1>2 DEF ApprovalsUntouched
<1>3. CASE Crash
  BY <1>1, <1>3 DEF Crash
<1>4. ASSUME NEW a \in Approvals, NEW r \in Requests, ApproveLock(a, r) \/ ApproveAnswered(a, r)
      PROVE  Kept
  BY <1>1, <1>4, TimeOffAssumption DEF ApproveLock, ApproveAnswered, TypeOK
<1>5. ASSUME NEW a \in Approvals, ApproveStep(a) PROVE Kept
  BY <1>1, <1>5
     DEF ApproveStep, CheckSufficient, CheckInsufficient, CheckFails, ApplyFails,
         ApplyAnswered, Finalize, Revert, Goto, TypeOK, Calls
<1>6. ASSUME NEW a \in Approvals, HcmStep(a) PROVE Kept
  BY <1>1, <1>6 DEF HcmStep, HcmFiles, HcmReplays, HcmRefuses, HcmUnavailable, Consume
<1>7. ASSUME NEW a \in Approvals, ReleaseFails(a) PROVE Kept
  BY <1>1, <1>7 DEF ReleaseFails
<1> QED
  BY <1>2, <1>3, <1>4, <1>5, <1>6, <1>7, OthersStep DEF ApprovalMoves

\* Every step keeps messages about requests that have been under approval.
LEMMA TriedStep ==
  IInv /\ AuditReplays /\ TriedKnown /\ [Next]_vars => TriedKnown'
<1> SUFFICES ASSUME IInv, AuditReplays, TriedKnown, [Next]_vars, NEW a \in sent'
             PROVE  Logged(target[a], "REQUEST_APPROVING")'
    BY DEF TriedKnown
<1>1. /\ a \in Approvals /\ target'[a] = target[a]
      /\ a \in sent \/ pc[a] = "checking"
  BY SentFrame DEF IInv, CallsKnown, MessageKept
<1>2. target[a] \in Requests
  BY <1>1 DEF IInv, CallsKnown, MessagesKnown, TypeOK
<1>3. Logged(target[a], "REQUEST_APPROVING")
  <2>1. CASE a \in sent
    BY <2>1 DEF TriedKnown
  <2>2. CASE pc[a] = "checking"
    <3>1. status[target[a]] = "APPROVING"
      BY <1>1, <2>2 DEF IInv, ApprovalLock, HoldsLock, Applying
    <3> QED
      BY <1>2, <3>1, ApprovingLogged DEF IInv
  <2> QED
    BY <1>1, <2>1, <2>2
<1>4. \A r \in Requests : \A x : Logged(r, x) => Logged(r, x)'
  BY LogsStay DEF IInv
<1> QED
  BY <1>1, <1>2, <1>3, <1>4 DEF Logged

\* The HCM files the request of a message that it has not filed before.
FirstFiling(a) ==
  /\ Quiet /\ ~Filed(target[a])
  /\ \E f \in Filings : filings' = [filings EXCEPT ![target[a]] = f]

\* The HCM's record changes in no other way.
LEMMA FilingsFrame ==
  TypeOK /\ CallsKnown /\ [Next]_vars => UNCHANGED filings \/ \E a \in sent : FirstFiling(a)
<1> DEFINE Kept == UNCHANGED filings \/ \E a \in sent : FirstFiling(a)
<1> SUFFICES ASSUME TypeOK, CallsKnown, [Next]_vars PROVE Kept
    OBVIOUS
<1>1. CASE ApprovalsUntouched
  BY <1>1 DEF ApprovalsUntouched
<1>2. CASE Crash
  BY <1>2 DEF Crash, hcmVars
<1>3. ASSUME NEW a \in Approvals, NEW r \in Requests, ApproveLock(a, r) \/ ApproveAnswered(a, r)
      PROVE  UNCHANGED filings
  BY <1>3 DEF ApproveLock, ApproveAnswered, hcmVars
<1>4. ASSUME NEW a \in Approvals, ApproveStep(a) PROVE UNCHANGED filings
  BY <1>4
     DEF ApproveStep, CheckSufficient, CheckInsufficient, CheckFails, ApplyFails,
         ApplyAnswered, Finalize, Revert, hcmVars
<1>5. ASSUME NEW a \in Approvals, HcmFiles(a) PROVE Kept
  <2> DEFINE f == [txn |-> a, balance |-> hcmBalance[PairFor(a)] - DaysFor(a)]
  <2>1. f \in Filings
    BY <1>5, FilingTyped DEF HcmFiles, CallsKnown, Filings
  <2>2. /\ a \in sent /\ ~Filed(target[a])
        /\ filings' = [filings EXCEPT ![target[a]] = f]
    BY <1>5 DEF HcmFiles, FileTimeOff
  <2>3. Quiet
    BY <1>5 DEF HcmFiles, Consume, Quiet, rowVars
  <2> HIDE DEF f
  <2> QED
    BY <2>1, <2>2, <2>3 DEF FirstFiling
<1>6. ASSUME NEW a \in Approvals, HcmReplays(a) \/ HcmRefuses(a) \/ HcmUnavailable(a)
      PROVE  UNCHANGED filings
  BY <1>6 DEF HcmReplays, HcmRefuses, HcmUnavailable, hcmVars
<1>7. ASSUME NEW a \in Approvals, ReleaseFails(a) PROVE UNCHANGED filings
  BY <1>7 DEF ReleaseFails, hcmVars
<1> QED
  BY <1>1, <1>2, <1>3, <1>4, <1>5, <1>6, <1>7, OthersStep DEF ApprovalMoves, HcmStep, CallsKnown

\* The initial states of TimeOff are initial states of RequestLifecycle.
LEMMA LifecycleInit == Init => Lifecycle!Init
<1> SUFFICES ASSUME Init PROVE Lifecycle!Init
    OBVIOUS
<1>1. \A r \in Requests : Logged(r, "REQUEST_APPROVING") = FALSE
  BY DEF Init, Logged
<1>2. \A r \in Requests : Filed(r) = FALSE
  BY DEF Init, HcmInit, Filed
<1>3. status = [r \in Requests |-> "NONE"]
  BY DEF Init
<1> QED
  BY <1>1, <1>2, <1>3, Zenon DEF Lifecycle!Init

\* The refinement mapping of TimeOff, as functions a step can be said to update.
Tried == [r \in Requests |-> Logged(r, "REQUEST_APPROVING")]
FiledSet == [r \in Requests |-> Filed(r)]

\* Every event moves the status along an edge of RequestLifecycle.
LEMMA EventIsMove ==
  ASSUME IInv, NEW r \in Requests, NEW e \in EventTypes, EventStep(r, e)
  PROVE  [Lifecycle!Next]_(Lifecycle!vars)
<1>1. \A s \in Requests : \A x : Logged(s, x)' <=> Logged(s, x) \/ (s = r /\ x = e)
  BY LogGrows DEF EventStep, IInv
<1>2. FiledSet' = FiledSet
  BY DEF EventStep, FiledSet, Filed
<1>3. ASSUME e # "REQUEST_APPROVING" PROVE Tried' = Tried
  <2>1. \A s \in Requests : Logged(s, "REQUEST_APPROVING")' = Logged(s, "REQUEST_APPROVING")
    <3>1. \A s \in Requests :
            Logged(s, "REQUEST_APPROVING")' <=> Logged(s, "REQUEST_APPROVING")
      BY <1>1, <1>3
    <3> QED
      BY <3>1, Zenon DEF Logged
  <2> QED
    BY <2>1, Zenon DEF Tried
<1>4. ASSUME e = "REQUEST_APPROVING" PROVE Tried' = [Tried EXCEPT ![r] = TRUE]
  <2>1. Logged(r, "REQUEST_APPROVING")' = TRUE
    <3>1. Logged(r, "REQUEST_APPROVING")'
      BY <1>1, <1>4
    <3> QED
      BY <3>1, Zenon DEF Logged
  <2>2. \A s \in Requests : s # r =>
          Logged(s, "REQUEST_APPROVING")' = Logged(s, "REQUEST_APPROVING")
    <3>1. \A s \in Requests : s # r =>
            (Logged(s, "REQUEST_APPROVING")' <=> Logged(s, "REQUEST_APPROVING"))
      BY <1>1
    <3> QED
      BY <3>1, Zenon DEF Logged
  <2> QED
    BY <2>1, <2>2, Zenon DEF Tried
<1>5. /\ status[r] = StatusBefore(e) /\ status' = [status EXCEPT ![r] = StatusAfter(e)]
      /\ e = "REQUEST_APPROVED" => FiledSet[r]
  BY DEF EventStep, FiledSet
<1>6. CASE e = "REQUEST_CREATED"
  BY <1>2, <1>3, <1>5, <1>6, EventTable
     DEF Lifecycle!Next, Lifecycle!Submit, Lifecycle!Move, Tried, FiledSet
<1>7. CASE e = "REQUEST_APPROVING"
  BY <1>2, <1>4, <1>5, <1>7, EventTable
     DEF Lifecycle!Next, Lifecycle!Lock, Lifecycle!Move, Tried, FiledSet
<1>8. CASE e = "REQUEST_APPROVED"
  BY <1>2, <1>3, <1>5, <1>8, EventTable
     DEF Lifecycle!Next, Lifecycle!Approve, Lifecycle!Move, Tried, FiledSet
<1>9. CASE e \in {"REQUEST_REJECTED", "REQUEST_CANCELLED"}
  BY <1>2, <1>3, <1>5, <1>9, EventTable
     DEF Lifecycle!Next, Lifecycle!Close, Lifecycle!Move, Tried, FiledSet
<1>10. CASE e \in Failures
  <2>1. e # "REQUEST_APPROVING"
    BY <1>10 DEF Failures
  <2> QED
    BY <1>2, <1>3, <1>5, <1>10, <2>1, EventTable
       DEF Lifecycle!Next, Lifecycle!Release, Lifecycle!Move, Tried, FiledSet
<1> QED
  BY <1>6, <1>7, <1>8, <1>9, <1>10 DEF EventTypes

\* A step that moves no status is a filing of RequestLifecycle, or nothing to it.
LEMMA QuietIsFiling ==
  ASSUME IInv, TriedKnown, [Next]_vars, Quiet
  PROVE  [Lifecycle!Next]_(Lifecycle!vars)
<1>1. Tried' = Tried /\ status' = status
  BY DEF Quiet, Tried, Logged
<1>2. CASE UNCHANGED filings
  <2>1. FiledSet' = FiledSet
    BY <1>2 DEF FiledSet, Filed
  <2> QED
    BY <1>1, <2>1 DEF Lifecycle!vars, Tried, FiledSet
<1>3. ASSUME NEW a \in sent, FirstFiling(a) PROVE Lifecycle!Next
  <2>1. target[a] \in Requests /\ Tried[target[a]]
    BY DEF IInv, CallsKnown, MessagesKnown, TypeOK, TriedKnown, Tried
  <2>2. PICK f \in Filings : filings' = [filings EXCEPT ![target[a]] = f]
    BY <1>3 DEF FirstFiling
  <2>3. f # NotFiled
    BY HcmAssumption DEF Filings
  <2>4. FiledSet' = [FiledSet EXCEPT ![target[a]] = TRUE]
    BY <2>1, <2>2, <2>3 DEF FiledSet, Filed, IInv, TypeOK, HcmTypeOK
  <2>5. ~FiledSet[target[a]]
    BY <1>3, <2>1 DEF FirstFiling, FiledSet
  <2> QED
    BY <1>1, <2>1, <2>4, <2>5 DEF Lifecycle!Next, Lifecycle!File, Tried, FiledSet
<1> QED
  BY <1>2, <1>3, FilingsFrame DEF IInv

\* TimeOff implements RequestLifecycle: whatever calls, messages, crashes and
\* failing transactions do, a request moves along the lifecycle only, is filed
\* once and after an approval was tried, and approved while filed.
THEOREM ImplementsLifecycle == Spec => LifecycleSpec
<1> DEFINE LInv == IInv /\ AuditReplays /\ TriedKnown
<1>1. Init => LInv
  BY InitIInv DEF Init, AuditReplays, TriedKnown
<1>2. LInv /\ [Next]_vars => LInv'
  BY StepIInv, AuditStep, TriedStep DEF IInv
<1>3. LInv /\ [Next]_vars => [Lifecycle!Next]_(Lifecycle!vars)
  BY StatusFollowsEvents, EventIsMove, QuietIsFiling DEF IInv
<1> QED
  BY <1>1, <1>2, <1>3, LifecycleInit, PTL DEF Spec, LifecycleSpec, Lifecycle!Spec

(***************************************************************************)
(* What the HCM has filed and the service does not show.                   *)
(***************************************************************************)
\* Some approval of the request ended without knowing what the HCM had done.
Failed(r) == \E why \in ExchangeFailures : Logged(r, why)

\* An approval whose message the HCM may have got, and that has not said so yet.
Exposed(a) ==
  \/ pc[a] \in {"applying", "finalizing", "dead"}
  \/ pc[a] = "reverting" /\ cause[a] \in ExchangeFailures

\* An answer comes after the message, and is gone with the call.
AnswersKnown ==
  \A a \in Approvals :
    reply[a].kind # "none" => a \notin sent /\ pc[a] \in {"applying", "finalizing"}

\* A message the HCM may still take: its approval is exposed, or has said so.
SentKnown == \A a \in sent : Exposed(a) \/ Failed(target[a])

\* What the HCM has filed is approved, or about to be, or its failure is logged.
Covered(r) ==
  \/ Failed(r)
  \/ status[r] = "APPROVED"
  \/ status[r] = "APPROVING" /\ Exposed(attempt[r])

FiledKnown == \A r \in Requests : Filed(r) => Covered(r)

AInv == IInv /\ AnswersKnown /\ SentKnown /\ FiledKnown

\* Every step keeps an answer from meeting its message.
LEMMA AnswersStep == TypeOK /\ CreationsKnown /\ AnswersKnown /\ [Next]_vars => AnswersKnown'
<1> SUFFICES ASSUME TypeOK, CreationsKnown, AnswersKnown, [Next]_vars PROVE AnswersKnown'
    OBVIOUS
<1>1. CASE ApprovalsUntouched
  BY <1>1 DEF ApprovalsUntouched, AnswersKnown
<1>2. CASE Crash
  BY <1>2 DEF Crash, AnswersKnown, NoAnswer
<1>3. ASSUME NEW a \in Approvals, NEW r \in Requests, ApproveLock(a, r) \/ ApproveAnswered(a, r)
      PROVE  AnswersKnown'
  BY <1>3, TimeOffAssumption DEF ApproveLock, ApproveAnswered, AnswersKnown, Goto, TypeOK, Calls
<1>4. ASSUME NEW a \in Approvals, CheckSufficient(a) \/ CheckInsufficient(a) \/ CheckFails(a)
      PROVE  AnswersKnown'
  BY <1>4
     DEF CheckSufficient, CheckInsufficient, CheckFails, GiveUp, Goto, AnswersKnown, TypeOK, Calls
<1>5. ASSUME NEW a \in Approvals,
             ApplyFails(a) \/ Finalize(a) \/ ReleaseFails(a)
      PROVE  AnswersKnown'
  <2>1. reply' = [reply EXCEPT ![a] = NoAnswer] /\ sent' = sent
    BY <1>5 DEF ApplyFails, Finalize, ReleaseFails
  <2>2. \A b \in Approvals : b # a => pc'[b] = pc[b]
    BY <1>5 DEF ApplyFails, Finalize, ReleaseFails, GiveUp, Goto, TypeOK, Calls
  <2> QED
    BY <2>1, <2>2 DEF AnswersKnown, NoAnswer, TypeOK
<1>6. ASSUME NEW a \in Approvals, ApplyAnswered(a) PROVE AnswersKnown'
  <2>1. sent' = sent /\ \A b \in Approvals : b # a => pc'[b] = pc[b]
    BY <1>6 DEF ApplyAnswered, GiveUp, Goto, TypeOK, Calls
  <2>2. CASE reply[a].kind = "filed" /\ Parses(reply[a].balance)
    BY <1>6, <2>1, <2>2 DEF ApplyAnswered, Goto, AnswersKnown, TypeOK, Calls
  <2>3. CASE ~(reply[a].kind = "filed" /\ Parses(reply[a].balance))
    <3>1. reply' = [reply EXCEPT ![a] = NoAnswer]
      BY <1>6, <2>3 DEF ApplyAnswered
    <3> QED
      BY <2>1, <3>1 DEF AnswersKnown, NoAnswer, TypeOK
  <2> QED
    BY <2>2, <2>3
<1>7. ASSUME NEW a \in Approvals, Revert(a) PROVE AnswersKnown'
  BY <1>7 DEF Revert, Goto, AnswersKnown, TypeOK, Calls
<1>8. ASSUME NEW a \in Approvals, HcmStep(a) PROVE AnswersKnown'
  <2>1. PICK answer : sent' = sent \ {a} /\ pc' = pc
          /\ reply' = IF pc[a] = "applying" THEN [reply EXCEPT ![a] = answer] ELSE reply
    BY <1>8 DEF HcmStep, HcmFiles, HcmReplays, HcmRefuses, HcmUnavailable, Consume
  <2>2. CASE pc[a] = "applying"
    BY <2>1, <2>2 DEF AnswersKnown, TypeOK
  <2>3. CASE pc[a] # "applying"
    BY <2>1, <2>3 DEF AnswersKnown, TypeOK
  <2> QED
    BY <2>2, <2>3
<1> QED
  BY <1>1, <1>2, <1>3, <1>4, <1>5, <1>6, <1>7, <1>8, OthersStep DEF ApprovalMoves, ApproveStep

\* How an approval leaves the exposed states: it has told the log, or approved.
Told(a, r) ==
  \/ Failed(r)'
  \/ pc[a] = "finalizing" /\ UNCHANGED sent /\ status'[r] = "APPROVED"

\* A step leaves an exposed approval exposed, unless it tells what it did.
LEMMA ExposedStep ==
  IInv /\ [Next]_vars =>
    \A a \in Approvals, r \in Requests :
      Exposed(a) /\ target[a] = r => (Exposed(a)' /\ target'[a] = r) \/ Told(a, r)
<1> DEFINE Stays ==
      \A a \in Approvals, r \in Requests :
        Exposed(a) /\ target[a] = r => (Exposed(a)' /\ target'[a] = r) \/ Told(a, r)
<1> SUFFICES ASSUME IInv, [Next]_vars PROVE Stays
    OBVIOUS
<1>0. TypeOK /\ CreationsKnown /\ ApprovalLock /\ CausesKnown
  BY DEF IInv, CallsKnown
<1>1. CASE ApprovalsUntouched
  BY <1>1 DEF ApprovalsUntouched, Exposed
<1>2. CASE Crash
  BY <1>0, <1>2 DEF Crash, Exposed, Active, Applying, TypeOK, Calls
<1>3. ASSUME NEW b \in Approvals, NEW r \in Requests, ApproveLock(b, r) \/ ApproveAnswered(b, r)
      PROVE  Stays
  BY <1>0, <1>3 DEF ApproveLock, ApproveAnswered, Exposed, Goto, TypeOK, Calls
<1>4. ASSUME NEW b \in Approvals, CheckSufficient(b) \/ CheckInsufficient(b) \/ CheckFails(b)
      PROVE  Stays
  BY <1>0, <1>4
     DEF CheckSufficient, CheckInsufficient, CheckFails, GiveUp, Exposed, Goto, TypeOK, Calls
<1>5. ASSUME NEW b \in Approvals, ApplyFails(b) PROVE Stays
  BY <1>0, <1>5 DEF ApplyFails, GiveUp, Exposed, Goto, TypeOK, Calls
<1>6. ASSUME NEW b \in Approvals, ApplyAnswered(b) PROVE Stays
  <2>1. CASE reply[b].kind = "filed" /\ Parses(reply[b].balance)
    BY <1>0, <1>6, <2>1 DEF ApplyAnswered, Exposed, Goto, TypeOK, Calls
  <2>2. CASE ~(reply[b].kind = "filed" /\ Parses(reply[b].balance))
    <3>1. PICK why \in ExchangeFailures : GiveUp(b, why)
      BY <1>6, <2>2 DEF ApplyAnswered, ExchangeFailures
    <3> QED
      BY <1>0, <1>6, <3>1 DEF ApplyAnswered, GiveUp, Exposed, Goto, TypeOK, Calls
  <2> QED
    BY <2>1, <2>2
<1>7. ASSUME NEW b \in Approvals, Finalize(b) PROVE Stays
  <2>1. HoldsLock(b) /\ target[b] \in Requests
    BY <1>0, <1>7 DEF Finalize, ApprovalLock, Applying, TypeOK
  <2>2. \A r \in Requests : target[b] = r => Told(b, r)
    BY <1>0, <1>7, <2>1 DEF Finalize, HoldsLock, Told, TypeOK
  <2>3. \A a \in Approvals : a # b => pc'[a] = pc[a]
    BY <1>0, <1>7, <2>1 DEF Finalize, HoldsLock, Goto, TypeOK, Calls
  <2> QED
    BY <1>7, <2>2, <2>3 DEF Finalize, Exposed
<1>8. ASSUME NEW b \in Approvals, Revert(b) PROVE Stays
  <2>1. HoldsLock(b) /\ target[b] \in Requests /\ cause[b] \in EventTypes
    BY <1>0, <1>8 DEF Revert, ApprovalLock, Applying, TypeOK, CausesKnown, EventTypes
  <2>2. Log(target[b], cause[b]) /\ pc[b] = "reverting"
    BY <1>8, <2>1 DEF Revert, HoldsLock
  <2>3. ASSUME NEW r \in Requests, target[b] = r, NEW why \in ExchangeFailures, cause[b] = why
        PROVE  Failed(r)'
    <3>1. Log(r, why) /\ why \in EventTypes
      BY <2>1, <2>2, <2>3
    <3>2. \A s \in Requests : \A x : Logged(s, x)' <=> Logged(s, x) \/ (s = r /\ x = why)
      BY <1>0, <3>1, LogGrows
    <3>3. Logged(r, why)'
      BY <3>2
    <3> QED
      BY <3>3 DEF Failed
  <2>4. \A r \in Requests : Exposed(b) /\ target[b] = r => Told(b, r)
    BY <2>2, <2>3 DEF Exposed, Told
  <2>5. \A a \in Approvals : a # b =>
          pc'[a] = pc[a] /\ cause'[a] = cause[a] /\ target'[a] = target[a]
    BY <1>0, <1>8 DEF Revert, Goto, TypeOK, Calls
  <2> QED
    BY <2>4, <2>5 DEF Exposed
<1>9. ASSUME NEW b \in Approvals, HcmStep(b) PROVE Stays
  BY <1>9 DEF HcmStep, HcmFiles, HcmReplays, HcmRefuses, HcmUnavailable, Consume, Exposed
<1>10. ASSUME NEW b \in Approvals, ReleaseFails(b) PROVE Stays
  <2>1. target' = target /\ \A a \in Approvals : a # b => pc'[a] = pc[a] /\ cause'[a] = cause[a]
    BY <1>0, <1>10 DEF ReleaseFails, GiveUp, Goto, TypeOK, Calls
  <2>2. Exposed(b)'
    <3>1. CASE cause[b] = "APPROVAL_FAILED_INSUFFICIENT_HCM_BALANCE"
      BY <1>0, <1>10, <3>1
         DEF ReleaseFails, GiveUp, Goto, Exposed, ExchangeFailures, TypeOK, Calls
    <3>2. CASE cause[b] # "APPROVAL_FAILED_INSUFFICIENT_HCM_BALANCE"
      BY <1>0, <1>10, <3>2 DEF ReleaseFails, Goto, Exposed, TypeOK, Calls
    <3> QED
      BY <3>1, <3>2
  <2> QED
    BY <2>1, <2>2 DEF Exposed
<1> QED
  BY <1>0, <1>1, <1>2, <1>3, <1>4, <1>5, <1>6, <1>7, <1>8, <1>9, <1>10, OthersStep
     DEF ApprovalMoves, ApproveStep

\* A failure in a log stays there.
LEMMA FailedStays ==
  IInv /\ [Next]_vars => \A r \in Requests : Failed(r) => Failed(r)'
BY LogsStay DEF IInv, Failed, Logged

\* Every step leaves each message with an exposed approval or a logged failure.
LEMMA SentStep ==
  IInv /\ AnswersKnown /\ SentKnown /\ [Next]_vars => SentKnown'
<1> SUFFICES ASSUME IInv, AnswersKnown, SentKnown, [Next]_vars, NEW a \in sent'
             PROVE  Exposed(a)' \/ Failed(target[a])'
    BY DEF SentKnown
<1>1. MessageKept(a)
  BY SentFrame DEF IInv, CallsKnown
<1>2. target[a] \in Requests
  BY <1>1 DEF MessageKept, IInv, CallsKnown, MessagesKnown, TypeOK
<1>3. CASE a \in sent /\ Exposed(a)
  <2>1. pc[a] # "finalizing"
    BY <1>1, <1>3 DEF AnswersKnown, IInv, CallsKnown, RepliesKnown, MessageKept
  <2> QED
    BY <1>1, <1>2, <1>3, <2>1, ExposedStep DEF MessageKept, Told, Failed, Logged
<1>4. CASE a \in sent /\ Failed(target[a])
  BY <1>1, <1>2, <1>4, FailedStays DEF MessageKept, Failed, Logged
<1>5. CASE a \notin sent
  BY <1>1, <1>5 DEF MessageKept, Exposed
<1> QED
  BY <1>3, <1>4, <1>5 DEF SentKnown

\* The request of an exposed approval is covered after every step.
LEMMA ExposedIsCovered ==
  ASSUME IInv, [Next]_vars, NEW a \in Approvals, Exposed(a),
         NEW r \in Requests, target[a] = r
  PROVE  Covered(r)'
<1>1. CASE Told(a, r)
  BY <1>1 DEF Told, Covered
<1>2. CASE Exposed(a)' /\ target'[a] = r
  <2>1. HoldsLock(a)'
    BY <1>2, StepIInv DEF IInv, ApprovalLock, Exposed, Applying
  <2> QED
    BY <1>2, <2>1 DEF HoldsLock, Covered
<1> QED
  BY <1>1, <1>2, ExposedStep

\* Every step leaves what the HCM has filed covered.
LEMMA FiledStep ==
  IInv /\ SentKnown /\ FiledKnown /\ [Next]_vars => FiledKnown'
<1> SUFFICES ASSUME IInv, SentKnown, FiledKnown, [Next]_vars, NEW r \in Requests, Filed(r)'
             PROVE  Covered(r)'
    BY DEF FiledKnown
<1>1. CASE Failed(r)
  BY <1>1, FailedStays DEF Covered
<1>2. CASE status[r] = "APPROVED"
  <2>1. status'[r] = "APPROVED"
    <3>1. CASE Quiet
      BY <1>2, <3>1 DEF Quiet
    <3>2. ASSUME NEW s \in Requests, NEW e \in EventTypes, EventStep(s, e)
          PROVE  status'[r] = "APPROVED"
      <4>1. StatusBefore(e) # "APPROVED"
        BY EventTable DEF EventTypes
      <4> QED
        BY <1>2, <3>2, <4>1 DEF EventStep, IInv, TypeOK
    <3> QED
      BY <3>1, <3>2, StatusFollowsEvents DEF IInv
  <2> QED
    BY <2>1 DEF Covered
<1>3. ASSUME NEW a \in Approvals, Exposed(a), target[a] = r PROVE Covered(r)'
  BY <1>3, ExposedIsCovered
<1>4. CASE status[r] = "APPROVING" /\ Exposed(attempt[r])
  BY <1>3, <1>4 DEF IInv, ApprovalLock
<1>5. CASE UNCHANGED filings
  <2>1. Filed(r)
    BY <1>5 DEF Filed
  <2> QED
    BY <1>1, <1>2, <1>4, <2>1 DEF FiledKnown, Covered
<1>6. ASSUME NEW a \in sent, FirstFiling(a) PROVE Covered(r)'
  <2>1. a \in Approvals
    BY DEF IInv, TypeOK
  <2>2. CASE target[a] = r
    BY <1>1, <1>3, <2>1, <2>2 DEF SentKnown
  <2>3. CASE target[a] # r
    <3>1. Filed(r)
      BY <1>6, <2>3 DEF FirstFiling, Filed, IInv, TypeOK, HcmTypeOK
    <3> QED
      BY <1>1, <1>2, <1>4, <3>1 DEF FiledKnown, Covered
  <2> QED
    BY <2>2, <2>3
<1> QED
  BY <1>5, <1>6, FilingsFrame DEF IInv

\* A request the HCM holds time off for, and the service shows as pending or
\* closed, has a failed approval in its log: nothing diverges unrecorded.
THEOREM DivergenceIsLogged == Spec => []DivergenceIsAudited
<1>1. Init => AInv
  BY InitIInv DEF AInv, Init, HcmInit, AnswersKnown, SentKnown, FiledKnown, Filed, NoAnswer
<1>2. AInv /\ [Next]_vars => AInv'
  BY StepIInv, AnswersStep, SentStep, FiledStep DEF AInv, IInv, CallsKnown
<1>3. AInv => DivergenceIsAudited
  BY DEF AInv, FiledKnown, Covered, Failed, DivergenceIsAudited
<1> QED
  BY <1>1, <1>2, <1>3, PTL DEF Spec

(***************************************************************************)
(* The filings and what is said of them: HcmLedger.                        *)
(***************************************************************************)
\* An approval is about no request before it is called, has no message before its
\* balance is checked, and is answered once its message is taken.
ToldKnown ==
  \A a \in Approvals :
    /\ pc[a] = "idle" => target[a] = NoRequest
    /\ pc[a] \in {"idle", "checking"} => a \notin sent
    /\ a \in sent \/ pc[a] \in {"idle", "checking"} => told[a] = NoAnswer

\* A step that sends, takes and files nothing, and starts no approval.
Untold ==
  /\ UNCHANGED <<told, filings>>
  /\ \A a \in Approvals :
       /\ target'[a] = target[a]
       /\ pc'[a] = pc[a] \/ pc'[a] \notin {"idle", "checking"}
       /\ a \in sent' => a \in sent \/ (pc[a] = "checking" /\ pc'[a] # "checking")

Starts(a, r) == ApproveLock(a, r) \/ ApproveAnswered(a, r)

LEMMA LedgerKinds ==
  IInv /\ [Next]_vars =>
    \/ Untold
    \/ \E a \in Approvals, r \in Requests : Starts(a, r)
    \/ \E a \in Approvals : HcmStep(a)
<1> SUFFICES ASSUME IInv, [Next]_vars,
                    ~\E a \in Approvals, r \in Requests : Starts(a, r),
                    ~\E a \in Approvals : HcmStep(a)
             PROVE  Untold
  OBVIOUS
<1>0. pc \in [Calls -> {"idle"} \cup Active \cup Ended] /\ Approvals \subseteq Calls
  BY DEF IInv, TypeOK, Calls
<1>1. CASE ApprovalsUntouched
  BY <1>1 DEF ApprovalsUntouched, Untold
<1>2. CASE Crash
  BY <1>0, <1>2 DEF Crash, Untold, hcmVars
<1>3. ASSUME NEW a \in Approvals, ApproveStep(a) \/ ReleaseFails(a) PROVE Untold
  <2>1. UNCHANGED <<told, filings, target>>
    BY <1>3 DEF ApproveStep, CheckSufficient, CheckInsufficient, CheckFails, ApplyFails,
                ApplyAnswered, Finalize, Revert, ReleaseFails, hcmVars
  <2>2. PICK l \in {"applying", "reverting", "finalizing", "approved", "failed", "dead"} : Goto(a, l)
    BY <1>3 DEF ApproveStep, CheckSufficient, CheckInsufficient, CheckFails, ApplyFails,
                ApplyAnswered, Finalize, Revert, ReleaseFails, GiveUp
  <2>3. sent' = sent \/ (sent' = sent \cup {a} /\ pc[a] = "checking")
    BY <1>3 DEF ApproveStep, CheckSufficient, CheckInsufficient, CheckFails, ApplyFails,
                ApplyAnswered, Finalize, Revert, ReleaseFails
  <2>4. pc'[a] = l /\ \A b \in Approvals : b # a => pc'[b] = pc[b]
    BY <1>0, <2>2 DEF Goto
  <2> QED BY <2>1, <2>3, <2>4 DEF Untold
<1> QED
  BY <1>1, <1>2, <1>3, OthersStep DEF IInv, CallsKnown, ApprovalMoves, Starts

LEMMA ToldStep == IInv /\ ToldKnown /\ [Next]_vars => ToldKnown'
<1> SUFFICES ASSUME IInv, ToldKnown, [Next]_vars PROVE ToldKnown'
  OBVIOUS
<1>0. /\ pc \in [Calls -> {"idle"} \cup Active \cup Ended] /\ Approvals \subseteq Calls
      /\ target \in [Approvals \cup Refreshes -> Requests \cup Pairs \cup {NoRequest}]
      /\ told \in [Approvals -> Replies]
  BY DEF IInv, TypeOK, Calls
<1>1. CASE Untold
  BY <1>1 DEF Untold, ToldKnown
<1>2. ASSUME NEW a \in Approvals, NEW r \in Requests, Starts(a, r) PROVE ToldKnown'
  <2>1. pc[a] = "idle" /\ UNCHANGED <<sent, told>>
    BY <1>2 DEF Starts, ApproveLock, ApproveAnswered
  <2>2. PICK l \in {"checking", "approved", "failed"} : Goto(a, l)
    BY <1>2 DEF Starts, ApproveLock, ApproveAnswered
  <2>3. target' = [target EXCEPT ![a] = r]
    BY <1>2 DEF Starts, ApproveLock, ApproveAnswered
  <2> QED BY <1>0, <2>1, <2>2, <2>3 DEF Goto, ToldKnown
<1>3. ASSUME NEW a \in Approvals, HcmStep(a) PROVE ToldKnown'
  <2>1. PICK answer : a \in sent /\ Consume(a, answer)
    BY <1>3 DEF HcmStep, HcmFiles, HcmReplays, HcmRefuses, HcmUnavailable
  <2> QED BY <1>0, <2>1 DEF Consume, ToldKnown
<1> QED
  BY <1>1, <1>2, <1>3, LedgerKinds

LEMMA LedgerInit == Init => Ledger!Init
<1> SUFFICES ASSUME Init PROVE Ledger!Init
  OBVIOUS
<1>1. AskedFor = [a \in Approvals |-> NoAttempt] BY DEF Init, AskedFor
<1>2. Recorded = [r \in Requests |-> NotFiled] BY DEF Init, HcmInit, Recorded, Filed
<1>3. AnswerTo = [a \in Approvals |-> Ledger!Silence]
  BY DEF Init, AnswerTo, NoAnswer, Ledger!Silence
<1> QED BY <1>1, <1>2, <1>3 DEF Ledger!Init

\* An approval that starts is a message that is drawn up.
LEMMA StartIsSend ==
  ASSUME IInv, ToldKnown, NEW a \in Approvals, NEW r \in Requests, Starts(a, r)
  PROVE  Ledger!Next
<1>1. /\ pc[a] = "idle" /\ target' = [target EXCEPT ![a] = r]
      /\ UNCHANGED <<told, filings>>
  BY DEF Starts, ApproveLock, ApproveAnswered, hcmVars
<1>2. target \in [Approvals \cup Refreshes -> Requests \cup Pairs \cup {NoRequest}]
  BY DEF IInv, TypeOK
<1>3. AskedFor[a] = NoAttempt BY <1>1 DEF AskedFor, ToldKnown
<1>4. r # NoRequest BY TimeOffAssumption
<1>5. AskedFor' = [AskedFor EXCEPT ![a] = [request |-> r]]
  BY <1>1, <1>2, <1>4 DEF AskedFor
<1>6. Recorded' = Recorded /\ AnswerTo' = AnswerTo BY <1>1 DEF Recorded, AnswerTo, Filed
<1>7. Ledger!Send(a, [request |-> r]) BY <1>3, <1>5, <1>6 DEF Ledger!Send
<1>8. [request |-> r] \in [request : Requests] OBVIOUS
<1> QED BY <1>7, <1>8 DEF Ledger!Next

\* What the ledger sees of a message that the HCM takes.
LEMMA TakenMessage ==
  ASSUME IInv, ToldKnown, NEW a \in Approvals, a \in sent, NEW answer \in Replies, Consume(a, answer)
  PROVE  /\ target[a] \in Requests /\ AskedFor[a] = [request |-> target[a]] /\ AskedFor[a] # NoAttempt
         /\ AnswerTo[a] = Ledger!Silence /\ AskedFor' = AskedFor
         /\ AnswerTo' = [AnswerTo EXCEPT ![a] =
               [kind |-> answer.kind, txn |-> answer.txn, amount |-> answer.balance]]
<1>1. target[a] \in Requests BY DEF IInv, TypeOK, CallsKnown, MessagesKnown
<1>2. AskedFor[a] = [request |-> target[a]] /\ AskedFor[a] # NoAttempt
  BY <1>1, TimeOffAssumption DEF AskedFor
<1>3. AnswerTo[a] = Ledger!Silence BY DEF ToldKnown, AnswerTo, NoAnswer, Ledger!Silence
<1>4. AskedFor' = AskedFor BY DEF Consume, AskedFor
<1>5. told \in [Approvals -> Replies] /\ told' = [told EXCEPT ![a] = answer]
  BY DEF Consume, IInv, TypeOK
<1>6. AnswerTo' = [AnswerTo EXCEPT ![a] =
        [kind |-> answer.kind, txn |-> answer.txn, amount |-> answer.balance]]
  BY <1>5 DEF AnswerTo
<1> QED BY <1>1, <1>2, <1>3, <1>4, <1>6

LEMMA FilingIsFile ==
  ASSUME IInv, ToldKnown, NEW a \in Approvals, HcmFiles(a)
  PROVE  Ledger!Next
<1> DEFINE r == target[a]
           left == hcmBalance[PairFor(a)] - DaysFor(a)
           answer == [kind |-> "filed", txn |-> a, balance |-> left]
           entry == [body |-> [request |-> r], txn |-> a, amount |-> left]
<1>1. a \in sent /\ ~Filed(r) /\ Consume(a, answer)
  BY DEF HcmFiles, FileTimeOff
<1>2. left \in Int BY <1>1, FilingTyped DEF IInv, CallsKnown
<1>3. answer \in Replies BY <1>2 DEF Replies
<1>4. filings' = [filings EXCEPT ![r] = [txn |-> a, balance |-> left]]
  BY DEF HcmFiles, FileTimeOff
<1> HIDE DEF left
<1>5. /\ r \in Requests /\ AskedFor[a] = [request |-> r] /\ AskedFor[a] # NoAttempt
      /\ AnswerTo[a] = Ledger!Silence /\ AskedFor' = AskedFor
      /\ AnswerTo' = [AnswerTo EXCEPT ![a] = [kind |-> "filed", txn |-> a, amount |-> left]]
  BY <1>1, <1>3, TakenMessage
<1>6. [txn |-> a, balance |-> left] # NotFiled BY <1>2, HcmAssumption
<1>7. Recorded' = [Recorded EXCEPT ![r] = entry]
  BY <1>4, <1>5, <1>6 DEF Recorded, Filed, IInv, TypeOK, HcmTypeOK
<1>8. Recorded[r] = NotFiled /\ Recorded'[r] = entry
  BY <1>1, <1>5, <1>7 DEF Recorded
<1>9. entry \in [body : {AskedFor[a]}, txn : {a}, amount : Int] BY <1>2, <1>5
<1>10. entry.txn = a /\ entry.amount = left OBVIOUS
<1> HIDE DEF entry, r
<1>11. Ledger!Told(Recorded'[r]) = [kind |-> "filed", txn |-> a, amount |-> left]
  BY <1>8, <1>10 DEF Ledger!Told
<1>12. AskedFor[a].request = r /\ Recorded'[r] \in [body : {AskedFor[a]}, txn : {a}, amount : Int]
  BY <1>5, <1>8, <1>9
<1>13. /\ Recorded' = [Recorded EXCEPT ![r] = Recorded'[r]]
       /\ AnswerTo' = [AnswerTo EXCEPT ![a] = Ledger!Told(Recorded'[r])]
  BY <1>5, <1>7, <1>8, <1>11
<1>14. Ledger!File(a, r) BY <1>5, <1>8, <1>12, <1>13, Zenon DEF Ledger!File
<1> QED BY <1>5, <1>14 DEF Ledger!Next

LEMMA ReplayIsReplay ==
  ASSUME IInv, ToldKnown, NEW a \in Approvals, HcmReplays(a)
  PROVE  Ledger!Next
<1> DEFINE r == target[a]
           answer == [kind |-> "filed", txn |-> filings[r].txn, balance |-> filings[r].balance]
<1>1. a \in sent /\ Filed(r) /\ Consume(a, answer) /\ filings' = filings
  BY DEF HcmReplays, hcmVars
<1>2. r \in Requests BY <1>1 DEF IInv, TypeOK, CallsKnown, MessagesKnown
<1>3. filings[r] \in Filings BY <1>1, <1>2 DEF IInv, TypeOK, HcmTypeOK, Filed
<1>4. answer \in Replies BY <1>3 DEF Replies, Filings
<1>5. /\ AskedFor[a] = [request |-> r] /\ AskedFor[a] # NoAttempt
      /\ AnswerTo[a] = Ledger!Silence /\ AskedFor' = AskedFor
      /\ AnswerTo' = [AnswerTo EXCEPT ![a] =
            [kind |-> "filed", txn |-> filings[r].txn, amount |-> filings[r].balance]]
  BY <1>1, <1>4, TakenMessage
<1>6. Recorded' = Recorded BY <1>1 DEF Recorded, Filed
<1>7. Recorded[r] = [body |-> [request |-> r], txn |-> filings[r].txn, amount |-> filings[r].balance]
  BY <1>1, <1>2 DEF Recorded
<1>8. Recorded[r] # NotFiled
  <2>1. Recorded[r] \in [body : [request : Requests], txn : Approvals, amount : Int]
    BY <1>2, <1>3, <1>7 DEF Filings
  <2> QED BY <2>1, TimeOffAssumption
<1>9. Ledger!Told(Recorded[r]) = [kind |-> "filed", txn |-> filings[r].txn, amount |-> filings[r].balance]
  BY <1>7 DEF Ledger!Told
<1>10. Recorded[r].body = AskedFor[a] BY <1>5, <1>7
<1> HIDE DEF r
<1>11. Ledger!Replay(a, r) BY <1>5, <1>6, <1>8, <1>9, <1>10 DEF Ledger!Replay
<1> QED BY <1>2, <1>11 DEF Ledger!Next

LEMMA RefusalIsDecline ==
  ASSUME IInv, ToldKnown, NEW a \in Approvals, HcmRefuses(a) \/ HcmUnavailable(a)
  PROVE  Ledger!Next
<1>1. PICK why \in {"refused", "down"} : a \in sent /\ Consume(a, [NoAnswer EXCEPT !.kind = why])
  BY Zenon DEF HcmRefuses, HcmUnavailable
<1>2. filings' = filings BY DEF HcmRefuses, HcmUnavailable, hcmVars
<1> DEFINE answer == [NoAnswer EXCEPT !.kind = why]
           decline == [kind |-> why, txn |-> NoAttempt, amount |-> 0]
<1>3. answer = [kind |-> why, txn |-> NoAttempt, balance |-> 0]
  BY DEF NoAnswer
<1> HIDE DEF answer
<1>4. answer \in Replies BY <1>3 DEF Replies
<1>5. answer.kind = why /\ answer.txn = NoAttempt /\ answer.balance = 0 BY <1>3
<1>6. Consume(a, answer) BY <1>1 DEF answer
<1>7. /\ AskedFor[a] # NoAttempt /\ AnswerTo[a] = Ledger!Silence /\ AskedFor' = AskedFor
      /\ AnswerTo' = [AnswerTo EXCEPT ![a] = decline]
  BY <1>1, <1>4, <1>5, <1>6, TakenMessage
<1>8. Recorded' = Recorded BY <1>2 DEF Recorded, Filed
<1>9. AnswerTo'[a] = decline /\ decline \in Ledger!Declined
  BY <1>7 DEF AnswerTo, Ledger!Declined
<1> HIDE DEF decline
<1>10. Ledger!Decline(a) BY <1>7, <1>8, <1>9 DEF Ledger!Decline
<1> QED BY <1>10 DEF Ledger!Next

\* hcm.service.ts as the service meets it: a request is filed once and for good,
\* whichever of its approvals the HCM takes first, and whoever is told of a filing
\* is told of that one.
THEOREM HcmKeepsLedger == Spec => LedgerSpec
<1> DEFINE LInv == IInv /\ ToldKnown
<1>1. Init => LInv
  BY InitIInv DEF Init, ToldKnown
<1>2. LInv /\ [Next]_vars => LInv'
  BY StepIInv, ToldStep
<1>3. ASSUME Untold PROVE UNCHANGED Ledger!ledgerVars
  BY <1>3 DEF Untold, Ledger!ledgerVars, AskedFor, Recorded, Filed, AnswerTo
<1>4. LInv /\ [Next]_vars => [Ledger!Next]_(Ledger!ledgerVars)
  BY <1>3, LedgerKinds, StartIsSend, FilingIsFile, ReplayIsReplay, RefusalIsDecline DEF HcmStep
<1> QED
  BY <1>1, <1>2, <1>4, LedgerInit, PTL DEF Spec, LedgerSpec, Ledger!Spec
=============================================================================
