--------------------------- MODULE BalanceProofs ---------------------------
(***************************************************************************)
(* Balances in TimeOff: the HCM deducts the days of a request once, what   *)
(* is reserved fits the balance a creation read, and a cached balance errs *)
(* in one direction as long as nobody sets one at the HCM by hand.         *)
(***************************************************************************)
EXTENDS TimeOffProofs, Sums

(***************************************************************************)
(* The invariant: everything that may end up in the cache was once the     *)
(* official balance, and official balances only fall.                      *)
(***************************************************************************)
Holding == {"finding", "updating", "inserting"}

SeenHigh ==
  \A c \in Requests \cup Refreshes : pc[c] \in Holding => seen[c] >= hcmBalance[PairOf(c)]

RepliesHigh ==
  \A a \in Approvals : reply[a].kind = "filed" => reply[a].balance >= hcmBalance[PairFor(a)]

FilingsHigh ==
  \A r \in Requests : Filed(r) => /\ pc[r] # "idle"
                                  /\ filings[r].balance >= hcmBalance[dto[r].pair]

\* A rollback brings an older cache back, but none that is too low.
UndoHigh ==
  undo # NoUndo => \A p \in Pairs : undo[p] # NoRow => undo[p] >= hcmBalance[p]

CInv == IInv /\ SeenHigh /\ RepliesHigh /\ FilingsHigh /\ UndoHigh /\ CacheNeverLow

(***************************************************************************)
(* What steps leave alone.                                                 *)
(***************************************************************************)
\* What a call that has started is about never changes.
ArgumentsFixed ==
  /\ \A r \in Requests : pc[r] # "idle" => pc'[r] # "idle" /\ dto'[r] = dto[r]
  /\ \A c \in Approvals \cup Refreshes : pc[c] # "idle" => target'[c] = target[c]

LEMMA ArgumentsStep == TypeOK /\ [Next]_vars => ArgumentsFixed
<1> SUFFICES ASSUME TypeOK, [Next]_vars PROVE ArgumentsFixed
  OBVIOUS
<1> USE TimeOffAssumption DEF TypeOK, ArgumentsFixed, Goto, Calls, rowVars, callVars
<1>1. ASSUME NEW r \in Requests, NEW d \in Dtos, CreateStart(r, d) PROVE ArgumentsFixed
  BY <1>1 DEF CreateStart
<1>2. ASSUME NEW r \in Requests, CreateStep(r) PROVE ArgumentsFixed
  BY <1>2 DEF CreateStep, CreateReadBalance, CreateSumReserved, CreateSave
<1>3. ASSUME NEW f \in Refreshes, NEW p \in Pairs, RefreshStart(f, p) PROVE ArgumentsFixed
  BY <1>3 DEF RefreshStart
<1>4. ASSUME NEW c \in Requests \cup Refreshes, RefreshStep(c) PROVE ArgumentsFixed
  BY <1>4 DEF RefreshStep, FetchBalance, FetchFails, FindCached, SaveCached
<1>5. ASSUME NEW a \in Approvals, NEW r \in Requests, ApproveLock(a, r) \/ ApproveAnswered(a, r)
      PROVE ArgumentsFixed
  BY <1>5 DEF ApproveLock, ApproveAnswered
<1>6. ASSUME NEW a \in Approvals, ApproveStep(a) \/ ReleaseFails(a) PROVE ArgumentsFixed
  BY <1>6 DEF ApproveStep, CheckSufficient, CheckInsufficient, CheckFails, ApplyFails, ApplyAnswered,
              Finalize, Revert, ReleaseFails, GiveUp
<1>7. ASSUME NEW a \in Approvals, HcmStep(a) PROVE ArgumentsFixed
  BY <1>7 DEF HcmStep, HcmFiles, HcmReplays, HcmRefuses, HcmUnavailable, Consume
<1>8. ASSUME NEW r \in Requests, Reject(r) \/ Cancel(r) PROVE ArgumentsFixed
  BY <1>8 DEF Reject, Cancel, Close
<1>9. ASSUME NEW p \in Pairs, NEW n \in PutBalances, NEW v \in BOOLEAN, HcmChange(p, n, v)
      PROVE ArgumentsFixed
  BY <1>9 DEF HcmChange
<1>10. ASSUME NEW f \in ForceValues, ForceChange(f) PROVE ArgumentsFixed
  BY <1>10 DEF ForceChange
<1>11. CASE Crash BY <1>11 DEF Crash
<1>12. CASE UNCHANGED vars BY <1>12 DEF vars
<1> QED BY <1>1, <1>2, <1>3, <1>4, <1>5, <1>6, <1>7, <1>8, <1>9, <1>10, <1>11, <1>12 DEF Next

\* The other steps hold what they held, write no balances, and leave the cache as it
\* is or as it was when the transaction began.
Idle ==
  /\ UNCHANGED <<hcmBalance, filings>>
  /\ cache' = cache \/ (undo # NoUndo /\ cache' = undo)
  /\ undo' = undo \/ undo' = NoUndo \/ undo' = cache
  /\ \A c \in Requests \cup Refreshes : pc'[c] \in Holding => pc[c] \in Holding /\ seen'[c] = seen[c]
  /\ \A a \in Approvals : reply'[a].kind = "filed" => reply'[a] = reply[a]

LEMMA StepKinds ==
  ASSUME PutBalances = {}, TypeOK, [Next]_vars
  PROVE  \/ Idle
         \/ \E c \in Requests \cup Refreshes : FetchBalance(c) \/ SaveCached(c)
         \/ \E a \in Approvals : Finalize(a) \/ HcmFiles(a) \/ HcmReplays(a)
<1> USE TimeOffAssumption DEF TypeOK, Idle, Goto, Calls, Holding, rowVars, callVars, hcmVars, queueVars, NoAnswer
<1>1. ASSUME NEW r \in Requests, NEW d \in Dtos, CreateStart(r, d) PROVE Idle
  BY <1>1 DEF CreateStart
<1>2. ASSUME NEW r \in Requests, CreateStep(r) PROVE Idle
  BY <1>2 DEF CreateStep, CreateReadBalance, CreateSumReserved, CreateSave, Open, Commit, Rollback
<1>3. ASSUME NEW f \in Refreshes, NEW p \in Pairs, RefreshStart(f, p) PROVE Idle
  BY <1>3 DEF RefreshStart
<1>4. ASSUME NEW c \in Requests \cup Refreshes, FetchFails(c) \/ FindCached(c) PROVE Idle
  BY <1>4 DEF FetchFails, FindCached
<1>5. ASSUME NEW a \in Approvals, NEW r \in Requests, ApproveLock(a, r) \/ ApproveAnswered(a, r) PROVE Idle
  BY <1>5 DEF ApproveLock, ApproveAnswered
<1>6. ASSUME NEW a \in Approvals,
             CheckSufficient(a) \/ CheckInsufficient(a) \/ CheckFails(a) \/ ApplyFails(a)
             \/ ApplyAnswered(a) \/ Revert(a) \/ ReleaseFails(a)
      PROVE Idle
  BY <1>6 DEF CheckSufficient, CheckInsufficient, CheckFails, ApplyFails, ApplyAnswered, Revert,
              ReleaseFails, GiveUp
<1>7. ASSUME NEW a \in Approvals, HcmRefuses(a) \/ HcmUnavailable(a) PROVE Idle
  BY <1>7 DEF HcmRefuses, HcmUnavailable, Consume
<1>8. ASSUME NEW r \in Requests, Reject(r) \/ Cancel(r) PROVE Idle
  BY <1>8 DEF Reject, Cancel, Close
<1>9. ASSUME NEW f \in ForceValues, ForceChange(f) PROVE Idle
  BY <1>9 DEF ForceChange, SetForce
<1>10. CASE Crash
  BY <1>10 DEF Crash, Rollback, Active, Filling
<1>11. CASE UNCHANGED vars BY <1>11 DEF vars
<1>12. ~\E p \in Pairs, n \in PutBalances, v \in BOOLEAN : HcmChange(p, n, v)
  OBVIOUS
<1> QED
  BY <1>1, <1>2, <1>3, <1>4, <1>5, <1>6, <1>7, <1>8, <1>9, <1>10, <1>11, <1>12
     DEF Next, RefreshStep, ApproveStep, HcmStep

\* The pair that a held balance, an answer or a filing is about stays the same.
LEMMA PairsFixed ==
  ASSUME IInv, FilingsHigh, ArgumentsFixed
  PROVE  /\ \A c \in Requests \cup Refreshes : pc[c] \in Holding =>
              PairOf(c) \in Pairs /\ PairOf(c)' = PairOf(c)
         /\ \A a \in Approvals : reply[a].kind = "filed" \/ a \in sent =>
              PairFor(a) \in Pairs /\ PairFor(a)' = PairFor(a)
         /\ \A r \in Requests : Filed(r) => dto[r].pair \in Pairs /\ dto'[r].pair = dto[r].pair
<1>0. /\ TypeOK /\ CreationsKnown /\ RefreshesKnown /\ MessagesKnown /\ RepliesKnown
      /\ \A r \in Requests : pc[r] # "idle" => dto[r].pair \in Pairs /\ dto'[r] = dto[r]
  BY TimeOffAssumption DEF IInv, CallsKnown, CreationsKnown, ArgumentsFixed
<1>1. ASSUME NEW c \in Requests \cup Refreshes, pc[c] \in Holding
      PROVE PairOf(c) \in Pairs /\ PairOf(c)' = PairOf(c)
  BY <1>0, <1>1 DEF PairOf, Holding, RefreshesKnown, ArgumentsFixed
<1>2. ASSUME NEW a \in Approvals, reply[a].kind = "filed" \/ a \in sent
      PROVE PairFor(a) \in Pairs /\ PairFor(a)' = PairFor(a)
  <2>1. pc[a] # "idle" /\ Row(target[a])
    BY <1>0, <1>2 DEF RepliesKnown, MessagesKnown, Applying
  <2>2. target[a] \in Requests /\ target'[a] = target[a]
    BY <1>0, <2>1 DEF TypeOK, ArgumentsFixed
  <2>3. pc[target[a]] # "idle" BY <1>0, <2>1, <2>2 DEF CreationsKnown
  <2> QED BY <1>0, <2>2, <2>3 DEF PairFor
<1>3. ASSUME NEW r \in Requests, Filed(r) PROVE dto[r].pair \in Pairs /\ dto'[r].pair = dto[r].pair
  BY <1>0, <1>3 DEF FilingsHigh
<1> QED BY <1>1, <1>2, <1>3

\* Only the caller of a message can be given the answer to it.
LEMMA ConsumeAnswers ==
  ASSUME TypeOK, NEW a \in Approvals, NEW answer, Consume(a, answer)
  PROVE  \A b \in Approvals : reply'[b] = reply[b] \/ (b = a /\ reply'[b] = answer)
<1>1. CASE pc[a] = "applying" BY <1>1 DEF Consume, TypeOK
<1>2. CASE pc[a] # "applying" BY <1>2 DEF Consume
<1> QED BY <1>1, <1>2

\* Every step keeps what is held, answered, filed and cached from being too low.
LEMMA CInvStep ==
  ASSUME PutBalances = {}, CInv, [Next]_vars
  PROVE  (SeenHigh /\ RepliesHigh /\ FilingsHigh /\ UndoHigh /\ CacheNeverLow)'
<1> DEFINE High == SeenHigh /\ RepliesHigh /\ FilingsHigh /\ UndoHigh /\ CacheNeverLow
<1>0. /\ IInv /\ TypeOK /\ High /\ ArgumentsFixed
      /\ hcmBalance \in [Pairs -> Int] /\ cache \in [Pairs -> Nat \cup {NoRow}]
      /\ undo \in [Pairs -> Nat \cup {NoRow}] \cup {NoUndo}
      /\ seen \in [Requests \cup Refreshes -> Nat] /\ reply \in [Approvals -> Replies]
  BY ArgumentsStep DEF CInv, IInv, TypeOK, HcmTypeOK, Caches
<1>p. /\ \A c \in Requests \cup Refreshes : pc[c] \in Holding =>
           PairOf(c) \in Pairs /\ PairOf(c)' = PairOf(c)
      /\ \A a \in Approvals : reply[a].kind = "filed" \/ a \in sent =>
           PairFor(a) \in Pairs /\ PairFor(a)' = PairFor(a)
      /\ \A r \in Requests : Filed(r) => dto[r].pair \in Pairs /\ dto'[r].pair = dto[r].pair
  BY <1>0, PairsFixed
<1> USE <1>0, <1>p
<1>1. ASSUME Idle PROVE High'
  <2>1. SeenHigh' BY <1>1 DEF Idle, SeenHigh
  <2>2. RepliesHigh' BY <1>1 DEF Idle, RepliesHigh
  <2>3. FilingsHigh' BY <1>1 DEF Idle, FilingsHigh, Filed, ArgumentsFixed
  <2>4. CacheNeverLow' BY <1>1 DEF Idle, CacheNeverLow, UndoHigh
  <2>5. UndoHigh' BY <1>1 DEF Idle, CacheNeverLow, UndoHigh
  <2> QED BY <2>1, <2>2, <2>3, <2>4, <2>5
<1>2. ASSUME NEW c \in Requests \cup Refreshes, FetchBalance(c) PROVE High'
  <2>1. /\ UNCHANGED <<hcmBalance, filings, cache, undo, reply, dto, target>>
        /\ \A b \in Requests \cup Refreshes : b # c => pc'[b] = pc[b] /\ seen'[b] = seen[b]
    BY <1>2 DEF FetchBalance, Goto, TypeOK, Calls, hcmVars, rowVars, queueVars
  <2>2. seen'[c] = hcmBalance[PairOf(c)] /\ PairOf(c)' = PairOf(c) /\ PairOf(c) \in Pairs
    <3>1. pc[c] = "fetching" BY <1>2 DEF FetchBalance
    <3>2. PairOf(c) \in Pairs
      BY <3>1, TimeOffAssumption DEF IInv, CallsKnown, CreationsKnown, RefreshesKnown, PairOf
    <3> QED BY <1>2, <2>1, <3>2 DEF FetchBalance, PairOf
  <2>3. SeenHigh' BY <2>1, <2>2 DEF SeenHigh
  <2>4. RepliesHigh' /\ FilingsHigh' /\ UndoHigh' /\ CacheNeverLow'
    BY <2>1 DEF RepliesHigh, PairFor, FilingsHigh, Filed, UndoHigh, CacheNeverLow, ArgumentsFixed
  <2> QED BY <2>3, <2>4
<1>3. ASSUME NEW c \in Requests \cup Refreshes, SaveCached(c) PROVE High'
  <2>1. /\ UNCHANGED <<hcmBalance, filings, undo, reply, dto, target>>
        /\ \A b \in Requests \cup Refreshes : b # c => pc'[b] = pc[b] /\ seen'[b] = seen[b]
        /\ pc[c] \in Holding /\ pc'[c] \notin Holding
    BY <1>3 DEF SaveCached, Goto, TypeOK, Calls, hcmVars, rowVars, queueVars, Holding
  <2>2. SeenHigh' /\ RepliesHigh' /\ FilingsHigh' /\ UndoHigh'
    <3>1. SeenHigh' BY <2>1 DEF SeenHigh
    <3>2. RepliesHigh' BY <2>1 DEF RepliesHigh
    <3>3. FilingsHigh' BY <2>1 DEF FilingsHigh, Filed, ArgumentsFixed
    <3>4. UndoHigh' BY <2>1 DEF UndoHigh
    <3> QED BY <3>1, <3>2, <3>3, <3>4
  <2>3. CacheNeverLow'
    <3>1. PairOf(c) \in Pairs /\ seen[c] >= hcmBalance[PairOf(c)]
      BY <2>1 DEF SeenHigh
    <3>2. cache' = cache \/ cache' = [cache EXCEPT ![PairOf(c)] = seen[c]]
      BY <1>3 DEF SaveCached
    <3> QED BY <2>1, <3>1, <3>2 DEF CacheNeverLow
  <2> QED BY <2>2, <2>3
<1>4. ASSUME NEW a \in Approvals, Finalize(a) PROVE High'
  <2>1. /\ UNCHANGED <<hcmBalance, filings, undo, dto, target, seen>>
        /\ \A c \in Requests \cup Refreshes : pc'[c] = pc[c]
        /\ reply' = [reply EXCEPT ![a] = NoAnswer]
    BY <1>4, TimeOffAssumption DEF Finalize, Goto, TypeOK, Calls, hcmVars, queueVars
  <2>2. SeenHigh' /\ RepliesHigh' /\ FilingsHigh' /\ UndoHigh'
    <3>1. SeenHigh' BY <2>1 DEF SeenHigh
    <3>2. RepliesHigh' BY <2>1 DEF RepliesHigh, NoAnswer
    <3>3. FilingsHigh' BY <2>1 DEF FilingsHigh, Filed
    <3>4. UndoHigh' BY <2>1 DEF UndoHigh
    <3> QED BY <3>1, <3>2, <3>3, <3>4
  <2>3. CacheNeverLow'
    <3>1. reply[a].kind = "filed" BY <1>4 DEF Finalize, IInv, CallsKnown, RepliesKnown
    <3>2. PairFor(a) \in Pairs /\ reply[a].balance >= hcmBalance[PairFor(a)]
      BY <3>1 DEF RepliesHigh
    <3>3. cache' = cache \/ cache' = [cache EXCEPT ![PairFor(a)] = reply[a].balance]
      BY <1>4 DEF Finalize
    <3> QED BY <2>1, <3>2, <3>3 DEF CacheNeverLow
  <2> QED BY <2>2, <2>3
<1>5. ASSUME NEW a \in Approvals, HcmFiles(a) PROVE High'
  <2> DEFINE p == PairFor(a)
             left == hcmBalance[p] - DaysFor(a)
  <2>1. a \in sent /\ p \in Pairs /\ DaysFor(a) \in Nat /\ left \in Int /\ left <= hcmBalance[p]
    BY <1>5, FilingTyped DEF HcmFiles, IInv, CallsKnown
  <2>2. target[a] \in Requests /\ pc[target[a]] # "idle"
    BY <2>1 DEF IInv, CallsKnown, MessagesKnown, CreationsKnown, TypeOK
  <2>3. /\ hcmBalance' = [hcmBalance EXCEPT ![p] = left]
        /\ filings' = [filings EXCEPT ![target[a]] = [txn |-> a, balance |-> left]]
        /\ UNCHANGED <<dto, target, pc, seen, cache, undo>>
        /\ \A b \in Approvals : reply'[b] = reply[b] \/ (b = a /\ reply'[b].balance = left)
    <3>1. Consume(a, [kind |-> "filed", txn |-> a, balance |-> left])
      BY <1>5 DEF HcmFiles
    <3> QED BY <1>5, <3>1, ConsumeAnswers DEF HcmFiles, FileTimeOff, Consume, rowVars, queueVars
  <2>4. /\ hcmBalance'[p] = left /\ hcmBalance'[p] <= hcmBalance[p]
        /\ \A q \in Pairs : hcmBalance'[q] \in Int /\ hcmBalance'[q] <= hcmBalance[q]
    BY <2>1, <2>3
  <2> HIDE DEF left
  <2>5. SeenHigh' BY <2>3, <2>4 DEF SeenHigh
  <2>6. RepliesHigh'
    <3> SUFFICES ASSUME NEW b \in Approvals, reply'[b].kind = "filed"
                 PROVE (reply[b].balance >= hcmBalance[PairFor(b)])'
      BY DEF RepliesHigh
    <3>1. PairFor(b)' = PairFor(b) BY <2>3 DEF PairFor
    <3>2. CASE reply'[b] = reply[b]
      BY <2>3, <2>4, <3>1, <3>2 DEF RepliesHigh, Replies
    <3>3. CASE b = a /\ reply'[b].balance = left
      BY <2>1, <2>4, <3>1, <3>3
    <3> QED BY <2>3, <3>2, <3>3
  <2>7. FilingsHigh'
    <3> SUFFICES ASSUME NEW r \in Requests, Filed(r)'
                 PROVE pc'[r] # "idle" /\ filings'[r].balance >= hcmBalance'[dto'[r].pair]
      BY DEF FilingsHigh
    <3>1. CASE r = target[a]
      <4>1. filings'[r].balance = left
        BY <2>2, <2>3, <3>1 DEF TypeOK, HcmTypeOK
      <4>2. dto'[r].pair = p BY <2>3, <3>1 DEF PairFor
      <4> QED BY <2>1, <2>2, <2>3, <2>4, <3>1, <4>1, <4>2
    <3>2. CASE r # target[a]
      <4>1. filings'[r] = filings[r] /\ Filed(r) /\ filings[r].balance \in Int
        BY <2>3, <3>2 DEF Filed, TypeOK, HcmTypeOK, Filings
      <4> QED BY <2>3, <2>4, <4>1 DEF FilingsHigh
    <3> QED BY <3>1, <3>2
  <2>8. CacheNeverLow' BY <2>3, <2>4, TimeOffAssumption DEF CacheNeverLow
  <2>9. UndoHigh' BY <2>3, <2>4, TimeOffAssumption DEF UndoHigh
  <2> QED BY <2>5, <2>6, <2>7, <2>8, <2>9
<1>6. ASSUME NEW a \in Approvals, HcmReplays(a) PROVE High'
  <2>1. /\ a \in sent /\ Filed(target[a]) /\ target[a] \in Requests
        /\ UNCHANGED <<hcmBalance, filings, dto, target, pc, seen, cache, undo>>
        /\ \A b \in Approvals :
             reply'[b] = reply[b] \/ (b = a /\ reply'[b].balance = filings[target[a]].balance)
    <3>1. Consume(a, [kind |-> "filed", txn |-> filings[target[a]].txn,
                      balance |-> filings[target[a]].balance])
      BY <1>6 DEF HcmReplays
    <3>2. a \in sent /\ Filed(target[a]) /\ target[a] \in Requests
      BY <1>6 DEF HcmReplays, IInv, CallsKnown, MessagesKnown, TypeOK
    <3>3. UNCHANGED <<hcmBalance, filings, dto, target, pc, seen, cache, undo>>
      BY <1>6 DEF HcmReplays, Consume, rowVars, hcmVars, queueVars
    <3> QED BY <3>1, <3>2, <3>3, ConsumeAnswers
  <2>2. SeenHigh' /\ FilingsHigh' /\ UndoHigh' /\ CacheNeverLow'
    BY <2>1 DEF SeenHigh, PairOf, FilingsHigh, Filed, UndoHigh, CacheNeverLow
  <2>3. RepliesHigh'
    BY <2>1 DEF RepliesHigh, FilingsHigh, PairFor
  <2> QED BY <2>2, <2>3
<1> QED BY <1>1, <1>2, <1>3, <1>4, <1>5, <1>6, StepKinds

\* upsertFromHcm, balances.service.ts 55-77, and the callers that save what they were told
\* (refreshes after a call, approvals after theirs): in whatever order
\* they do, and whatever a rolled back creation takes back of it, the cache is never below
\* the HCM.
THEOREM CacheIsNeverLow ==
  ASSUME PutBalances = {}
  PROVE  Init /\ CacheNeverLow /\ [][Next]_vars => []CacheNeverLow
<1>1. Init /\ CacheNeverLow => CInv
  BY InitIInv DEF Init, HcmInit, CInv, SeenHigh, RepliesHigh, FilingsHigh, UndoHigh, Filed, NoAnswer, Holding, Calls
<1>2. CInv /\ [Next]_vars => CInv'
  BY CInvStep, StepIInv DEF CInv
<1>3. CInv => CacheNeverLow BY DEF CInv
<1> QED BY <1>1, <1>2, <1>3, PTL

(***************************************************************************)
(* Days.                                                                   *)
(***************************************************************************)
LEMMA NoDays == DaysOver({}) = 0
<1> DEFINE f == [r \in {} |-> dto[r].days]
<1>1. DaysOver({}) = SumFunctionOnSet(f, {}) BY DEF DaysOver, SumFunction
<1> QED BY <1>1, SumOfNone

LEMMA DaysOfOne ==
  ASSUME NEW r, dto[r].days \in Int
  PROVE  DaysOver({r}) = dto[r].days
<1> DEFINE f == [s \in {r} |-> dto[s].days]
<1>1. DaysOver({r}) = SumFunctionOnSet(f, {} \cup {r}) BY DEF DaysOver, SumFunction
<1>2. f[r] = dto[r].days OBVIOUS
<1> HIDE DEF f
<1>3. SumFunctionOnSet(f, {} \cup {r}) = f[r] + SumFunctionOnSet(f, {})
  BY <1>2, FS_EmptySet, SumWith
<1> QED BY <1>1, <1>2, <1>3, SumOfNone

\* Apart from changes by hand, filing is what changes a balance.
LEMMA BalanceKinds ==
  ASSUME [Next]_vars
  PROVE  \/ UNCHANGED <<hcmBalance, filings>>
         \/ \E a \in Approvals : HcmFiles(a)
         \/ \E p \in Pairs, n \in PutBalances, v \in BOOLEAN : HcmChange(p, n, v)
<1> USE DEF hcmVars
<1>1. ASSUME NEW r \in Requests, NEW d \in Dtos, CreateStart(r, d) PROVE UNCHANGED <<hcmBalance, filings>>
  BY <1>1 DEF CreateStart
<1>2. ASSUME NEW r \in Requests, CreateStep(r) PROVE UNCHANGED <<hcmBalance, filings>>
  BY <1>2 DEF CreateStep, CreateReadBalance, CreateSumReserved, CreateSave
<1>3. ASSUME NEW f \in Refreshes, NEW p \in Pairs, RefreshStart(f, p) PROVE UNCHANGED <<hcmBalance, filings>>
  BY <1>3 DEF RefreshStart
<1>4. ASSUME NEW c \in Requests \cup Refreshes, RefreshStep(c) PROVE UNCHANGED <<hcmBalance, filings>>
  BY <1>4 DEF RefreshStep, FetchBalance, FetchFails, FindCached, SaveCached
<1>5. ASSUME NEW a \in Approvals, NEW r \in Requests, ApproveLock(a, r) \/ ApproveAnswered(a, r)
      PROVE UNCHANGED <<hcmBalance, filings>>
  BY <1>5 DEF ApproveLock, ApproveAnswered
<1>6. ASSUME NEW a \in Approvals, ApproveStep(a) \/ ReleaseFails(a) PROVE UNCHANGED <<hcmBalance, filings>>
  BY <1>6 DEF ApproveStep, CheckSufficient, CheckInsufficient, CheckFails, ApplyFails, ApplyAnswered,
              Finalize, Revert, ReleaseFails
<1>7. ASSUME NEW a \in Approvals, HcmReplays(a) \/ HcmRefuses(a) \/ HcmUnavailable(a)
      PROVE UNCHANGED <<hcmBalance, filings>>
  BY <1>7 DEF HcmReplays, HcmRefuses, HcmUnavailable
<1>8. ASSUME NEW r \in Requests, Reject(r) \/ Cancel(r) PROVE UNCHANGED <<hcmBalance, filings>>
  BY <1>8 DEF Reject, Cancel, Close
<1>9. ASSUME NEW f \in ForceValues, ForceChange(f) PROVE UNCHANGED <<hcmBalance, filings>>
  BY <1>9 DEF ForceChange, SetForce
<1>10. CASE Crash BY <1>10 DEF Crash
<1>11. CASE UNCHANGED vars BY <1>11 DEF vars
<1> QED BY <1>1, <1>2, <1>3, <1>4, <1>5, <1>6, <1>7, <1>8, <1>9, <1>10, <1>11 DEF Next, HcmStep

\* A filing deducts the days of the one request it files, from its pair.
LEMMA FilingDeducts ==
  ASSUME IInv, NEW a \in Approvals, HcmFiles(a), NEW p \in Pairs
  PROVE  hcmBalance'[p] = hcmBalance[p] - DaysOver(NewlyFiled(p))
<1> DEFINE r == target[a]
<1>1. /\ a \in sent /\ PairFor(a) \in Pairs /\ DaysFor(a) \in Nat
      /\ hcmBalance \in [Pairs -> Int] /\ r \in Requests
  <2>1. a \in sent BY DEF HcmFiles
  <2>2. pc[a] # "idle" BY <2>1 DEF IInv, CallsKnown, MessagesKnown
  <2> QED BY <2>1, <2>2, FilingTyped DEF IInv, CallsKnown, TypeOK, HcmTypeOK
<1>2. /\ filings[r] = NotFiled /\ filings'[r] # NotFiled
      /\ \A s \in Requests \ {r} : filings'[s] = filings[s]
      /\ hcmBalance' = [hcmBalance EXCEPT ![PairFor(a)] = @ - DaysFor(a)]
  <2> DEFINE filing == [txn |-> a, balance |-> hcmBalance[PairFor(a)] - DaysFor(a)]
  <2>1. hcmBalance[PairFor(a)] - DaysFor(a) \in Int BY <1>1
  <2>2. filing # NotFiled BY <2>1, HcmAssumption
  <2>3. filings \in [Requests -> Filings \cup {NotFiled}] BY DEF IInv, TypeOK, HcmTypeOK
  <2>4. FileTimeOff(r, PairFor(a), DaysFor(a), a) BY DEF HcmFiles
  <2>5. /\ filings[r] = NotFiled /\ filings' = [filings EXCEPT ![r] = filing]
        /\ hcmBalance' = [hcmBalance EXCEPT ![PairFor(a)] = @ - DaysFor(a)]
    BY <2>4 DEF FileTimeOff, Filed
  <2> HIDE DEF filing, r
  <2> QED BY <1>1, <2>2, <2>3, <2>5
<1>3. NewlyFiled(p) = IF p = PairFor(a) THEN {r} ELSE {}
  BY <1>1, <1>2 DEF NewlyFiled, PairFor, Filed
<1>4. CASE p = PairFor(a)
  <2>1. DaysOver({r}) = DaysFor(a) BY <1>1, DaysOfOne DEF DaysFor
  <2> HIDE DEF r
  <2> QED BY <1>1, <1>2, <1>3, <1>4, <2>1
<1>5. CASE p # PairFor(a)
  BY <1>1, <1>2, <1>3, <1>5, NoDays
<1> QED BY <1>4, <1>5

\* hcm.service.ts as the service meets it: the days of a request are deducted when
\* the HCM files it, once, and nothing else but a change by hand moves a balance.
THEOREM DaysAreDeductedOnce == Spec => DeductedOnce
<1> DEFINE Step == \/ \E p \in Pairs, n \in PutBalances, v \in BOOLEAN : HcmChange(p, n, v)
                   \/ \A p \in Pairs : hcmBalance'[p] = hcmBalance[p] - DaysOver(NewlyFiled(p))
<1>1. IInv /\ [Next]_vars => [Step]_vars
  <2> SUFFICES ASSUME IInv, [Next]_vars PROVE Step
    OBVIOUS
  <2>1. ASSUME UNCHANGED <<hcmBalance, filings>> PROVE Step
    <3> SUFFICES ASSUME NEW p \in Pairs PROVE hcmBalance'[p] = hcmBalance[p] - DaysOver(NewlyFiled(p))
      OBVIOUS
    <3>1. NewlyFiled(p) = {} BY <2>1 DEF NewlyFiled, Filed
    <3>2. hcmBalance[p] \in Int BY DEF IInv, TypeOK, HcmTypeOK
    <3> QED BY <2>1, <3>1, <3>2, NoDays
  <2>2. ASSUME NEW a \in Approvals, HcmFiles(a) PROVE Step
    BY <2>2, FilingDeducts
  <2> QED BY <2>1, <2>2, BalanceKinds
<1> QED BY <1>1, InvariantIInv, PTL DEF Spec, DeductedOnce

(***************************************************************************)
(* Reservations.  A creation that has passed its check holds the queue, so *)
(* nothing is reserved between the check and its insert.                   *)
(***************************************************************************)
ReservingFor(p) == {r \in Requests : Reserving(r) /\ dto[r].pair = p}

RowsFinite == IsFiniteSet({r \in Requests : Row(r)})
HoldsQueue == \A r \in Requests : pc[r] \in InTransaction => writer = r
Fits == \A r \in Requests : pc[r] = "saving" => Reserved(dto[r].pair) + dto[r].days <= seen[r]

RInv == IInv /\ RowsFinite /\ HoldsQueue /\ Fits

LEMMA RInvInit == Init => RInv
<1> SUFFICES ASSUME Init PROVE RInv
  OBVIOUS
<1>1. IInv BY InitIInv
<1>2. {r \in Requests : Row(r)} = {} BY DEF Init, Row
<1>3. RowsFinite BY <1>2, FS_EmptySet DEF RowsFinite
<1>4. HoldsQueue /\ Fits BY DEF Init, HoldsQueue, Fits, InTransaction, Calls
<1> QED BY <1>1, <1>3, <1>4 DEF RInv

LEMMA ReservedType ==
  ASSUME RInv, NEW p
  PROVE  /\ IsFiniteSet(ReservingFor(p)) /\ Reserved(p) \in Int
         /\ \A r \in ReservingFor(p) : Row(r) /\ dto[r].days \in Int
<1> DEFINE f == [r \in ReservingFor(p) |-> dto[r].days]
<1>1. \A r \in ReservingFor(p) : Row(r) BY DEF ReservingFor, Reserving, Row
<1>2. IsFiniteSet(ReservingFor(p)) BY <1>1, FS_Subset DEF RInv, RowsFinite, ReservingFor
<1>3. \A r \in ReservingFor(p) : dto[r].days \in Int
  <2> SUFFICES ASSUME NEW r \in ReservingFor(p) PROVE dto[r].days \in Int
    OBVIOUS
  <2>1. r \in Requests /\ pc[r] # "idle" BY <1>1 DEF ReservingFor, RInv, IInv, CallsKnown, CreationsKnown
  <2>2. dto[r] \in Dtos BY <2>1 DEF RInv, IInv, CallsKnown, CreationsKnown
  <2> QED BY <2>2, TimeOffAssumption
<1>4. Reserved(p) = SumFunctionOnSet(f, ReservingFor(p))
  BY DEF Reserved, DaysOver, SumFunction, ReservingFor
<1>5. \A r \in ReservingFor(p) : f[r] \in Int BY <1>3
<1> HIDE DEF f
<1> QED BY <1>1, <1>2, <1>3, <1>4, <1>5, SumType

\* Reservations are the same as long as requests and their statuses are.
LEMMA ReservedSame ==
  ASSUME RInv, UNCHANGED status, \A r \in Requests : Row(r) => dto'[r] = dto[r], NEW p
  PROVE  Reserved(p)' = Reserved(p)
<1>1. \A r \in Requests : Reserving(r) => dto'[r] = dto[r]
  BY DEF Reserving, Row
<1>2. ReservingFor(p)' = ReservingFor(p)
  BY <1>1 DEF ReservingFor, Reserving
<1>3. [r \in ReservingFor(p) |-> dto'[r].days] = [r \in ReservingFor(p) |-> dto[r].days]
  BY <1>1 DEF ReservingFor
<1> QED BY <1>2, <1>3 DEF Reserved, DaysOver, ReservingFor

(***************************************************************************)
(* What a step may do with the reservations.                               *)
(***************************************************************************)
\* Nobody passes the check, and who has passed it keeps what it has read.
Calm ==
  /\ UNCHANGED status
  /\ \A r \in Requests : Row(r) => dto'[r] = dto[r]
  /\ \A r \in Requests : pc'[r] \in InTransaction =>
       pc[r] = pc'[r] /\ writer' = writer /\ seen'[r] = seen[r] /\ dto'[r] = dto[r]

\* Statuses move while nobody is in a transaction of create.
Moving ==
  /\ QueueFree /\ UNCHANGED writer
  /\ \A r \in Requests : pc'[r] = pc[r] /\ (Row(r)' <=> Row(r))

LEMMA ReservationKinds ==
  ASSUME RInv, [Next]_vars
  PROVE  \/ Calm \/ Moving
         \/ \E r \in Requests : CreateReadBalance(r) \/ CreateSumReserved(r) \/ CreateSave(r)
<1>0. TypeOK /\ CreationsKnown /\ MessagesKnown /\ Requests \cap Approvals = {} /\ Requests \cap Refreshes = {}
  BY TimeOffAssumption DEF RInv, IInv, CallsKnown
<1> USE <1>0 DEF TypeOK, Goto, Calls, InTransaction, rowVars, callVars, queueVars
<1>1. ASSUME NEW r \in Requests, NEW d \in Dtos, CreateStart(r, d) PROVE Calm
  <2>1. ~Row(r) BY <1>1 DEF CreateStart, CreationsKnown
  <2> QED BY <1>1, <2>1 DEF CreateStart, Calm
<1>2. ASSUME NEW f \in Refreshes, NEW p \in Pairs, RefreshStart(f, p) PROVE Calm
  BY <1>2 DEF RefreshStart, Calm
<1>3. ASSUME NEW c \in Requests \cup Refreshes, RefreshStep(c) PROVE Calm
  BY <1>3 DEF RefreshStep, FetchBalance, FetchFails, FindCached, SaveCached, Calm
<1>4. ASSUME NEW a \in Approvals, NEW r \in Requests, ApproveLock(a, r) PROVE Moving
  BY <1>4 DEF ApproveLock, Moving, Row
<1>5. ASSUME NEW a \in Approvals, NEW r \in Requests, ApproveAnswered(a, r) PROVE Calm
  BY <1>5 DEF ApproveAnswered, Calm
<1>6. ASSUME NEW a \in Approvals,
             CheckSufficient(a) \/ CheckInsufficient(a) \/ CheckFails(a) \/ ApplyFails(a)
             \/ ApplyAnswered(a) \/ ReleaseFails(a)
      PROVE Calm
  BY <1>6 DEF CheckSufficient, CheckInsufficient, CheckFails, ApplyFails, ApplyAnswered, ReleaseFails,
              GiveUp, Calm
<1>7. ASSUME NEW a \in Approvals, Finalize(a) \/ Revert(a) PROVE Moving
  BY <1>7 DEF Finalize, Revert, HoldsLock, Moving, Row
<1>8. ASSUME NEW a \in Approvals, HcmStep(a) PROVE Calm
  BY <1>8 DEF HcmStep, HcmFiles, HcmReplays, HcmRefuses, HcmUnavailable, Consume, Calm
<1>9. ASSUME NEW r \in Requests, Reject(r) \/ Cancel(r) PROVE Moving
  BY <1>9 DEF Reject, Cancel, Close, Moving, Row
<1>10. ASSUME NEW p \in Pairs, NEW n \in PutBalances, NEW v \in BOOLEAN, HcmChange(p, n, v) PROVE Calm
  BY <1>10 DEF HcmChange, Calm
<1>11. ASSUME NEW f \in ForceValues, ForceChange(f) PROVE Calm
  BY <1>11 DEF ForceChange, Calm
<1>12. CASE Crash BY <1>12 DEF Crash, Active, Calm
<1>13. CASE UNCHANGED vars BY <1>13 DEF vars, Calm
<1>14. ASSUME NEW a \in Approvals, ApproveStep(a) \/ ReleaseFails(a) PROVE Calm \/ Moving
  BY <1>6, <1>7, <1>14 DEF ApproveStep
<1> QED
  BY <1>1, <1>2, <1>3, <1>4, <1>5, <1>8, <1>9, <1>10, <1>11, <1>12, <1>13, <1>14 DEF Next, CreateStep

\* Creating a request reserves its days for its pair.
LEMMA CreationReserves ==
  ASSUME RInv, NEW r \in Requests, CreateSave(r), Row(r)'
  PROVE  Reserved(dto[r].pair)' = Reserved(dto[r].pair) + dto[r].days
<1> DEFINE p == dto[r].pair
           R == ReservingFor(p)
           f == [s \in R |-> dto[s].days]
           g == [s \in R \cup {r} |-> dto[s].days]
<1>1. /\ pc[r] = "saving" /\ ~Row(r) /\ dto[r].days \in Int /\ status \in [Requests -> Statuses]
  <2>1. pc[r] = "saving" BY DEF CreateSave
  <2>2. dto[r] \in Dtos /\ ~Row(r) BY <2>1 DEF RInv, IInv, CallsKnown, CreationsKnown
  <2> QED BY <2>1, <2>2, TimeOffAssumption DEF RInv, IInv, TypeOK
<1>2. status' = [status EXCEPT ![r] = "PENDING"] /\ UNCHANGED dto
  BY <1>1 DEF CreateSave, Row
<1>3. r \notin R /\ ReservingFor(p)' = R \cup {r}
  BY <1>1, <1>2 DEF ReservingFor, Reserving, Row
<1>4. Reserved(p)' = SumFunctionOnSet(g, R \cup {r})
  BY <1>2, <1>3 DEF Reserved, DaysOver, SumFunction, ReservingFor
<1>5. Reserved(p) = SumFunctionOnSet(f, R)
  BY DEF Reserved, DaysOver, SumFunction, ReservingFor
<1>6. /\ IsFiniteSet(R) /\ Reserved(p) \in Int
      /\ \A s \in R : g[s] = f[s] /\ g[s] \in Int
      /\ g[r] = dto[r].days
  BY <1>1, ReservedType
<1> HIDE DEF p, R, f, g
<1>7. SumFunctionOnSet(g, R) = SumFunctionOnSet(f, R) BY <1>6, SumOfEquals
<1>8. SumFunctionOnSet(g, R \cup {r}) = g[r] + SumFunctionOnSet(g, R)
  BY <1>1, <1>3, <1>6, SumWith
<1>9. Reserved(p)' = Reserved(p) + dto[r].days BY <1>1, <1>4, <1>5, <1>6, <1>7, <1>8
<1> QED BY <1>2, <1>9 DEF p

LEMMA RInvStep == RInv /\ [Next]_vars => RInv'
<1> SUFFICES ASSUME RInv, [Next]_vars PROVE (RowsFinite /\ HoldsQueue /\ Fits)'
  BY StepIInv DEF RInv
<1> DEFINE Goal == RowsFinite /\ HoldsQueue /\ Fits
<1>0. TypeOK /\ Goal /\ Requests \cap Refreshes = {} BY TimeOffAssumption DEF RInv, IInv
<1>1. ASSUME Calm PROVE Goal'
  <2>1. RowsFinite' BY <1>0, <1>1 DEF Calm, RowsFinite, Row
  <2>2. HoldsQueue' BY <1>0, <1>1 DEF Calm, HoldsQueue, InTransaction
  <2>3. Fits'
    <3> SUFFICES ASSUME NEW r \in Requests, pc'[r] = "saving"
                 PROVE (Reserved(dto[r].pair) + dto[r].days <= seen[r])'
      BY DEF Fits
    <3>1. pc[r] = "saving" /\ seen'[r] = seen[r] /\ dto'[r] = dto[r]
      BY <1>1 DEF Calm, InTransaction
    <3>2. Reserved(dto[r].pair)' = Reserved(dto[r].pair)
      <4>1. \A p : Reserved(p)' = Reserved(p) BY <1>1, ReservedSame DEF Calm
      <4> QED BY <3>1, <4>1 DEF Reserved
    <3> QED BY <1>0, <3>1, <3>2 DEF Fits
  <2> QED BY <2>1, <2>2, <2>3
<1>2. ASSUME Moving PROVE Goal'
  <2>1. RowsFinite' BY <1>0, <1>2 DEF Moving, RowsFinite
  <2>2. \A r \in Requests : pc'[r] \notin InTransaction
    BY <1>0, <1>2, TimeOffAssumption DEF Moving, HoldsQueue, QueueFree
  <2> QED BY <2>1, <2>2 DEF HoldsQueue, Fits, InTransaction
<1>3. ASSUME NEW r \in Requests, CreateReadBalance(r) PROVE Goal'
  <2>1. /\ UNCHANGED status /\ \A s \in Requests \ {r} : pc'[s] = pc[s]
        /\ pc'[r] = "failed" \/ (pc'[r] = "summing" /\ writer' = r)
    BY <1>0, <1>3 DEF CreateReadBalance, Open, Goto, TypeOK, Calls, rowVars
  <2>2. \A s \in Requests : pc[s] \notin InTransaction
    BY <1>0, <1>3, TimeOffAssumption DEF CreateReadBalance, HoldsQueue, QueueFree
  <2>3. RowsFinite' BY <1>0, <2>1 DEF RowsFinite, Row
  <2> QED BY <2>1, <2>2, <2>3 DEF HoldsQueue, Fits, InTransaction
<1>4. ASSUME NEW r \in Requests, CreateSumReserved(r) PROVE Goal'
  <2>1. /\ UNCHANGED <<status, dto>> /\ pc[r] = "summing" /\ pc'[r] \in {"failed", "saving"}
        /\ \A s \in Requests \ {r} : pc'[s] = pc[s]
        /\ pc'[r] = "saving" => /\ ~(seen[r] - Reserved(dto[r].pair) < dto[r].days)
                                /\ UNCHANGED <<writer, seen>>
    BY <1>0, <1>4 DEF CreateSumReserved, Goto, TypeOK, Calls, rowVars, queueVars
  <2>2. \A s \in Requests \ {r} : pc'[s] \notin InTransaction
    BY <1>0, <2>1 DEF HoldsQueue, InTransaction
  <2>3. RowsFinite' BY <1>0, <2>1 DEF RowsFinite, Row
  <2>4. HoldsQueue' BY <1>0, <2>1, <2>2 DEF HoldsQueue, InTransaction
  <2>5. Fits'
    <3> SUFFICES ASSUME NEW s \in Requests, pc'[s] = "saving"
                 PROVE (Reserved(dto[s].pair) + dto[s].days <= seen[s])'
      BY DEF Fits
    <3>1. s = r BY <2>2 DEF InTransaction
    <3>2. Reserved(dto[r].pair)' = Reserved(dto[r].pair)
      <4>1. \A p : Reserved(p)' = Reserved(p) BY <2>1, ReservedSame
      <4> QED BY <2>1, <4>1 DEF Reserved
    <3>3. seen[r] \in Nat /\ Reserved(dto[r].pair) \in Int /\ dto[r].days \in Int
      <4>1. dto[r] \in Dtos BY <2>1 DEF RInv, IInv, CallsKnown, CreationsKnown
      <4> QED BY <1>0, <4>1, ReservedType, TimeOffAssumption DEF TypeOK
    <3>4. Reserved(dto[r].pair) + dto[r].days <= seen[r] BY <2>1, <3>1, <3>3
    <3> QED BY <2>1, <3>1, <3>2, <3>4
  <2> QED BY <2>3, <2>4, <2>5
<1>5. ASSUME NEW r \in Requests, CreateSave(r) PROVE Goal'
  <2>1. /\ pc[r] = "saving" /\ pc'[r] \notin InTransaction /\ \A s \in Requests \ {r} : pc'[s] = pc[s]
        /\ \A s \in Requests \ {r} : status'[s] = status[s]
    BY <1>0, <1>5 DEF CreateSave, Goto, TypeOK, Calls, InTransaction
  <2>2. \A s \in Requests : pc'[s] \notin InTransaction
    BY <1>0, <2>1 DEF HoldsQueue, InTransaction
  <2>3. RowsFinite'
    <3>1. {s \in Requests : Row(s)}' \subseteq {s \in Requests : Row(s)} \cup {r}
      BY <2>1 DEF Row
    <3>2. IsFiniteSet({s \in Requests : Row(s)} \cup {r}) BY <1>0, FS_AddElement DEF RowsFinite
    <3> QED BY <3>1, <3>2, FS_Subset DEF RowsFinite
  <2> QED BY <2>2, <2>3 DEF HoldsQueue, Fits, InTransaction
<1> HIDE DEF Goal
<1>6. Goal' BY <1>1, <1>2, <1>3, <1>4, <1>5, ReservationKinds, Zenon
<1> QED BY <1>6 DEF Goal

\* time-off-requests.service.ts, create: with a new request the reservations of its
\* pair still fit the cached balance its transaction read, however many creations race.
THEOREM ReservationsFit == Spec => ReservationFits
<1> DEFINE Step == \A r \in Requests : ~Row(r) /\ Row(r)' => Reserved(dto[r].pair)' <= seen[r]
<1>1. RInv /\ [Next]_vars => [Step]_vars
  <2> SUFFICES ASSUME RInv, [Next]_vars, NEW r \in Requests, ~Row(r), Row(r)'
               PROVE Reserved(dto[r].pair)' <= seen[r]
    OBVIOUS
  <2>1. PICK c \in Requests : CreateReadBalance(c) \/ CreateSumReserved(c) \/ CreateSave(c)
    <3>1. ~Calm BY DEF Calm, Row
    <3>2. ~Moving BY DEF Moving
    <3> QED BY <3>1, <3>2, ReservationKinds
  <2>2. CreateSave(c)
    BY <2>1 DEF CreateReadBalance, CreateSumReserved, rowVars, Row
  <2>3. c = r BY <2>2 DEF CreateSave, Row, RInv, IInv, TypeOK
  <2>4. Reserved(dto[r].pair)' = Reserved(dto[r].pair) + dto[r].days
    BY <2>2, <2>3, CreationReserves
  <2>5. Reserved(dto[r].pair) + dto[r].days <= seen[r]
    BY <2>2, <2>3 DEF CreateSave, RInv, Fits
  <2> QED BY <2>4, <2>5
<1>2. Spec => []RInv BY RInvInit, RInvStep, PTL DEF Spec
<1> QED BY <1>1, <1>2, PTL DEF Spec, ReservationFits
=============================================================================
