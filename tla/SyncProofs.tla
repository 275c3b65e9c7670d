----------------------------- MODULE SyncProofs -----------------------------
(***************************************************************************)
(* Batches use the write queue as it is meant to be used: the lookup       *)
(* inside its turn makes the unique index on the batch id idle, a batch is *)
(* applied as a whole or not at all, and what a call was answered stays    *)
(* true.  SortProofs says what sorting does to the rows of a batch.        *)
(***************************************************************************)
EXTENDS SortProofs, QueueProofs

LEMMA WorksAreCalls == /\ \A s \in Syncs : s \in Works
                       /\ \A w \in Writers : w \in Works
                       /\ \A s \in Syncs, w \in Writers : s # w
BY BatchSyncAssumption

\* A step of BatchSync is a step of the queue or leaves it alone.
LEMMA StepIsQueueStep == [Next]_vars => [QueueNext]_queueVars
<1> SUFFICES ASSUME [Next]_vars PROVE [QueueNext]_queueVars
  OBVIOUS
<1>1. ASSUME NEW s \in Syncs, NEW b \in Batches, Push(s, b) PROVE UNCHANGED queueVars
  BY <1>1 DEF Push
<1>2. ASSUME NEW s \in Syncs, NEW body \in Posts, Post(s, body) PROVE [QueueNext]_queueVars
  BY <1>2, WorksAreCalls DEF Post, Receive, QueueNext
<1>3. ASSUME NEW s \in Syncs, Arrive(s) PROVE [QueueNext]_queueVars
  BY <1>3, WorksAreCalls DEF Arrive, Receive, QueueNext
<1>4. ASSUME NEW s \in Syncs, SyncStep(s) PROVE [QueueNext]_queueVars
  <2>0. s \in Works /\ "fulfilled" \in Settled /\ "rejected" \in Settled
    BY WorksAreCalls DEF Settled
  <2>1. CASE SyncBegin(s) BY <2>0, <2>1 DEF SyncBegin, QueueNext
  <2>2. CASE SyncReplay(s) BY <2>0, <2>2 DEF SyncReplay, QueueNext
  <2>3. CASE SyncNew(s) BY <2>3 DEF SyncNew
  <2>4. CASE SyncFind(s) BY <2>4 DEF SyncFind
  <2>5. CASE SyncSave(s) BY <2>0, <2>5 DEF SyncSave, SyncFails, SyncSaves, QueueNext
  <2>6. CASE SyncCommit(s) BY <2>0, <2>6 DEF SyncCommit, SyncFails, SyncSucceeds, QueueNext
  <2> QED BY <1>4, <2>1, <2>2, <2>3, <2>4, <2>5, <2>6 DEF SyncStep
<1>5. ASSUME NEW w \in Writers, WriterArrive(w) PROVE [QueueNext]_queueVars
  BY <1>5, WorksAreCalls DEF WriterArrive, QueueNext
<1>6. ASSUME NEW w \in Writers, WriterStep(w) PROVE [QueueNext]_queueVars
  <2>0. w \in Works /\ "fulfilled" \in Settled /\ "rejected" \in Settled
    BY WorksAreCalls DEF Settled
  <2> QED BY <1>6, <2>0 DEF WriterStep, WriterBegin, WriterSaves, WriterRefused, QueueNext
<1>7. ASSUME NEW f \in Refreshes, NEW p \in Pairs, RefreshFetch(f, p) PROVE UNCHANGED queueVars
  BY <1>7 DEF RefreshFetch
<1>8. ASSUME NEW f \in Refreshes, RefreshStep(f) PROVE UNCHANGED queueVars
  BY <1>8 DEF RefreshStep, RefreshFind, RefreshSave
<1>9. ASSUME NEW p \in Pairs, NEW d \in Days, NEW force \in BOOLEAN, File(p, d, force) PROVE UNCHANGED queueVars
  BY <1>9 DEF File
<1>10. CASE Crash BY <1>10 DEF Crash, QueueNext
<1>11. CASE UNCHANGED vars BY <1>11 DEF vars
<1> QED BY <1>1, <1>2, <1>3, <1>4, <1>5, <1>6, <1>7, <1>8, <1>9, <1>10, <1>11 DEF Next

\* Batches and other transactions run one at a time and in the order of their calls.
THEOREM SyncsAreServedInOrder == Spec => FifoSpec
<1>1. Init => QueueInit BY DEF Init
<1>2. Spec => QueueSpec BY <1>1, StepIsQueueStep, PTL DEF Spec, QueueSpec
<1> QED BY <1>2, QueueIsFifo

(***************************************************************************)
(* A transaction that is past its lookup found no record of its batch id,  *)
(* and finds none later, for nothing else runs until it ends.              *)
(***************************************************************************)
Shape ==
  /\ batch \in [Syncs -> Batches \cup {NoBatch}]
  /\ answer \in [Syncs -> Ended \cup {"none"}]
  /\ step \in [Syncs -> Saving \cup {"looking"}]
  /\ events = [b \in Batches |-> events[b]]

Named == \A s \in Syncs : stage[s] # "idle" \/ rows[s] # <<>> => batch[s] # NoBatch

Unrecorded ==
  \A s \in Syncs : step[s] # "looking" => stage[s] = "running" /\ events[batch[s]] = NoEvent

SyncInv == QueueInv /\ Shape /\ Named /\ Unrecorded

LEMMA SyncInvInit == Init => SyncInv
<1> SUFFICES ASSUME Init PROVE SyncInv
  OBVIOUS
<1>1. QueueInv BY QueueInvInit DEF Init
<1>2. Shape BY DEF Init, Shape
<1>3. Named BY WorksAreCalls DEF Init, QueueInit, Named
<1>4. Unrecorded BY DEF Init, Unrecorded
<1> QED BY <1>1, <1>2, <1>3, <1>4 DEF SyncInv

\* Whoever else moves leaves the calls of batches and their records alone.
Others == UNCHANGED <<callVars, events>> /\ \A s \in Syncs : stage'[s] = stage[s]

LEMMA StepCases ==
  ASSUME SyncInv, [Next]_vars
  PROVE  \/ \E s \in Syncs, b \in Batches : Push(s, b)
         \/ \E s \in Syncs, body \in Posts : Post(s, body)
         \/ \E s \in Syncs : Arrive(s)
         \/ \E s \in Syncs : SyncStep(s)
         \/ Crash
         \/ Others
<1>1. ASSUME NEW w \in Writers, WriterArrive(w) PROVE Others
  BY <1>1, WorksAreCalls DEF WriterArrive, Submit, Others, SyncInv, QueueInv, QueueTypeOK
<1>2. ASSUME NEW w \in Writers, WriterStep(w) PROVE Others
  BY <1>2, WorksAreCalls
     DEF WriterStep, WriterBegin, WriterSaves, WriterRefused, Begin, Settle, Others,
         SyncInv, QueueInv, QueueTypeOK
<1>3. ASSUME NEW f \in Refreshes, NEW p \in Pairs, RefreshFetch(f, p) PROVE Others
  BY <1>3 DEF RefreshFetch, Others, queueVars
<1>4. ASSUME NEW f \in Refreshes, RefreshStep(f) PROVE Others
  BY <1>4 DEF RefreshStep, RefreshFind, RefreshSave, Others, queueVars
<1>5. ASSUME NEW p \in Pairs, NEW d \in Days, NEW force \in BOOLEAN, File(p, d, force) PROVE Others
  BY <1>5 DEF File, Others, queueVars
<1>6. CASE UNCHANGED vars BY <1>6 DEF vars, Others, queueVars
<1> QED BY <1>1, <1>2, <1>3, <1>4, <1>5, <1>6 DEF Next

LEMMA ShapeStep == SyncInv /\ [Next]_vars => Shape'
<1> SUFFICES ASSUME SyncInv, [Next]_vars PROVE Shape'
  OBVIOUS
<1> USE DEF SyncInv, Shape, Ended, Saving
<1>1. ASSUME NEW s \in Syncs, NEW b \in Batches, Push(s, b) PROVE Shape'
  BY <1>1 DEF Push
<1>2. ASSUME NEW s \in Syncs, NEW body \in Posts, Post(s, body) PROVE Shape'
  <2>1. body.batch \in Batches BY BatchSyncAssumption
  <2> QED BY <1>2, <2>1 DEF Post, Receive
<1>3. ASSUME NEW s \in Syncs, Arrive(s) PROVE Shape'
  BY <1>3 DEF Arrive, Receive
<1>4. ASSUME NEW s \in Syncs, SyncStep(s) PROVE Shape'
  <2>1. CASE SyncBegin(s) BY <2>1 DEF SyncBegin, callVars
  <2>2. CASE SyncReplay(s) BY <2>2 DEF SyncReplay, Answer
  <2>3. CASE SyncNew(s) BY <2>3 DEF SyncNew, Goto
  <2>4. CASE SyncFind(s) BY <2>4 DEF SyncFind, Goto
  <2>5. CASE SyncSave(s) BY <2>5 DEF SyncSave, SyncFails, SyncSaves, Goto, Answer
  <2>6. CASE SyncCommit(s) BY <2>6 DEF SyncCommit, SyncFails, SyncSucceeds, Goto, Answer
  <2> QED BY <1>4, <2>1, <2>2, <2>3, <2>4, <2>5, <2>6 DEF SyncStep
<1>5. CASE Crash BY <1>5 DEF Crash
<1>6. CASE Others BY <1>6 DEF Others, callVars
<1> QED BY <1>1, <1>2, <1>3, <1>4, <1>5, <1>6, StepCases

LEMMA NamedStep == SyncInv /\ [Next]_vars => Named'
<1> SUFFICES ASSUME SyncInv, [Next]_vars PROVE Named'
  OBVIOUS
<1> USE WorksAreCalls DEF SyncInv, Shape, Named, QueueInv, QueueTypeOK
<1>0. NoBatch \notin Batches BY BatchSyncAssumption
<1>1. ASSUME NEW s \in Syncs, NEW b \in Batches, Push(s, b) PROVE Named'
  BY <1>0, <1>1 DEF Push, queueVars
<1>2. ASSUME NEW s \in Syncs, NEW body \in Posts, Post(s, body) PROVE Named'
  <2>1. body.batch \in Batches BY BatchSyncAssumption
  <2>2. \A t \in Syncs \ {s} : stage'[t] = stage[t] /\ rows'[t] = rows[t] /\ batch'[t] = batch[t]
    BY <1>2 DEF Post, Receive, Submit, queueVars
  <2>3. batch'[s] # NoBatch BY <1>0, <1>2, <2>1 DEF Post
  <2> QED BY <2>2, <2>3
<1>3. ASSUME NEW s \in Syncs, Arrive(s) PROVE Named'
  BY <1>3 DEF Arrive, Receive, Submit, queueVars
<1>4. ASSUME NEW s \in Syncs, SyncStep(s) PROVE Named'
  <2>1. UNCHANGED <<batch, rows>> /\ \A t \in Syncs : stage'[t] # "idle" => stage[t] # "idle"
    BY <1>4 DEF SyncStep, SyncBegin, SyncReplay, SyncNew, SyncFind, SyncSave, SyncCommit,
                SyncFails, SyncSaves, SyncSucceeds, Begin, Settle, callVars, queueVars
  <2> QED BY <2>1
<1>5. CASE Crash
  BY <1>5 DEF Crash, Stop
<1>6. CASE Others BY <1>6 DEF Others, callVars
<1> QED BY <1>1, <1>2, <1>3, <1>4, <1>5, <1>6, StepCases

\* Records are written by the transaction that runs, and it is the only one.
LEMMA UnrecordedStep == SyncInv /\ [Next]_vars => Unrecorded'
<1> SUFFICES ASSUME SyncInv, [Next]_vars PROVE Unrecorded'
  OBVIOUS
<1> USE WorksAreCalls DEF SyncInv, Shape, Named, Unrecorded, QueueInv, QueueTypeOK
<1>1. ASSUME NEW s \in Syncs, NEW b \in Batches, Push(s, b) PROVE Unrecorded'
  BY <1>1 DEF Push, queueVars
<1>2. ASSUME NEW s \in Syncs, NEW body \in Posts, Post(s, body) PROVE Unrecorded'
  <2>1. stage[s] = "idle" BY <1>2 DEF Post
  <2>2. \A t \in Syncs \ {s} : stage'[t] = stage[t] /\ batch'[t] = batch[t]
    BY <1>2 DEF Post, Receive, Submit, queueVars
  <2>3. UNCHANGED <<step, events>> BY <1>2 DEF Post
  <2> QED BY <2>1, <2>2, <2>3
<1>3. ASSUME NEW s \in Syncs, Arrive(s) PROVE Unrecorded'
  BY <1>3 DEF Arrive, Receive, Submit, queueVars
<1>4. ASSUME NEW s \in Syncs, SyncStep(s) PROVE Unrecorded'
  <2>0. \A t \in Syncs : stage[s] = "running" /\ stage[t] = "running" => s = t
    BY OneRuns
  <2>1. CASE SyncBegin(s)
    BY <2>1 DEF SyncBegin, Begin, callVars
  <2>2. CASE SyncReplay(s)
    BY <2>0, <2>2 DEF SyncReplay, Settle
  <2>3. CASE SyncNew(s)
    BY <2>3 DEF SyncNew, Goto, queueVars
  <2>4. CASE SyncFind(s)
    BY <2>4 DEF SyncFind, Goto, queueVars
  <2>5. CASE SyncSave(s)
    <3>1. step[s] # "looking" /\ stage[s] = "running" BY <2>5 DEF SyncSave
    <3>2. CASE SyncFails(s)
      BY <2>0, <2>5, <3>1, <3>2 DEF SyncSave, SyncFails, Goto, Settle
    <3>3. ASSUME NEW p, NEW n, SyncSaves(s, p, n) PROVE Unrecorded'
      BY <2>5, <3>1, <3>3 DEF SyncSave, SyncSaves, Goto, queueVars
    <3> QED BY <2>5, <3>2, <3>3 DEF SyncSave
  <2>6. CASE SyncCommit(s)
    <3>1. step[s] # "looking" /\ stage[s] = "running" BY <2>6 DEF SyncCommit
    <3>2. \A t \in Syncs \ {s} : step[t] = "looking" BY <2>0, <3>1
    <3>3. step' = [step EXCEPT ![s] = "looking"]
      BY <2>6 DEF SyncCommit, SyncFails, SyncSucceeds, Goto
    <3> QED BY <3>2, <3>3
  <2> QED BY <1>4, <2>1, <2>2, <2>3, <2>4, <2>5, <2>6 DEF SyncStep
<1>5. CASE Crash BY <1>5 DEF Crash
<1>6. CASE Others BY <1>6 DEF Others, callVars
<1> QED BY <1>1, <1>2, <1>3, <1>4, <1>5, <1>6, StepCases

LEMMA SyncInvStep == SyncInv /\ [Next]_vars => SyncInv'
BY StepIsQueueStep, QueueInvStep, ShapeStep, NamedStep, UnrecordedStep DEF SyncInv

\* sync.service.ts: a call whose batch id is on record is answered from the record;
\* it never fails in the unique index, nor otherwise.
THEOREM ReplaysAreAnswered == Spec => ReplayIsAnswered
<1> DEFINE Step == \A s \in Syncs : answer[s] = "none" /\ answer'[s] = "error" => events[batch[s]] = NoEvent
<1>1. SyncInv /\ [Next]_vars => Step
  <2> SUFFICES ASSUME SyncInv, [Next]_vars, NEW s \in Syncs, answer[s] = "none", answer'[s] = "error"
               PROVE events[batch[s]] = NoEvent
    OBVIOUS
  <2> USE DEF SyncInv, Shape, Ended
  <2>1. ~\E t \in Syncs, b \in Batches : Push(t, b) BY DEF Push
  <2>2. ~\E t \in Syncs, body \in Posts : Post(t, body) BY DEF Post, Receive
  <2>3. ~\E t \in Syncs : Arrive(t) BY DEF Arrive, Receive
  <2>4. ~Crash BY DEF Crash
  <2>5. ~Others BY DEF Others, callVars
  <2>6. PICK t \in Syncs : SyncStep(t) BY <2>1, <2>2, <2>3, <2>4, <2>5, StepCases
  <2>7. CASE SyncSave(t) \/ SyncCommit(t)
    <3>1. step[t] # "looking" /\ t = s
      BY <2>7 DEF SyncSave, SyncCommit, SyncFails, SyncSaves, SyncSucceeds, Answer
    <3> QED BY <3>1 DEF Unrecorded
  <2>8. CASE SyncBegin(t) \/ SyncReplay(t) \/ SyncNew(t) \/ SyncFind(t)
    BY <2>8 DEF SyncBegin, SyncReplay, SyncNew, SyncFind, Answer, callVars
  <2> QED BY <2>6, <2>7, <2>8 DEF SyncStep
<1>2. Spec => []SyncInv BY SyncInvInit, SyncInvStep, PTL DEF Spec
<1>3. SyncInv /\ [Next]_vars => [Step]_vars BY <1>1
<1> QED BY <1>2, <1>3, PTL DEF Spec, ReplayIsAnswered

LEMMA SyncInvAlways == Spec => []SyncInv
BY SyncInvInit, SyncInvStep, PTL DEF Spec

(***************************************************************************)
(* Types.  A body that got to the queue parses as a whole; the row that is *)
(* saved next exists; a refresh between its call and its save has a pair   *)
(* and an amount that parses; the cache to go back to is kept as long as   *)
(* somebody runs.                                                          *)
(***************************************************************************)
Parses(records) == \A i \in DOMAIN records : records[i].balance \in Readable

Parsed == \A s \in Syncs : stage[s] # "idle" => Parses(rows[s])

Progress ==
  \A s \in Syncs :
    /\ step[s] = "looking" => saved[s] = 0
    /\ step[s] = "finding" => saved[s] <= Len(rows[s])
    /\ step[s] \in {"inserting", "updating"} => saved[s] < Len(rows[s])

Reading ==
  \A f \in Refreshes : pc[f] \in Saving => target[f] \in Pairs /\ seen[f] \in Readable

ValidPairs == {p \in Pairs : official[p] # NoRow}

SomeRuns == \E w \in Works : stage[w] = "running"
Undoable == undo # NoUndo <=> SomeRuns

RowsInv == rows \in [Syncs -> Seq(Record)] /\ Parsed
SavedInv == saved \in [Syncs -> Nat] /\ Progress
OfficialInv == official \in [Pairs -> Int \cup {NoRow}] /\ IsFiniteSet(ValidPairs)
RefreshInv ==
  /\ pc \in [Refreshes -> Saving \cup {"idle", "saved", "failed", "dead"}]
  /\ target \in [Refreshes -> Pairs \cup {NoPair}]
  /\ seen \in [Refreshes -> Nat]
  /\ Reading
EventsInv == events \in [Batches -> Seq(Record) \cup {NoEvent}]
CacheInv == cache \in Caches /\ undo \in Caches \cup {NoUndo} /\ Undoable

TypeInv ==
  SyncInv /\ RowsInv /\ SavedInv /\ OfficialInv /\ RefreshInv /\ EventsInv /\ CacheInv

LEMMA TypeInvIsTypeOK == TypeInv => TypeOK
BY DEF TypeInv, TypeOK, SyncInv, QueueInv, Shape, RowsInv, SavedInv, OfficialInv, RefreshInv,
       EventsInv, CacheInv

LEMMA TypeInvInit == Init => TypeInv
<1> SUFFICES ASSUME Init PROVE TypeInv
  OBVIOUS
<1> USE DEF Init
<1>1. SyncInv BY SyncInvInit
<1>2. RowsInv
  <2>1. <<>> \in Seq(Record) OBVIOUS
  <2>2. \A s \in Syncs : stage[s] = "idle" BY WorksAreCalls DEF QueueInit
  <2> QED BY <2>1, <2>2 DEF RowsInv, Parsed
<1>3. SavedInv BY DEF SavedInv, Progress
<1>4. OfficialInv BY BatchSyncAssumption DEF OfficialInv, ValidPairs
<1>5. RefreshInv BY DEF RefreshInv, Reading, Saving
<1>6. EventsInv BY DEF EventsInv
<1>7. CacheInv
  <2>1. cache \in Caches BY DEF Caches
  <2>2. ~SomeRuns BY DEF QueueInit, SomeRuns
  <2> QED BY <2>1, <2>2 DEF CacheInv, Undoable
<1> QED BY <1>1, <1>2, <1>3, <1>4, <1>5, <1>6, <1>7 DEF TypeInv

\* What a call says and that it parses changes at most with the call.
LEMMA RowsCases ==
  ASSUME SyncInv, [Next]_vars
  PROVE  \/ \E s \in Syncs, b \in Batches : Push(s, b)
         \/ \E s \in Syncs, body \in Posts : Post(s, body)
         \/ \E s \in Syncs : Arrive(s)
         \/ UNCHANGED <<batch, rows>> /\ \A s \in Syncs : stage'[s] # "idle" => stage[s] # "idle"
<1> DEFINE Kept == UNCHANGED <<batch, rows>> /\ \A s \in Syncs : stage'[s] # "idle" => stage[s] # "idle"
<1> USE WorksAreCalls DEF SyncInv, QueueInv, QueueTypeOK
<1>1. ASSUME NEW s \in Syncs, SyncStep(s) PROVE Kept
  BY <1>1 DEF SyncStep, SyncBegin, SyncReplay, SyncNew, SyncFind, SyncSave, SyncCommit,
              SyncFails, SyncSaves, SyncSucceeds, Begin, Settle, callVars, queueVars
<1>2. CASE Crash BY <1>2 DEF Crash, Stop
<1>3. CASE Others BY <1>3 DEF Others, callVars
<1> QED BY <1>1, <1>2, <1>3, StepCases

LEMMA ReceiveParses ==
  ASSUME QueueTypeOK, NEW s \in Syncs, NEW records, Receive(s, records)
  PROVE  /\ \A t \in Syncs \ {s} : stage'[t] = stage[t]
         /\ stage'[s] # "idle" => stage[s] # "idle" \/ Parses(records)
<1>1. CASE \E i \in DOMAIN records : records[i].balance \notin Readable
  <2>1. stage' = stage BY <1>1 DEF Receive, queueVars
  <2> QED BY <2>1
<1>2. CASE ~\E i \in DOMAIN records : records[i].balance \notin Readable
  <2>1. stage' = [stage EXCEPT ![s] = "waiting"] BY <1>2 DEF Receive, Submit
  <2>2. \A t \in Syncs \ {s} : stage'[t] = stage[t] BY <2>1, WorksAreCalls DEF QueueTypeOK
  <2> QED BY <1>2, <2>2 DEF Parses
<1> QED BY <1>1, <1>2

LEMMA RowsStep == TypeInv /\ [Next]_vars => RowsInv'
<1> SUFFICES ASSUME TypeInv, [Next]_vars PROVE RowsInv'
  OBVIOUS
<1>0. SyncInv /\ QueueTypeOK /\ OfficialInv BY DEF TypeInv, SyncInv, QueueInv
<1>r. /\ rows \in [Syncs -> Seq(Record)]
      /\ \A s \in Syncs : stage[s] # "idle" => Parses(rows[s])
  BY DEF TypeInv, RowsInv, Parsed
<1>1. ASSUME NEW s \in Syncs, NEW b \in Batches, Push(s, b) PROVE RowsInv'
  <2>1. AllValid \in Seq(Record) BY <1>0, PushedRows DEF OfficialInv, ValidPairs
  <2>2. rows' = [rows EXCEPT ![s] = AllValid] /\ stage' = stage BY <1>1 DEF Push, queueVars
  <2>3. stage[s] = "idle" BY <1>0, <1>1 DEF Push, SyncInv, Named
  <2> QED BY <2>1, <2>2, <1>r, <2>3 DEF RowsInv, Parsed
<1>2. ASSUME NEW s \in Syncs, NEW body \in Posts, Post(s, body) PROVE RowsInv'
  <2>1. body.rows \in Seq(Record) BY BatchSyncAssumption
  <2>2. rows' = [rows EXCEPT ![s] = body.rows] BY <1>2 DEF Post
  <2>3. /\ \A t \in Syncs \ {s} : stage'[t] = stage[t]
        /\ stage'[s] # "idle" => stage[s] # "idle" \/ Parses(body.rows)
    BY <1>0, <1>2, ReceiveParses DEF Post
  <2>4. stage[s] = "idle" BY <1>0, <1>2 DEF Post, SyncInv, Named
  <2> QED BY <2>1, <2>2, <2>3, <2>4, <1>r DEF RowsInv, Parsed
<1>3. ASSUME NEW s \in Syncs, Arrive(s) PROVE RowsInv'
  <2>1. /\ \A t \in Syncs \ {s} : stage'[t] = stage[t]
        /\ stage'[s] # "idle" => stage[s] # "idle" \/ Parses(rows[s])
    BY <1>0, <1>3, ReceiveParses DEF Arrive
  <2>2. rows' = rows BY <1>3 DEF Arrive
  <2> QED BY <2>1, <2>2, <1>r DEF RowsInv, Parsed
<1>4. CASE UNCHANGED <<batch, rows>> /\ \A s \in Syncs : stage'[s] # "idle" => stage[s] # "idle"
  BY <1>4, <1>r DEF RowsInv, Parsed, Parses
<1> QED BY <1>0, <1>1, <1>2, <1>3, <1>4, RowsCases

LEMMA SavedStep == TypeInv /\ [Next]_vars => SavedInv'
<1> SUFFICES ASSUME TypeInv, [Next]_vars PROVE SavedInv'
  OBVIOUS
<1>0. SyncInv BY DEF TypeInv
<1>1. /\ saved \in [Syncs -> Nat] /\ step \in [Syncs -> Saving \cup {"looking"}]
      /\ Progress /\ Unrecorded /\ Named
      /\ \A s \in Syncs : Len(rows[s]) \in Nat
  BY <1>0 DEF TypeInv, SavedInv, RowsInv, SyncInv, Shape
<1>2. ASSUME NEW s \in Syncs, NEW records, batch[s] = NoBatch, rows' = [rows EXCEPT ![s] = records],
             UNCHANGED <<step, saved>>
      PROVE  SavedInv'
  <2>1. step[s] = "looking" BY <1>1, <1>2 DEF Unrecorded, Named
  <2> QED BY <1>1, <1>2, <2>1 DEF SavedInv, Progress
<1>3. ASSUME NEW s \in Syncs, NEW b \in Batches, Push(s, b) PROVE SavedInv'
  <2>1. batch[s] = NoBatch /\ rows' = [rows EXCEPT ![s] = AllValid] /\ UNCHANGED <<step, saved>>
    BY <1>3 DEF Push
  <2> QED BY <1>2, <2>1
<1>4. ASSUME NEW s \in Syncs, NEW body \in Posts, Post(s, body) PROVE SavedInv'
  <2>1. batch[s] = NoBatch /\ rows' = [rows EXCEPT ![s] = body.rows] /\ UNCHANGED <<step, saved>>
    BY <1>4 DEF Post
  <2> QED BY <1>2, <2>1
<1>5. CASE UNCHANGED <<rows, step, saved>> BY <1>1, <1>5 DEF SavedInv, Progress
<1>6. ASSUME NEW s \in Syncs, Arrive(s) PROVE SavedInv'
  BY <1>5, <1>6 DEF Arrive
<1>7. ASSUME NEW s \in Syncs, SyncStep(s) PROVE SavedInv'
  <2>0. rows' = rows
    BY <1>7 DEF SyncStep, SyncBegin, SyncReplay, SyncNew, SyncFind, SyncSave, SyncCommit, callVars
  <2>1. CASE SyncBegin(s) \/ SyncReplay(s)
    BY <1>5, <2>0, <2>1 DEF SyncBegin, SyncReplay, callVars
  <2>2. CASE SyncNew(s)
    BY <1>1, <2>0, <2>2 DEF SyncNew, Goto, SavedInv, Progress
  <2>3. CASE SyncFind(s)
    BY <1>1, <2>0, <2>3 DEF SyncFind, Goto, SavedInv, Progress
  <2>4. CASE step' = [step EXCEPT ![s] = "looking"] /\ saved' = [saved EXCEPT ![s] = 0]
    BY <1>1, <2>0, <2>4 DEF SavedInv, Progress
  <2>5. ASSUME NEW p, NEW n, SyncSaves(s, p, n), step[s] \in {"inserting", "updating"} PROVE SavedInv'
    <3>1. step' = [step EXCEPT ![s] = "finding"] /\ saved' = [saved EXCEPT ![s] = saved[s] + 1]
      BY <2>5 DEF SyncSaves, Goto
    <3>2. saved[s] + 1 \in Nat /\ saved[s] + 1 <= Len(rows[s]) BY <1>1, <2>5 DEF Progress
    <3> QED BY <1>1, <2>0, <3>1, <3>2 DEF SavedInv, Progress
  <2>6. CASE SyncSave(s)
    BY <2>4, <2>5, <2>6 DEF SyncSave, SyncFails, Goto
  <2>7. CASE SyncCommit(s)
    BY <2>4, <2>7 DEF SyncCommit, SyncFails, SyncSucceeds, Goto
  <2> QED BY <1>7, <2>1, <2>2, <2>3, <2>6, <2>7 DEF SyncStep
<1>8. CASE Crash BY <1>8 DEF Crash, SavedInv, Progress
<1>9. CASE Others BY <1>5, <1>9 DEF Others, callVars
<1> QED BY <1>0, <1>3, <1>4, <1>6, <1>7, <1>8, <1>9, StepCases

LEMMA OfficialStep == TypeInv /\ [Next]_vars => OfficialInv'
<1> SUFFICES ASSUME TypeInv, [Next]_vars PROVE OfficialInv'
  OBVIOUS
<1>0. OfficialInv BY DEF TypeInv
<1>1. CASE official' = official BY <1>0, <1>1 DEF OfficialInv, ValidPairs
<1>2. ASSUME NEW p \in Pairs, NEW d \in Days, NEW force \in BOOLEAN, File(p, d, force) PROVE OfficialInv'
  <2>1. /\ official[p] \in Int /\ official[p] - d \in Int /\ official[p] - d # NoRow
        /\ official' = [official EXCEPT ![p] = official[p] - d]
    BY <1>0, <1>2, BatchSyncAssumption DEF File, OfficialInv
  <2>2. ValidPairs' = ValidPairs BY <1>0, <1>2, <2>1 DEF ValidPairs, OfficialInv, File
  <2> QED BY <1>0, <2>1, <2>2 DEF OfficialInv
<1>3. ASSUME NEW s \in Syncs, SyncStep(s) PROVE official' = official
  BY <1>3 DEF SyncStep, SyncBegin, SyncReplay, SyncNew, SyncFind, SyncSave, SyncCommit
<1>4. ASSUME NEW w \in Writers, WriterStep(w) PROVE official' = official
  BY <1>4 DEF WriterStep, WriterBegin, WriterSaves, WriterRefused
<1>5. ASSUME NEW f \in Refreshes, RefreshStep(f) PROVE official' = official
  BY <1>5 DEF RefreshStep, RefreshFind, RefreshSave
<1> QED BY <1>1, <1>2, <1>3, <1>4, <1>5
        DEF Next, Push, Post, Arrive, WriterArrive, RefreshFetch, Crash, vars

LEMMA ReadingStep == TypeInv /\ [Next]_vars => RefreshInv'
<1> SUFFICES ASSUME TypeInv, [Next]_vars PROVE RefreshInv'
  OBVIOUS
<1>0. RefreshInv /\ official \in [Pairs -> Int \cup {NoRow}] BY DEF TypeInv, OfficialInv
<1>1. CASE UNCHANGED refreshVars BY <1>0, <1>1 DEF RefreshInv, Reading, refreshVars
<1>2. ASSUME NEW f \in Refreshes, NEW p \in Pairs, RefreshFetch(f, p) PROVE RefreshInv'
  <2>1. CASE official[p] \notin Readable
    BY <1>0, <1>2, <2>1 DEF RefreshFetch, RefreshInv, Reading, Saving
  <2>2. CASE official[p] \in Readable
    BY <1>0, <1>2, <2>2 DEF RefreshFetch, RefreshInv, Reading, Saving, Readable
  <2> QED BY <2>1, <2>2
<1>3. ASSUME NEW f \in Refreshes, RefreshStep(f) PROVE RefreshInv'
  <2>1. CASE RefreshFind(f) BY <1>0, <2>1 DEF RefreshFind, RefreshInv, Reading, Saving
  <2>2. CASE RefreshSave(f) BY <1>0, <2>2 DEF RefreshSave, RefreshInv, Reading, Saving
  <2> QED BY <1>3, <2>1, <2>2 DEF RefreshStep
<1>4. CASE Crash BY <1>0, <1>4 DEF Crash, RefreshInv, Reading, Saving
<1>5. ASSUME NEW s \in Syncs, SyncStep(s) PROVE UNCHANGED refreshVars
  BY <1>5 DEF SyncStep, SyncBegin, SyncReplay, SyncNew, SyncFind, SyncSave, SyncCommit
<1>6. ASSUME NEW w \in Writers, WriterStep(w) PROVE UNCHANGED refreshVars
  BY <1>6 DEF WriterStep, WriterBegin, WriterSaves, WriterRefused
<1> QED BY <1>1, <1>2, <1>3, <1>4, <1>5, <1>6
        DEF Next, Push, Post, Arrive, WriterArrive, File, vars

\* A record of a batch is written once, by the call that is answered "applied".
LEMMA EventsCases ==
  ASSUME SyncInv, [Next]_vars
  PROVE  \/ events' = events
         \/ \E s \in Syncs : SyncCommit(s) /\ SyncSucceeds(s) /\ events[batch[s]] = NoEvent
<1>1. ASSUME NEW s \in Syncs, SyncStep(s), events' # events
      PROVE  SyncCommit(s) /\ SyncSucceeds(s) /\ events[batch[s]] = NoEvent
  <2>1. SyncCommit(s)
    BY <1>1 DEF SyncStep, SyncBegin, SyncReplay, SyncNew, SyncFind, SyncSave, SyncFails, SyncSaves
  <2>2. ~SyncFails(s) BY <1>1 DEF SyncFails
  <2> QED BY <2>1, <2>2 DEF SyncCommit
<1> QED BY <1>1, StepCases DEF Push, Post, Arrive, Crash, Others

LEMMA EventsStep == TypeInv /\ [Next]_vars => EventsInv'
<1> SUFFICES ASSUME TypeInv, [Next]_vars PROVE EventsInv'
  OBVIOUS
<1>0. SyncInv /\ EventsInv /\ rows \in [Syncs -> Seq(Record)] BY DEF TypeInv, RowsInv
<1>1. ASSUME NEW s \in Syncs, SyncSucceeds(s) PROVE EventsInv'
  <2>1. Normalized(s) \in Seq(Record) BY <1>0, SortedTyped DEF Normalized
  <2> QED BY <1>0, <1>1, <2>1 DEF SyncSucceeds, EventsInv
<1> QED BY <1>0, <1>1, EventsCases DEF EventsInv

\* The row a transaction is at.
LEMMA CurrentRow ==
  ASSUME TypeInv, NEW s \in Syncs, stage[s] = "running", saved[s] < Len(rows[s])
  PROVE  /\ Current(s) \in Range(rows[s])
         /\ Current(s) \in Record /\ Current(s).balance \in Readable
<1>1. rows[s] \in Seq(Record) /\ Parses(rows[s]) /\ saved[s] \in Nat
  BY DEF TypeInv, RowsInv, Parsed, SavedInv
<1>2. saved[s] + 1 \in DOMAIN rows[s]
  <2>1. DOMAIN rows[s] = 1..Len(rows[s]) /\ Len(rows[s]) \in Nat BY <1>1, RowsTyped
  <2> QED BY <1>1, <2>1
<1>3. Current(s) \in Range(rows[s])
  <2>1. DOMAIN Sorted(rows[s]) = DOMAIN rows[s] /\ Range(Sorted(rows[s])) = Range(rows[s])
    BY <1>1, SortedTyped
  <2> QED BY <1>2, <2>1 DEF Current, Normalized, Range
<1>4. PICK i \in DOMAIN rows[s] : Current(s) = rows[s][i] BY <1>3 DEF Range
<1>5. Current(s) \in Record BY <1>1, <1>4, RowsTyped
<1> QED BY <1>1, <1>3, <1>4, <1>5 DEF Parses

\* Who runs, after a step of the queue.
LEMMA RunsAfterBegin ==
  ASSUME QueueInv, NEW w \in Works, Begin(w)
  PROVE  ~SomeRuns /\ SomeRuns'
<1>1. ~SomeRuns BY BeginsAlone DEF SomeRuns
<1>2. stage'[w] = "running" BY DEF Begin, QueueInv, QueueTypeOK
<1> QED BY <1>1, <1>2 DEF SomeRuns

LEMMA RunsAfterSettle ==
  ASSUME QueueInv, NEW w \in Works, NEW how \in Settled, Settle(w, how)
  PROVE  SomeRuns /\ ~SomeRuns'
<1>1. /\ stage[w] = "running" /\ stage'[w] = how /\ how # "running"
      /\ \A v \in Works \ {w} : stage'[v] = stage[v]
  BY DEF Settle, QueueInv, QueueTypeOK, Settled
<1>2. \A v \in Works \ {w} : stage[v] # "running" BY <1>1, OneRuns
<1> QED BY <1>1, <1>2 DEF SomeRuns

LEMMA RunsAfterSubmit ==
  ASSUME QueueInv, NEW w \in Works, Submit(w)
  PROVE  SomeRuns' <=> SomeRuns
<1>1. /\ stage[w] # "running" /\ stage'[w] # "running"
      /\ \A v \in Works \ {w} : stage'[v] = stage[v]
  BY DEF Submit, QueueInv, QueueTypeOK
<1> QED BY <1>1 DEF SomeRuns

(***************************************************************************)
(* What a step does to the cache.  Calls and refreshes touch it only in    *)
(* these ways, each of which the invariants below are checked against.     *)
(***************************************************************************)
Lookups == UNCHANGED <<cache, undo>> /\ (SomeRuns' <=> SomeRuns)
Begins == undo' = cache /\ UNCHANGED cache /\ ~SomeRuns /\ SomeRuns'
Undoes == Rollback /\ SomeRuns /\ ~SomeRuns'
Commits == Commit /\ UNCHANGED cache /\ SomeRuns /\ ~SomeRuns'

CacheMoves == Lookups \/ Begins \/ Undoes

\* A call is answered that its batch is on record, as it has been or from now on.
Accepts(s) ==
  /\ stage[s] = "running"
  /\ (events[batch[s]] # NoEvent /\ events[batch[s]] = Normalized(s) /\ events' = events) \/ SyncSucceeds(s)

LEMMA CacheCases ==
  ASSUME TypeInv, [Next]_vars
  PROVE  \/ CacheMoves
         \/ \E s \in Syncs : Accepts(s) /\ Commits
         \/ \E s \in Syncs : SyncSave(s) /\ SyncSaves(s, Current(s).pair, Current(s).balance)
         \/ \E w \in Writers, p \in Pairs, n \in Answers : WriterSaves(w, p, n)
         \/ \E f \in Refreshes : RefreshSave(f)
<1>0. SyncInv /\ QueueInv /\ CacheInv BY DEF TypeInv, SyncInv
<1>1. \A how \in {"fulfilled", "rejected"} : how \in Settled BY DEF Settled
<1> USE WorksAreCalls
<1>2. ASSUME UNCHANGED <<stage, cache, undo>> PROVE CacheMoves
  BY <1>2 DEF Lookups, SomeRuns, CacheMoves
<1>3. ASSUME NEW w \in Works, Submit(w) \/ UNCHANGED queueVars, UNCHANGED <<cache, undo>> PROVE CacheMoves
  BY <1>0, <1>3, RunsAfterSubmit DEF Lookups, SomeRuns, CacheMoves, queueVars
<1>4. ASSUME NEW s \in Syncs, SyncStep(s)
      PROVE  \/ CacheMoves
             \/ Accepts(s) /\ Commits
             \/ SyncSave(s) /\ SyncSaves(s, Current(s).pair, Current(s).balance)
  <2>1. CASE SyncBegin(s) BY <1>0, <2>1, RunsAfterBegin DEF SyncBegin, Begins, CacheMoves
  <2>2. CASE SyncReplay(s)
    BY <1>0, <1>1, <2>2, RunsAfterSettle DEF SyncReplay, Accepts, Undoes, Commits, CacheMoves
  <2>3. CASE SyncNew(s) BY <1>2, <2>3 DEF SyncNew, queueVars
  <2>4. CASE SyncFind(s) BY <1>2, <2>4 DEF SyncFind, queueVars
  <2>5. ASSUME SyncFails(s) PROVE Undoes
    BY <1>0, <1>1, <2>5, RunsAfterSettle DEF SyncFails, Undoes
  <2>6. ASSUME SyncSucceeds(s) PROVE Accepts(s) /\ Commits
    BY <1>0, <1>1, <2>6, RunsAfterSettle DEF SyncSucceeds, Accepts, Settle, Commits
  <2> QED BY <1>4, <2>1, <2>2, <2>3, <2>4, <2>5, <2>6 DEF SyncStep, SyncSave, SyncCommit, CacheMoves
<1>5. ASSUME NEW w \in Writers, WriterStep(w)
      PROVE  CacheMoves \/ \E p \in Pairs, n \in Answers : WriterSaves(w, p, n)
  <2>1. CASE WriterBegin(w) BY <1>0, <2>1, RunsAfterBegin DEF WriterBegin, Begins, CacheMoves
  <2>2. CASE WriterRefused(w)
    BY <1>0, <1>1, <2>2, RunsAfterSettle DEF WriterRefused, Undoes, CacheMoves
  <2> QED BY <1>5, <2>1, <2>2 DEF WriterStep
<1>6. CASE Crash
  <2>1. ~SomeRuns' BY <1>0, <1>6 DEF Crash, Stop, SomeRuns, QueueInv, QueueTypeOK
  <2>2. CASE undo = NoUndo
    BY <1>0, <1>6, <2>1, <2>2 DEF Crash, CacheInv, Undoable, Lookups, CacheMoves
  <2>3. CASE undo # NoUndo
    BY <1>0, <1>6, <2>1, <2>3 DEF Crash, CacheInv, Undoable, Undoes, CacheMoves
  <2> QED BY <2>2, <2>3
<1>7. ASSUME NEW s \in Syncs, NEW b \in Batches, Push(s, b) PROVE CacheMoves
  BY <1>3, <1>7 DEF Push
<1>8. ASSUME NEW s \in Syncs, NEW body \in Posts, Post(s, body) PROVE CacheMoves
  BY <1>3, <1>8 DEF Post, Receive
<1>9. ASSUME NEW s \in Syncs, Arrive(s) PROVE CacheMoves
  BY <1>3, <1>9 DEF Arrive, Receive
<1>10. ASSUME NEW w \in Writers, WriterArrive(w) PROVE CacheMoves
  BY <1>3, <1>10 DEF WriterArrive
<1>11. ASSUME NEW f \in Refreshes, NEW p \in Pairs, RefreshFetch(f, p) PROVE CacheMoves
  BY <1>2, <1>11 DEF RefreshFetch, queueVars
<1>12. ASSUME NEW f \in Refreshes, RefreshFind(f) PROVE CacheMoves
  BY <1>2, <1>12 DEF RefreshFind, queueVars
<1>13. ASSUME NEW p \in Pairs, NEW d \in Days, NEW force \in BOOLEAN, File(p, d, force) PROVE CacheMoves
  BY <1>2, <1>13 DEF File, queueVars
<1>14. CASE UNCHANGED vars BY <1>2, <1>14 DEF vars, queueVars
<1> HIDE WorksAreCalls
<1> QED BY <1>4, <1>5, <1>6, <1>7, <1>8, <1>9, <1>10, <1>11, <1>12, <1>13, <1>14
        DEF Next, RefreshStep

LEMMA CacheStep == TypeInv /\ [Next]_vars => CacheInv'
<1> SUFFICES ASSUME TypeInv, [Next]_vars PROVE CacheInv'
  OBVIOUS
<1>0. /\ SyncInv /\ QueueInv
      /\ cache \in Caches /\ undo \in Caches \cup {NoUndo} /\ (undo # NoUndo <=> SomeRuns)
      /\ NoUndo \notin Caches
  BY BatchSyncAssumption DEF TypeInv, SyncInv, CacheInv, Undoable
<1>1. ASSUME NEW p \in Pairs, NEW n \in Readable, NEW who \in {"REALTIME", "BATCH"}
      PROVE  [cache EXCEPT ![p] = [balance |-> n, source |-> who]] \in Caches
  <2>1. [balance |-> n, source |-> who] \in Row BY DEF Row
  <2> QED BY <1>0, <2>1 DEF Caches
<1>2. CASE CacheMoves
  BY <1>0, <1>2 DEF CacheMoves, Lookups, Begins, Undoes, Rollback, CacheInv, Undoable
<1>3. CASE Commits
  BY <1>0, <1>3 DEF Commits, Commit, CacheInv, Undoable
<1>4. ASSUME NEW s \in Syncs, SyncSave(s), SyncSaves(s, Current(s).pair, Current(s).balance)
      PROVE  CacheInv'
  <2>1. Current(s).pair \in Pairs /\ Current(s).balance \in Readable
    <3>1. stage[s] = "running" /\ saved[s] < Len(rows[s])
      BY <1>4 DEF SyncSave, TypeInv, SavedInv, Progress
    <3> QED BY <3>1, CurrentRow DEF Record
  <2>2. /\ cache' = [cache EXCEPT ![Current(s).pair] = [balance |-> Current(s).balance, source |-> "BATCH"]]
        /\ undo' = undo /\ stage' = stage
    BY <1>4 DEF SyncSaves, queueVars
  <2> QED BY <1>0, <1>1, <2>1, <2>2 DEF CacheInv, Undoable, SomeRuns
<1>5. ASSUME NEW w \in Writers, NEW p \in Pairs, NEW n \in Answers, WriterSaves(w, p, n)
      PROVE  CacheInv'
  <2>1. n \in Readable BY BatchSyncAssumption
  <2>2. /\ cache' = [cache EXCEPT ![p] = [balance |-> n, source |-> "REALTIME"]]
        /\ undo' = NoUndo
    BY <1>5 DEF WriterSaves, Commit
  <2>3. ~SomeRuns'
    BY <1>0, <1>5, RunsAfterSettle, WorksAreCalls DEF WriterSaves, Settled
  <2> QED BY <1>0, <1>1, <2>1, <2>2, <2>3 DEF CacheInv, Undoable
<1>6. ASSUME NEW f \in Refreshes, RefreshSave(f) PROVE CacheInv'
  <2>1. target[f] \in Pairs /\ seen[f] \in Readable
    BY <1>6 DEF RefreshSave, TypeInv, RefreshInv, Reading, Saving
  <2>2. /\ \/ cache' = cache
           \/ cache' = [cache EXCEPT ![target[f]] = [balance |-> seen[f], source |-> "REALTIME"]]
        /\ undo' = undo /\ stage' = stage
    BY <1>6 DEF RefreshSave, queueVars
  <2> QED BY <1>0, <1>1, <2>1, <2>2 DEF CacheInv, Undoable, SomeRuns
<1> QED BY <1>2, <1>3, <1>4, <1>5, <1>6, CacheCases

LEMMA TypeInvAlways == Spec => []TypeInv
<1>1. TypeInv /\ [Next]_vars => TypeInv'
  BY SyncInvStep, RowsStep, SavedStep, OfficialStep, ReadingStep, EventsStep, CacheStep DEF TypeInv
<1> QED BY <1>1, TypeInvInit, PTL DEF Spec

\* Every variable keeps its type; the row of a batch that a transaction stands at
\* is always there; and although forced filings take official balances below zero, and
\* batches and refreshes meet such amounts, none that is not read gets into the cache.
THEOREM SyncTypes == Spec => []TypeOK
BY TypeInvAlways, TypeInvIsTypeOK, PTL

(***************************************************************************)
(* Atomicity.  As long as nobody runs, every row of a batch in the cache   *)
(* belongs to a batch on record; so do those of the cache to go back to.   *)
(***************************************************************************)
OnRecord(row) ==
  \E b \in Batches : events[b] # NoEvent /\ Names(events[b], row.pair, row.balance)
InFlight(row) ==
  \E s \in Syncs : stage[s] = "running" /\ Names(rows[s], row.pair, row.balance)

\* The rows of batches in a cache.
BatchRows(rowsOf) ==
  {[pair |-> p, balance |-> rowsOf[p].balance] :
     p \in {q \in Pairs : rowsOf[q] # NoRow /\ rowsOf[q].source = "BATCH"}}

UndoOnRecord == undo # NoUndo => \A row \in BatchRows(undo) : OnRecord(row)

LEMMA AtomicIs ==
  ASSUME BatchIsAtomic, NEW row \in BatchRows(cache)
  PROVE  OnRecord(row) \/ InFlight(row)
<1>1. PICK p \in Pairs : /\ cache[p] # NoRow /\ cache[p].source = "BATCH"
                         /\ row = [pair |-> p, balance |-> cache[p].balance]
  BY DEF BatchRows
<1>2. row.pair = p /\ row.balance = cache[p].balance BY <1>1
<1>3. \/ \E b \in Batches : events[b] # NoEvent /\ Names(events[b], p, cache[p].balance)
      \/ \E s \in Syncs : stage[s] = "running" /\ Names(rows[s], p, cache[p].balance)
  BY <1>1 DEF BatchIsAtomic
<1> QED BY <1>2, <1>3 DEF OnRecord, InFlight

LEMMA AtomicBecomes ==
  ASSUME \A row \in BatchRows(cache') : OnRecord(row)' \/ InFlight(row)'
  PROVE  BatchIsAtomic'
<1> SUFFICES ASSUME NEW p \in Pairs, cache'[p] # NoRow, cache'[p].source = "BATCH"
             PROVE  \/ \E b \in Batches : events'[b] # NoEvent /\ Names(events'[b], p, cache'[p].balance)
                    \/ \E s \in Syncs : stage'[s] = "running" /\ Names(rows'[s], p, cache'[p].balance)
  BY DEF BatchIsAtomic
<1>1. PICK row \in BatchRows(cache') : row = [pair |-> p, balance |-> cache'[p].balance]
  BY DEF BatchRows
<1>2. row.pair = p /\ row.balance = cache'[p].balance BY <1>1
<1>3. OnRecord(row)' \/ InFlight(row)' BY <1>1
<1> QED BY <1>2, <1>3 DEF OnRecord, InFlight

\* What one saved row adds to them.
LEMMA SavedBatchRow ==
  ASSUME cache \in Caches, NEW p \in Pairs, NEW n,
         cache' = [cache EXCEPT ![p] = [balance |-> n, source |-> "BATCH"]]
  PROVE  BatchRows(cache') \subseteq BatchRows(cache) \cup {[pair |-> p, balance |-> n]}
<1>1. \A q \in Pairs \ {p} : cache'[q] = cache[q] BY DEF Caches
<1>2. cache'[p].balance = n BY DEF Caches
<1> QED BY <1>1, <1>2 DEF BatchRows

LEMMA SavedOtherRow ==
  ASSUME cache \in Caches, NEW p \in Pairs, NEW n,
         cache' = [cache EXCEPT ![p] = [balance |-> n, source |-> "REALTIME"]]
  PROVE  BatchRows(cache') \subseteq BatchRows(cache)
<1>1. \A q \in Pairs \ {p} : cache'[q] = cache[q] BY DEF Caches
<1>2. cache'[p].source = "REALTIME" BY DEF Caches
<1> QED BY <1>1, <1>2 DEF BatchRows

\* Records last, and a transaction that goes on still has its rows.
LEMMA RecordsLast ==
  ASSUME TypeInv, [Next]_vars, NEW row, OnRecord(row)
  PROVE  OnRecord(row)'
<1>0. SyncInv /\ EventsInv BY DEF TypeInv
<1>1. CASE events' = events BY <1>1 DEF OnRecord, Names
<1>2. ASSUME NEW s \in Syncs, SyncSucceeds(s), events[batch[s]] = NoEvent PROVE OnRecord(row)'
  <2>1. PICK b \in Batches : events[b] # NoEvent /\ Names(events[b], row.pair, row.balance) BY DEF OnRecord
  <2>2. events'[b] = events[b] BY <1>0, <1>2, <2>1 DEF SyncSucceeds, EventsInv
  <2> QED BY <2>1, <2>2 DEF OnRecord, Names
<1> QED BY <1>0, <1>1, <1>2, EventsCases

LEMMA RowsLast ==
  ASSUME SyncInv, [Next]_vars, NEW s \in Syncs, batch[s] # NoBatch
  PROVE  batch'[s] = batch[s] /\ rows'[s] = rows[s]
<1>1. batch \in [Syncs -> Batches \cup {NoBatch}] BY DEF SyncInv, Shape
<1>2. ASSUME NEW t \in Syncs, t # s, NEW b, NEW records,
             batch' = [batch EXCEPT ![t] = b], rows' = [rows EXCEPT ![t] = records]
      PROVE  batch'[s] = batch[s] /\ rows'[s] = rows[s]
  BY <1>1, <1>2
<1> QED BY <1>2, RowsCases DEF Push, Post, Arrive

LEMMA RunningLasts ==
  ASSUME SyncInv, [Next]_vars, SomeRuns', NEW s \in Syncs, stage[s] = "running"
  PROVE  stage'[s] = "running" /\ rows'[s] = rows[s]
<1> USE DEF SyncInv, QueueInv, QueueTypeOK
<1>0. s \in Works BY WorksAreCalls
<1>1. stage'[s] = "running"
  <2>1. CASE UNCHANGED queueVars BY <2>1 DEF queueVars
  <2>2. ASSUME NEW w \in Works, Submit(w) PROVE stage'[s] = "running" BY <1>0, <2>2 DEF Submit
  <2>3. ASSUME NEW w \in Works, Begin(w) PROVE FALSE BY <1>0, <2>3, BeginsAlone
  <2>4. ASSUME NEW w \in Works, NEW how \in Settled, Settle(w, how) PROVE FALSE
    BY <2>4, RunsAfterSettle
  <2>5. CASE Stop BY <1>0, <2>5 DEF Stop, SomeRuns
  <2> QED BY <2>1, <2>2, <2>3, <2>4, <2>5, StepIsQueueStep DEF QueueNext
<1>2. batch[s] # NoBatch BY DEF Named
<1> QED BY <1>1, <1>2, RowsLast

\* A call that is accepted has its rows on record.
LEMMA AcceptedOnRecord ==
  ASSUME TypeInv, NEW s \in Syncs, Accepts(s)
  PROVE  /\ batch[s] \in Batches
         /\ events'[batch[s]] = Normalized(s) /\ Normalized(s) # NoEvent
         /\ \A row : Names(rows[s], row.pair, row.balance) => OnRecord(row)'
<1>1. batch[s] \in Batches /\ rows[s] \in Seq(Record) /\ EventsInv
  BY DEF TypeInv, SyncInv, Shape, Named, RowsInv, Accepts
<1>2. Normalized(s) \in Seq(Record) /\ Range(Normalized(s)) = Range(rows[s])
  BY <1>1, SortedTyped DEF Normalized
<1>3. Normalized(s) # NoEvent BY <1>2, BatchSyncAssumption
<1>4. events'[batch[s]] = Normalized(s)
  BY <1>1 DEF Accepts, SyncSucceeds, EventsInv
<1> QED BY <1>1, <1>2, <1>3, <1>4 DEF OnRecord, Names

LEMMA AtomicInit == Init => BatchIsAtomic /\ UndoOnRecord
BY DEF Init, BatchIsAtomic, UndoOnRecord

LEMMA AtomicStep ==
  ASSUME TypeInv, BatchIsAtomic, UndoOnRecord, [Next]_vars
  PROVE  BatchIsAtomic' /\ UndoOnRecord'
<1>0. /\ SyncInv /\ QueueInv /\ cache \in Caches /\ undo \in Caches \cup {NoUndo}
      /\ (undo # NoUndo <=> SomeRuns)
  BY DEF TypeInv, SyncInv, CacheInv, Undoable
<1>1. \A row \in BatchRows(cache) : OnRecord(row) \/ InFlight(row)
  BY AtomicIs
<1>2. \A row : InFlight(row) => SomeRuns BY WorksAreCalls DEF InFlight, SomeRuns
<1>3. \A row : InFlight(row) /\ SomeRuns' => InFlight(row)'
  <2>1. \A s \in Syncs : stage[s] = "running" /\ SomeRuns' => stage'[s] = "running" /\ rows'[s] = rows[s]
    BY <1>0, RunningLasts
  <2> QED BY <2>1 DEF InFlight, Names
<1>4. \A row : OnRecord(row) => OnRecord(row)' BY RecordsLast
<1>5. ASSUME undo' = undo \/ undo' = NoUndo PROVE UndoOnRecord'
  BY <1>4, <1>5 DEF UndoOnRecord
<1>6. ASSUME BatchRows(cache') \subseteq BatchRows(cache), \A row : InFlight(row) => InFlight(row)'
      PROVE  BatchIsAtomic'
  BY <1>1, <1>4, <1>6, AtomicBecomes
<1>7. CASE Lookups
  <2>1. cache' = cache /\ undo' = undo /\ (SomeRuns' <=> SomeRuns) BY <1>7 DEF Lookups
  <2>2. BatchRows(cache') \subseteq BatchRows(cache) BY <2>1
  <2> QED BY <1>2, <1>3, <1>5, <1>6, <2>1, <2>2
<1>8. CASE Begins
  <2>1. cache' = cache /\ undo' = cache /\ ~SomeRuns BY <1>8 DEF Begins
  <2>2. \A row \in BatchRows(cache) : OnRecord(row)' BY <1>1, <1>2, <1>4, <2>1
  <2> QED BY <2>1, <2>2, AtomicBecomes DEF UndoOnRecord
<1>9. CASE Undoes
  <2>1. cache' = undo /\ undo' = NoUndo /\ undo # NoUndo BY <1>0, <1>9 DEF Undoes, Rollback
  <2>2. \A row \in BatchRows(undo) : OnRecord(row)' BY <1>4, <2>1 DEF UndoOnRecord
  <2> QED BY <1>5, <2>1, <2>2, AtomicBecomes
<1>10. ASSUME NEW s \in Syncs, Accepts(s), Commits PROVE BatchIsAtomic' /\ UndoOnRecord'
  <2>1. cache' = cache /\ undo' = NoUndo BY <1>10 DEF Commits, Commit
  <2>2. \A t \in Syncs : stage[t] = "running" => t = s
    BY <1>0, <1>10, OneRuns, WorksAreCalls DEF Accepts
  <2>3. \A row : InFlight(row) => OnRecord(row)'
    BY <1>10, <2>2, AcceptedOnRecord DEF InFlight
  <2> QED BY <1>1, <1>4, <1>5, <2>1, <2>3, AtomicBecomes
<1>11. ASSUME NEW s \in Syncs, SyncSave(s), SyncSaves(s, Current(s).pair, Current(s).balance)
       PROVE  BatchIsAtomic' /\ UndoOnRecord'
  <2>1. stage[s] = "running" /\ saved[s] < Len(rows[s])
    BY <1>11 DEF SyncSave, TypeInv, SavedInv, Progress
  <2>2. Current(s) \in Range(rows[s]) /\ Current(s) \in Record BY <2>1, CurrentRow
  <2>3. /\ stage' = stage /\ rows' = rows /\ undo' = undo
        /\ cache' = [cache EXCEPT ![Current(s).pair] = [balance |-> Current(s).balance, source |-> "BATCH"]]
    BY <1>11 DEF SyncSave, SyncSaves, queueVars
  <2> DEFINE new == [pair |-> Current(s).pair, balance |-> Current(s).balance]
  <2>4. Current(s).pair \in Pairs BY <2>2 DEF Record
  <2>5. BatchRows(cache') \subseteq BatchRows(cache) \cup {new}
    BY <1>0, <2>3, <2>4, SavedBatchRow
  <2>6. InFlight(new) BY <2>1, <2>2 DEF InFlight, Names
  <2>7. \A row : InFlight(row) => InFlight(row)' BY <2>3 DEF InFlight, Names
  <2> HIDE DEF new
  <2>8. \A row \in BatchRows(cache') : OnRecord(row)' \/ InFlight(row)'
    BY <1>1, <1>4, <2>5, <2>6, <2>7
  <2> QED BY <1>5, <2>3, <2>8, AtomicBecomes
<1>12. ASSUME NEW w \in Writers, NEW p \in Pairs, NEW n \in Answers, WriterSaves(w, p, n)
       PROVE  BatchIsAtomic' /\ UndoOnRecord'
  <2>1. \A row : ~InFlight(row)
    BY <1>0, <1>12, OneRuns, WorksAreCalls DEF InFlight, WriterSaves, Settle
  <2>2. /\ cache' = [cache EXCEPT ![p] = [balance |-> n, source |-> "REALTIME"]]
        /\ undo' = NoUndo
    BY <1>12 DEF WriterSaves, Commit
  <2>3. BatchRows(cache') \subseteq BatchRows(cache) BY <1>0, <2>2, SavedOtherRow
  <2> QED BY <1>5, <1>6, <2>1, <2>2, <2>3
<1>13. ASSUME NEW f \in Refreshes, RefreshSave(f) PROVE BatchIsAtomic' /\ UndoOnRecord'
  <2>1. target[f] \in Pairs
    BY <1>13 DEF RefreshSave, TypeInv, RefreshInv, Reading, Saving
  <2>2. UNCHANGED <<stage, rows, undo>> BY <1>13 DEF RefreshSave, queueVars, callVars
  <2>3. \A row : InFlight(row) => InFlight(row)' BY <2>2 DEF InFlight, Names
  <2>4. BatchRows(cache') \subseteq BatchRows(cache)
    <3>1. CASE cache' = cache BY <3>1
    <3>2. CASE cache' # cache BY <1>0, <1>13, <2>1, <3>2, SavedOtherRow DEF RefreshSave
    <3> QED BY <3>1, <3>2
  <2> QED BY <1>5, <1>6, <2>2, <2>3, <2>4
<1> QED BY <1>7, <1>8, <1>9, <1>10, <1>11, <1>12, <1>13, CacheCases DEF CacheMoves

\* sync.service.ts: a balance that comes from a batch is on record with the whole of
\* that batch or in the hands of the transaction now open, whatever was refused,
\* failed, rolled back or cut off by a crash before.
THEOREM BatchesAreAtomic == Spec => []BatchIsAtomic
<1>1. TypeInv /\ BatchIsAtomic /\ UndoOnRecord /\ [Next]_vars => BatchIsAtomic' /\ UndoOnRecord'
  BY AtomicStep
<1> QED BY <1>1, AtomicInit, TypeInvAlways, PTL DEF Spec

(***************************************************************************)
(* The official balances only fall, so that whatever was once read of one  *)
(* covers it from then on: in the rows of a batch on its way, in a refresh *)
(* between its call and its save, in the cache to go back to.              *)
(***************************************************************************)
Covers(p, n) == official[p] # NoRow => n >= official[p]
CoversAll(balances) == \A p \in Pairs : balances[p] # NoRow => Covers(p, balances[p].balance)

RowsCover == \A s \in Syncs : \A row \in Range(rows[s]) : Covers(row.pair, row.balance)
SeenCovers == \A f \in Refreshes : pc[f] \in Saving => Covers(target[f], seen[f])
UndoCovers == undo # NoUndo => CoversAll(undo)

LEMMA CacheCovers == CacheNeverLow <=> CoversAll(cache)
BY DEF CacheNeverLow, NotLow, CoversAll, Covers

LEMMA OfficialFalls ==
  ASSUME TypeInv, [Next]_vars, NEW p \in Pairs, NEW n \in Int, Covers(p, n)
  PROVE  Covers(p, n)'
<1>0. official \in [Pairs -> Int \cup {NoRow}] BY DEF TypeInv, OfficialInv
<1>1. CASE official' = official BY <1>1 DEF Covers
<1>2. ASSUME NEW q \in Pairs, NEW d \in Days, NEW force \in BOOLEAN, File(q, d, force) PROVE Covers(p, n)'
  <2>1. d \in Nat BY BatchSyncAssumption
  <2>2. CASE q # p BY <1>0, <1>2, <2>2 DEF File, Covers
  <2>3. CASE q = p
    <3>1. official[p] \in Int /\ official'[p] = official[p] - d /\ n >= official[p]
      BY <1>0, <1>2, <2>3 DEF File, Covers
    <3>2. n >= official[p] - d BY <2>1, <3>1
    <3> QED BY <3>1, <3>2 DEF Covers
  <2> QED BY <2>2, <2>3
<1>3. ASSUME NEW s \in Syncs, SyncStep(s) PROVE official' = official
  BY <1>3 DEF SyncStep, SyncBegin, SyncReplay, SyncNew, SyncFind, SyncSave, SyncCommit
<1>4. ASSUME NEW w \in Writers, WriterStep(w) PROVE official' = official
  BY <1>4 DEF WriterStep, WriterBegin, WriterSaves, WriterRefused
<1>5. ASSUME NEW f \in Refreshes, RefreshStep(f) PROVE official' = official
  BY <1>5 DEF RefreshStep, RefreshFind, RefreshSave
<1> QED BY <1>1, <1>2, <1>3, <1>4, <1>5
        DEF Next, Push, Post, Arrive, WriterArrive, RefreshFetch, Crash, vars

LEMMA StillCoversAll ==
  ASSUME TypeInv, [Next]_vars, NEW balances \in Caches, CoversAll(balances)
  PROVE  CoversAll(balances)'
<1>1. \A p \in Pairs : balances[p] # NoRow => balances[p].balance \in Int BY DEF Caches, Row, Readable
<1> QED BY <1>1, OfficialFalls DEF CoversAll

LEMMA RowsCoverStep ==
  ASSUME TypeInv, RowsCover, [Next]_vars
  PROVE  RowsCover'
<1>0. /\ SyncInv /\ rows \in [Syncs -> Seq(Record)]
      /\ official \in [Pairs -> Int \cup {NoRow}] /\ IsFiniteSet(ValidPairs)
  BY DEF TypeInv, RowsInv, OfficialInv
<1>1. \A x \in Seq(Record) : \A row \in Range(x) :
        row.pair \in Pairs /\ row.balance \in Int /\ row # NoRow
  <2>1. \A x \in Seq(Record) : \A row \in Range(x) : row \in Record BY RowsTyped DEF Range
  <2> QED BY <2>1, BatchSyncAssumption DEF Record
<1>2. ASSUME NEW x \in Seq(Record), \A row \in Range(x) : Covers(row.pair, row.balance)
      PROVE  \A row \in Range(x) : Covers(row.pair, row.balance)'
  BY <1>1, <1>2, OfficialFalls
<1>3. ASSUME NEW s \in Syncs, NEW x \in Seq(Record), rows' = [rows EXCEPT ![s] = x],
             \A row \in Range(x) : Covers(row.pair, row.balance)
      PROVE  RowsCover'
  BY <1>0, <1>2, <1>3 DEF RowsCover
<1>4. ASSUME NEW s \in Syncs, NEW b \in Batches, Push(s, b) PROVE RowsCover'
  <2>1. AllValid \in Seq(Record) /\ \A row \in Range(AllValid) : row.balance = official[row.pair]
    BY <1>0, PushedRows DEF ValidPairs, Range
  <2>2. \A row \in Range(AllValid) : Covers(row.pair, row.balance)
    BY <1>0, <1>1, <2>1 DEF Covers
  <2> QED BY <1>3, <1>4, <2>1, <2>2 DEF Push
<1>5. ASSUME NEW s \in Syncs, NEW body \in Posts, Post(s, body) PROVE RowsCover'
  <2>1. body.rows \in Seq(Record) BY BatchSyncAssumption
  <2>2. \A row \in Range(body.rows) : Covers(row.pair, row.balance)
    BY <1>1, <1>5, <2>1 DEF Post, NotLow, Covers, Range
  <2> QED BY <1>3, <1>5, <2>1, <2>2 DEF Post
<1>6. CASE rows' = rows BY <1>0, <1>2, <1>6 DEF RowsCover
<1> QED BY <1>0, <1>4, <1>5, <1>6, RowsCases DEF Arrive

LEMMA SeenCoversStep ==
  ASSUME TypeInv, SeenCovers, [Next]_vars
  PROVE  SeenCovers'
<1>0. /\ pc \in [Refreshes -> Saving \cup {"idle", "saved", "failed", "dead"}]
      /\ target \in [Refreshes -> Pairs \cup {NoPair}] /\ seen \in [Refreshes -> Nat]
      /\ Reading /\ official \in [Pairs -> Int \cup {NoRow}]
  BY DEF TypeInv, RefreshInv, OfficialInv
<1>1. ASSUME NEW g \in Refreshes, pc[g] \in Saving PROVE Covers(target[g], seen[g]) /\ target[g] \in Pairs
  BY <1>0, <1>1 DEF SeenCovers, Reading
<1>2. \A p \in Pairs, n \in Nat : Covers(p, n) => Covers(p, n)' BY OfficialFalls
<1>3. ASSUME NEW g \in Refreshes, pc'[g] \in Saving, pc[g] \in Saving,
             target'[g] = target[g], seen'[g] = seen[g]
      PROVE  Covers(target[g], seen[g])'
  <2>1. official'[target[g]] # NoRow => seen[g] >= official'[target[g]]
    BY <1>0, <1>1, <1>2, <1>3 DEF Covers
  <2> QED BY <1>3, <2>1 DEF Covers
<1>4. ASSUME \A g \in Refreshes : pc'[g] \in Saving =>
               pc[g] \in Saving /\ target'[g] = target[g] /\ seen'[g] = seen[g]
      PROVE  SeenCovers'
  BY <1>3, <1>4 DEF SeenCovers
<1>5. ASSUME NEW f \in Refreshes, NEW p \in Pairs, RefreshFetch(f, p) PROVE SeenCovers'
  <2>1. \A g \in Refreshes \ {f} : pc'[g] = pc[g] /\ target'[g] = target[g] /\ seen'[g] = seen[g]
    BY <1>0, <1>5 DEF RefreshFetch
  <2>2. CASE official[p] \notin Readable
    <3>1. pc'[f] = "failed" BY <1>0, <1>5, <2>2 DEF RefreshFetch
    <3> QED BY <1>3, <2>1, <3>1 DEF SeenCovers, Saving
  <2>3. CASE official[p] \in Readable
    <3>1. target'[f] = p /\ seen'[f] = official[p] /\ official' = official /\ official[p] \in Nat
      BY <1>0, <1>5, <2>3 DEF RefreshFetch, Readable
    <3>2. Covers(target[f], seen[f])' BY <3>1 DEF Covers
    <3> QED BY <1>3, <2>1, <3>2 DEF SeenCovers
  <2> QED BY <2>2, <2>3
<1>6. ASSUME NEW f \in Refreshes, RefreshFind(f) PROVE SeenCovers'
  BY <1>0, <1>4, <1>6 DEF RefreshFind, Saving
<1>7. ASSUME NEW f \in Refreshes, RefreshSave(f) PROVE SeenCovers'
  <2>1. pc'[f] \notin Saving BY <1>0, <1>7 DEF RefreshSave, Saving
  <2>2. \A g \in Refreshes \ {f} : pc'[g] = pc[g] /\ target'[g] = target[g] /\ seen'[g] = seen[g]
    BY <1>0, <1>7 DEF RefreshSave
  <2> QED BY <1>4, <2>1, <2>2
<1>8. CASE Crash
  <2>1. \A g \in Refreshes : pc'[g] \notin Saving BY <1>0, <1>8 DEF Crash, Saving
  <2> QED BY <1>4, <2>1
<1>9. CASE UNCHANGED refreshVars BY <1>4, <1>9 DEF refreshVars
<1>10. ASSUME NEW s \in Syncs, SyncStep(s) PROVE UNCHANGED refreshVars
  BY <1>10 DEF SyncStep, SyncBegin, SyncReplay, SyncNew, SyncFind, SyncSave, SyncCommit
<1>11. ASSUME NEW w \in Writers, WriterStep(w) PROVE UNCHANGED refreshVars
  BY <1>11 DEF WriterStep, WriterBegin, WriterSaves, WriterRefused
<1> QED BY <1>5, <1>6, <1>7, <1>8, <1>9, <1>10, <1>11
        DEF Next, RefreshStep, Push, Post, Arrive, WriterArrive, File, vars

LEMMA CacheCoversStep ==
  ASSUME TypeInv, CacheNeverLow, UndoCovers, RowsCover, SeenCovers, [Next]_vars
  PROVE  CacheNeverLow' /\ UndoCovers'
<1> DEFINE Stays(p, n) == official'[p] # NoRow => n >= official'[p]
<1>0. /\ cache \in Caches /\ undo \in Caches \cup {NoUndo} /\ (undo # NoUndo <=> SomeRuns)
  BY DEF TypeInv, CacheInv, Undoable
<1>1. CoversAll(cache) BY CacheCovers
<1>2. \A p \in Pairs, n \in Nat : Covers(p, n) => Stays(p, n) BY OfficialFalls DEF Covers
<1>3. \A balances \in Caches : CoversAll(balances) =>
        \A p \in Pairs : balances[p] # NoRow => Stays(p, balances[p].balance)
  BY StillCoversAll DEF CoversAll, Covers
<1>4. ASSUME \A p \in Pairs : cache'[p] # NoRow => Stays(p, cache'[p].balance)
      PROVE  CacheNeverLow'
  BY <1>4 DEF CacheNeverLow, NotLow
<1>5. ASSUME undo' = NoUndo \/ (undo' \in Caches /\ CoversAll(undo'))
      PROVE  UndoCovers'
  BY <1>3, <1>5 DEF UndoCovers, CoversAll, Covers
<1> HIDE DEF Stays
<1>6. CASE Lookups
  <2>1. cache' = cache /\ undo' = undo BY <1>6 DEF Lookups
  <2> QED BY <1>0, <1>1, <1>3, <1>4, <1>5, <2>1 DEF UndoCovers
<1>7. CASE Begins
  <2>1. cache' = cache /\ undo' = cache BY <1>7 DEF Begins
  <2> QED BY <1>0, <1>1, <1>3, <1>4, <1>5, <2>1
<1>8. CASE Undoes
  <2>1. cache' = undo /\ undo' = NoUndo /\ undo # NoUndo BY <1>0, <1>8 DEF Undoes, Rollback
  <2> QED BY <1>0, <1>3, <1>4, <1>5, <2>1 DEF UndoCovers
<1>9. CASE Commits
  <2>1. cache' = cache /\ undo' = NoUndo BY <1>9 DEF Commits, Commit
  <2> QED BY <1>0, <1>1, <1>3, <1>4, <1>5, <2>1
<1>10. ASSUME NEW p \in Pairs, NEW n \in Nat, NEW who, Stays(p, n),
              cache' = [cache EXCEPT ![p] = [balance |-> n, source |-> who]]
       PROVE  CacheNeverLow'
  <2>1. cache'[p].balance = n BY <1>0, <1>10 DEF Caches
  <2>2. \A q \in Pairs \ {p} : cache'[q] = cache[q] BY <1>0, <1>10 DEF Caches
  <2>3. \A q \in Pairs : cache'[q] # NoRow => Stays(q, cache'[q].balance)
    BY <1>0, <1>1, <1>3, <1>10, <2>1, <2>2
  <2> QED BY <1>4, <2>3
<1>11. ASSUME NEW s \in Syncs, SyncSave(s), SyncSaves(s, Current(s).pair, Current(s).balance)
       PROVE  CacheNeverLow' /\ UndoCovers'
  <2>1. stage[s] = "running" /\ saved[s] < Len(rows[s])
    BY <1>11 DEF SyncSave, TypeInv, SavedInv, Progress
  <2>2. /\ Covers(Current(s).pair, Current(s).balance)
        /\ Current(s).pair \in Pairs /\ Current(s).balance \in Nat
    BY <2>1, CurrentRow DEF RowsCover, Record, Readable
  <2>3. /\ cache' = [cache EXCEPT ![Current(s).pair] = [balance |-> Current(s).balance, source |-> "BATCH"]]
        /\ undo' = undo
    BY <1>11 DEF SyncSaves
  <2>4. CacheNeverLow' BY <1>2, <1>10, <2>2, <2>3
  <2>5. UndoCovers' BY <1>0, <1>5, <2>3 DEF UndoCovers
  <2> QED BY <2>4, <2>5
<1>12. ASSUME NEW w \in Writers, NEW p \in Pairs, NEW n \in Answers, WriterSaves(w, p, n)
       PROVE  CacheNeverLow' /\ UndoCovers'
  <2>1. n \in Readable /\ n \in Nat BY BatchSyncAssumption DEF Readable
  <2>2. /\ cache' = [cache EXCEPT ![p] = [balance |-> n, source |-> "REALTIME"]]
        /\ undo' = NoUndo /\ official' = official /\ NotLow(p, cache'[p])
    BY <1>12 DEF WriterSaves, Commit
  <2>3. cache'[p] = [balance |-> n, source |-> "REALTIME"] BY <1>0, <2>2 DEF Caches
  <2>4. cache'[p] # NoRow
    <3>1. cache'[p] \in Row BY <2>1, <2>3 DEF Row
    <3> QED BY <3>1, BatchSyncAssumption
  <2>5. Stays(p, n) BY <2>2, <2>3, <2>4 DEF NotLow, Stays
  <2> QED BY <1>5, <1>10, <2>1, <2>2, <2>5
<1>13. ASSUME NEW f \in Refreshes, RefreshSave(f) PROVE CacheNeverLow' /\ UndoCovers'
  <2>1. undo' = undo BY <1>13 DEF RefreshSave
  <2>2. UndoCovers' BY <1>0, <1>5, <2>1 DEF UndoCovers
  <2>3. CASE cache' = cache BY <1>0, <1>1, <1>3, <1>4, <2>2, <2>3
  <2>4. CASE cache' # cache
    <3>1. target[f] \in Pairs /\ seen[f] \in Nat /\ Covers(target[f], seen[f])
      BY <1>13 DEF RefreshSave, TypeInv, RefreshInv, Reading, Saving, SeenCovers
    <3>2. cache' = [cache EXCEPT ![target[f]] = [balance |-> seen[f], source |-> "REALTIME"]]
      BY <1>13, <2>4 DEF RefreshSave
    <3> QED BY <1>2, <1>10, <2>2, <3>1, <3>2
  <2> QED BY <2>3, <2>4
<1> QED BY <1>6, <1>7, <1>8, <1>9, <1>11, <1>12, <1>13, CacheCases DEF CacheMoves

\* sync.service.ts, balances.service.ts: a late batch, a late refresh or a rollback may
\* bring an old balance back, but none below the official one, which only falls here.
THEOREM CacheStaysHigh == Spec => []CacheNeverLow
<1> DEFINE LowInv == CacheNeverLow /\ UndoCovers /\ RowsCover /\ SeenCovers
<1>1. Init => LowInv
  <2>1. Range(<<>>) = {} BY DEF Range
  <2> QED BY <2>1 DEF Init, CacheNeverLow, NotLow, UndoCovers, RowsCover, SeenCovers, Saving
<1>2. TypeInv /\ LowInv /\ [Next]_vars => LowInv'
  BY CacheCoversStep, RowsCoverStep, SeenCoversStep
<1> QED BY <1>1, <1>2, TypeInvAlways, PTL DEF Spec

(***************************************************************************)
(* Answers.  A record of a batch id is the sorted rows of some call, and   *)
(* the answer of a call tells whether they are its own.                    *)
(***************************************************************************)
Taken == {"applied", "idempotent"}

Answered ==
  \A s \in Syncs :
    /\ answer[s] \in Taken \cup {"conflict"} => batch[s] \in Batches /\ events[batch[s]] # NoEvent
    /\ answer[s] \in Taken => events[batch[s]] = Normalized(s)
    /\ answer[s] = "conflict" => events[batch[s]] # Normalized(s)

RecordsSorted == \A b \in Batches : events[b] # NoEvent => \E x \in Seq(Record) : events[b] = Sorted(x)

\* A call that is answered keeps its answer, its rows and its record.
LEMMA AnswerCases ==
  ASSUME SyncInv, [Next]_vars, NEW s \in Syncs, answer'[s] \in Taken \cup {"conflict"}
  PROVE  \/ answer'[s] = answer[s]
         \/ SyncReplay(s)
         \/ SyncCommit(s) /\ SyncSucceeds(s)
<1> USE DEF SyncInv, Shape, Taken
<1>1. ASSUME NEW t \in Syncs, NEW b \in Batches, Push(t, b) PROVE answer'[s] = answer[s]
  BY <1>1 DEF Push
<1>2. ASSUME NEW t \in Syncs, NEW body \in Posts, Post(t, body) PROVE answer'[s] = answer[s]
  BY <1>2 DEF Post, Receive
<1>3. ASSUME NEW t \in Syncs, Arrive(t) PROVE answer'[s] = answer[s]
  BY <1>3 DEF Arrive, Receive
<1>4. ASSUME NEW t \in Syncs, SyncStep(t), answer'[s] # answer[s]
      PROVE  s = t /\ (SyncReplay(s) \/ (SyncCommit(s) /\ SyncSucceeds(s)))
  <2>1. CASE SyncReplay(t) BY <1>4, <2>1 DEF SyncReplay, Answer
  <2>2. CASE SyncSave(t) BY <1>4, <2>2 DEF SyncSave, SyncFails, SyncSaves, Answer
  <2>3. CASE SyncCommit(t)
    BY <1>4, <2>3 DEF SyncCommit, SyncFails, SyncSucceeds, Answer
  <2>4. CASE SyncBegin(t) \/ SyncNew(t) \/ SyncFind(t)
    BY <1>4, <2>4 DEF SyncBegin, SyncNew, SyncFind, callVars
  <2> QED BY <1>4, <2>1, <2>2, <2>3, <2>4 DEF SyncStep
<1> QED BY <1>1, <1>2, <1>3, <1>4, StepCases DEF Crash, Others, callVars

LEMMA EventLasts ==
  ASSUME TypeInv, [Next]_vars, NEW b \in Batches, events[b] # NoEvent
  PROVE  events'[b] = events[b]
BY EventsCases DEF TypeInv, EventsInv, SyncSucceeds

LEMMA AnsweredStep ==
  ASSUME TypeInv, Answered, [Next]_vars
  PROVE  Answered'
<1>0. /\ SyncInv /\ NoBatch \notin Batches /\ EventsInv
      /\ batch \in [Syncs -> Batches \cup {NoBatch}]
      /\ answer \in [Syncs -> Ended \cup {"none"}] /\ rows \in [Syncs -> Seq(Record)]
  BY BatchSyncAssumption DEF TypeInv, SyncInv, Shape, RowsInv
<1> SUFFICES ASSUME NEW s \in Syncs, answer'[s] \in Taken \cup {"conflict"}
             PROVE  /\ batch'[s] \in Batches /\ events'[batch'[s]] # NoEvent
                    /\ answer'[s] \in Taken => events'[batch'[s]] = Sorted(rows'[s])
                    /\ answer'[s] = "conflict" => events'[batch'[s]] # Sorted(rows'[s])
  BY DEF Answered, Normalized, Taken
<1>1. CASE answer'[s] = answer[s]
  <2>1. /\ batch[s] \in Batches /\ events[batch[s]] # NoEvent
        /\ answer[s] \in Taken => events[batch[s]] = Sorted(rows[s])
        /\ answer[s] = "conflict" => events[batch[s]] # Sorted(rows[s])
    BY <1>1 DEF Answered, Normalized
  <2>2. batch'[s] = batch[s] /\ rows'[s] = rows[s] BY <1>0, <2>1, RowsLast
  <2>3. events'[batch[s]] = events[batch[s]] BY <2>1, EventLasts
  <2> QED BY <1>1, <2>1, <2>2, <2>3
<1>2. CASE SyncReplay(s)
  <2>1. UNCHANGED <<batch, rows, events>> /\ events[batch[s]] # NoEvent BY <1>2 DEF SyncReplay
  <2>2. batch[s] \in Batches BY <1>0, <1>2 DEF SyncReplay, SyncInv, Named
  <2>3. answer'[s] = IF events[batch[s]] = Sorted(rows[s]) THEN "idempotent" ELSE "conflict"
    BY <1>0, <1>2 DEF SyncReplay, Answer, Normalized
  <2> QED BY <2>1, <2>2, <2>3 DEF Taken
<1>3. CASE SyncCommit(s) /\ SyncSucceeds(s)
  <2>1. UNCHANGED <<batch, rows>> /\ stage[s] = "running" BY <1>3 DEF SyncCommit
  <2>2. Accepts(s) BY <1>3, <2>1 DEF Accepts
  <2>3. batch[s] \in Batches /\ events'[batch[s]] = Normalized(s) /\ Normalized(s) # NoEvent
    BY <2>2, AcceptedOnRecord
  <2>4. answer'[s] = "applied" BY <1>0, <1>3 DEF SyncSucceeds, Answer
  <2> QED BY <2>1, <2>3, <2>4 DEF Normalized
<1> QED BY <1>0, <1>1, <1>2, <1>3, AnswerCases

LEMMA RecordsSortedStep ==
  ASSUME TypeInv, RecordsSorted, [Next]_vars
  PROVE  RecordsSorted'
<1>1. CASE events' = events BY <1>1 DEF RecordsSorted
<1>2. ASSUME NEW s \in Syncs, SyncSucceeds(s) PROVE RecordsSorted'
  <2>1. rows[s] \in Seq(Record) BY DEF TypeInv, RowsInv
  <2>2. events' = [events EXCEPT ![batch[s]] = Sorted(rows[s])]
    BY <1>2 DEF SyncSucceeds, Normalized
  <2> QED BY <2>1, <2>2 DEF RecordsSorted, TypeInv, EventsInv
<1> QED BY <1>1, <1>2, EventsCases DEF TypeInv

LEMMA AnsweredAlways == Spec => [](TypeInv /\ Answered /\ RecordsSorted)
<1>1. Init => Answered /\ RecordsSorted BY DEF Init, Answered, RecordsSorted, Taken
<1>2. TypeInv /\ Answered /\ RecordsSorted /\ [Next]_vars => Answered' /\ RecordsSorted'
  BY AnsweredStep, RecordsSortedStep
<1> QED BY <1>1, <1>2, TypeInvAlways, PTL DEF Spec

TakenIsTrue ==
  \A s \in Syncs : answer[s] \in Taken =>
    events[batch[s]] # NoEvent /\ SameBatch(events[batch[s]], rows[s])

LEMMA TakenHolds == TypeInv /\ Answered => TakenIsTrue
<1> SUFFICES ASSUME TypeInv, Answered, NEW s \in Syncs, answer[s] \in Taken
             PROVE events[batch[s]] # NoEvent /\ SameBatch(events[batch[s]], rows[s])
  BY DEF TakenIsTrue
<1>1. rows[s] \in Seq(Record) BY DEF TypeInv, RowsInv
<1>2. events[batch[s]] # NoEvent /\ events[batch[s]] = Sorted(rows[s]) BY DEF Answered, Normalized
<1>3. SameBatch(Sorted(rows[s]), rows[s])
  BY <1>1, SortedTyped, SortedSaysTheSame, SayingTheSameIsMutual
<1> QED BY <1>2, <1>3

\* sync.service.ts: a call answered "applied" or "idempotent" finds its rows on record
\* from then on, whatever the sort keys are.
THEOREM TakenAnswersAreTrue == Spec => []TakenIsTrue
BY TakenHolds, AnsweredAlways, PTL

\* And a call answered "conflict" finds rows that say something else, if no two pairs
\* share a sort key: with a shared key, rows in another order are taken for others.
THEOREM AnswersAreTrue == ASSUME DistinctKeys PROVE Spec => []AnswersTrue
<1>1. TypeInv /\ Answered /\ RecordsSorted => AnswersTrue
  <2> SUFFICES ASSUME TypeInv, Answered, RecordsSorted, NEW s \in Syncs
               PROVE /\ answer[s] \in {"applied", "idempotent"} =>
                          events[batch[s]] # NoEvent /\ SameBatch(events[batch[s]], rows[s])
                     /\ answer[s] = "conflict" =>
                          events[batch[s]] # NoEvent /\ ~SameBatch(events[batch[s]], rows[s])
    BY DEF AnswersTrue
  <2>1. rows[s] \in Seq(Record) BY DEF TypeInv, RowsInv
  <2>2. ASSUME answer[s] \in {"applied", "idempotent"}
        PROVE  events[batch[s]] # NoEvent /\ SameBatch(events[batch[s]], rows[s])
    BY <2>2, TakenHolds DEF TakenIsTrue, Taken
  <2>3. ASSUME answer[s] = "conflict", SameBatch(events[batch[s]], rows[s]) PROVE FALSE
    <3>1. /\ batch[s] \in Batches /\ events[batch[s]] # NoEvent
          /\ events[batch[s]] # Sorted(rows[s])
      BY <2>3 DEF Answered, Normalized
    <3>2. PICK x \in Seq(Record) : events[batch[s]] = Sorted(x) BY <3>1 DEF RecordsSorted
    <3>3. Sorted(Sorted(x)) = Sorted(rows[s]) BY <2>1, <2>3, <3>2, SortedTyped, SameSorted
    <3> QED BY <3>1, <3>2, <3>3, SortedTwice
  <2>4. answer[s] = "conflict" => events[batch[s]] # NoEvent BY DEF Answered
  <2> QED BY <2>2, <2>3, <2>4
<1> QED BY <1>1, AnsweredAlways, PTL

(***************************************************************************)
(* What a transaction has saved so far is in the cache: of the rows of one *)
(* pair the last, unless a refresh has come in between.                    *)
(***************************************************************************)
Landed ==
  \A s \in Syncs : \A n \in 1..saved[s] :
    LET row == Normalized(s)[n]
    IN  /\ cache[row.pair] # NoRow
        /\ (\A m \in n + 1..saved[s] : Normalized(s)[m].pair # row.pair)
             /\ cache[row.pair].source = "BATCH"
           => cache[row.pair].balance = row.balance

\* The rows of a transaction that goes on have their places.
LEMMA SavedPairs ==
  ASSUME TypeInv, NEW s \in Syncs, NEW n \in 1..saved[s]
  PROVE  /\ stage[s] = "running" /\ saved[s] \in Nat /\ n \in DOMAIN rows[s]
         /\ Normalized(s)[n].pair \in Pairs
<1>1. /\ saved[s] \in Nat /\ saved[s] > 0 /\ rows[s] \in Seq(Record) /\ Progress /\ Unrecorded
      /\ step[s] \in Saving \cup {"looking"}
  BY DEF TypeInv, SavedInv, RowsInv, SyncInv, Shape
<1>2. step[s] # "looking" /\ saved[s] <= Len(rows[s])
  BY <1>1 DEF Progress, Saving
<1>3. n \in DOMAIN rows[s] BY <1>1, <1>2, RowsTyped
<1>4. Sorted(rows[s]) \in Seq(Record) /\ DOMAIN Sorted(rows[s]) = DOMAIN rows[s]
  BY <1>1, SortedTyped
<1>5. Sorted(rows[s])[n].pair \in Pairs BY <1>3, <1>4, RowsTyped
<1> QED BY <1>1, <1>2, <1>3, <1>5 DEF Unrecorded, Normalized

LEMMA SavedCases ==
  ASSUME TypeInv, [Next]_vars, NEW s \in Syncs, saved'[s] # 0
  PROVE  \/ saved'[s] = saved[s]
         \/ SyncSave(s) /\ SyncSaves(s, Current(s).pair, Current(s).balance)
<1>0. SyncInv /\ saved \in [Syncs -> Nat] BY DEF TypeInv, SavedInv
<1>1. ASSUME NEW t \in Syncs, SyncStep(t), saved'[s] # saved[s]
      PROVE  SyncSave(s) /\ SyncSaves(s, Current(s).pair, Current(s).balance)
  <2>1. CASE saved' = [saved EXCEPT ![t] = 0] BY <1>0, <1>1, <2>1
  <2>2. CASE SyncSave(t)
    <3>1. CASE SyncFails(t) BY <2>1, <3>1 DEF SyncFails
    <3>2. CASE SyncSaves(t, Current(t).pair, Current(t).balance)
      <4>1. s = t BY <1>0, <1>1, <3>2 DEF SyncSaves
      <4> QED BY <2>2, <3>2, <4>1
    <3> QED BY <2>2, <3>1, <3>2 DEF SyncSave
  <2>3. CASE SyncCommit(t) BY <2>1, <2>3 DEF SyncCommit, SyncFails, SyncSucceeds
  <2>4. CASE SyncBegin(t) \/ SyncReplay(t) \/ SyncNew(t) \/ SyncFind(t)
    BY <1>1, <2>4 DEF SyncBegin, SyncReplay, SyncNew, SyncFind, callVars
  <2> QED BY <1>1, <2>2, <2>3, <2>4 DEF SyncStep
<1>2. CASE Crash BY <1>2 DEF Crash
<1> QED BY <1>0, <1>1, <1>2, StepCases DEF Push, Post, Arrive, Others, callVars

LEMMA LandedStep ==
  ASSUME TypeInv, Landed, [Next]_vars, TypeInv'
  PROVE  Landed'
<1>0. /\ cache \in Caches /\ QueueInv /\ SyncInv /\ saved \in [Syncs -> Nat]
      /\ rows \in [Syncs -> Seq(Record)] /\ Named
  BY DEF TypeInv, CacheInv, SyncInv, SavedInv, RowsInv
<1> SUFFICES ASSUME NEW s \in Syncs, NEW n \in 1..saved'[s]
             PROVE  LET row == Sorted(rows'[s])[n]
                    IN  /\ cache'[row.pair] # NoRow
                        /\ (\A m \in n + 1..saved'[s] : Sorted(rows'[s])[m].pair # row.pair)
                             /\ cache'[row.pair].source = "BATCH"
                           => cache'[row.pair].balance = row.balance
  BY DEF Landed, Normalized
<1> DEFINE row == Sorted(rows[s])[n]
           Newest == \A m \in n + 1..saved'[s] : Sorted(rows[s])[m].pair # row.pair
<1>1. stage'[s] = "running" /\ SomeRuns' /\ saved'[s] \in Nat /\ saved'[s] # 0
  <2>1. saved'[s] \in Nat /\ saved'[s] # 0 /\ Progress' /\ Unrecorded'
    BY DEF TypeInv, SavedInv, SyncInv
  <2>2. stage'[s] = "running" BY <2>1 DEF Progress, Unrecorded
  <2> QED BY <2>1, <2>2, WorksAreCalls DEF SomeRuns
<1>2. ASSUME stage[s] = "running" PROVE rows'[s] = rows[s]
  BY <1>0, <1>2, RowsLast DEF Named
<1>3. ASSUME n \in 1..saved[s], stage[s] = "running"
      PROVE  /\ cache[row.pair] # NoRow
             /\ (\A m \in n + 1..saved[s] : Sorted(rows[s])[m].pair # row.pair)
                  /\ cache[row.pair].source = "BATCH"
                => cache[row.pair].balance = row.balance
  BY <1>3 DEF Landed, Normalized
<1>4. ASSUME stage[s] = "running", cache'[row.pair] # NoRow,
             Newest /\ cache'[row.pair].source = "BATCH" => cache'[row.pair].balance = row.balance
      PROVE  LET new == Sorted(rows'[s])[n]
             IN  /\ cache'[new.pair] # NoRow
                 /\ (\A m \in n + 1..saved'[s] : Sorted(rows'[s])[m].pair # new.pair)
                      /\ cache'[new.pair].source = "BATCH"
                    => cache'[new.pair].balance = new.balance
  BY <1>2, <1>4
<1> HIDE DEF row
<1>5. CASE saved'[s] = saved[s]
  <2>1. stage[s] = "running" /\ n \in 1..saved[s] /\ row.pair \in Pairs
    BY <1>5, SavedPairs DEF row, Normalized
  <2>2. SomeRuns BY <2>1, WorksAreCalls DEF SomeRuns
  <2>3. CASE cache' = cache BY <1>3, <1>4, <1>5, <2>1, <2>3
  <2>4. ~Begins /\ ~Undoes /\ ~Commits BY <1>1, <2>2 DEF Begins, Undoes, Commits
  <2>5. ASSUME NEW t \in Syncs, SyncSave(t), SyncSaves(t, Current(t).pair, Current(t).balance)
        PROVE  FALSE
    <3>1. t = s BY <1>0, <2>1, <2>5, OneRuns, WorksAreCalls DEF SyncSave
    <3>2. saved'[s] = saved[s] + 1 BY <1>0, <2>5, <3>1 DEF SyncSaves
    <3> QED BY <1>0, <1>5, <3>2
  <2>6. ASSUME NEW w \in Writers, NEW p \in Pairs, NEW k \in Answers, WriterSaves(w, p, k)
        PROVE  FALSE
    BY <1>0, <2>1, <2>6, OneRuns, WorksAreCalls DEF WriterSaves, Settle
  <2>7. ASSUME NEW f \in Refreshes, RefreshSave(f), cache' # cache
        PROVE  cache'[row.pair] # NoRow /\ (cache'[row.pair] = cache[row.pair]
                                            \/ cache'[row.pair].source # "BATCH")
    <3>1. /\ target[f] \in Pairs /\ seen[f] \in Readable
          /\ cache' = [cache EXCEPT ![target[f]] = [balance |-> seen[f], source |-> "REALTIME"]]
      BY <2>7 DEF RefreshSave, TypeInv, RefreshInv, Reading, Saving
    <3>2. CASE target[f] = row.pair
      <4>1. cache'[row.pair] = [balance |-> seen[f], source |-> "REALTIME"]
        BY <1>0, <3>1, <3>2 DEF Caches
      <4>2. cache'[row.pair] \in Row BY <3>1, <4>1 DEF Row
      <4> QED BY <4>1, <4>2, BatchSyncAssumption
    <3>3. CASE target[f] # row.pair
      BY <1>0, <1>3, <2>1, <3>1, <3>3 DEF Caches
    <3> QED BY <3>2, <3>3
  <2>8. CASE cache' # cache
    <3>1. PICK f \in Refreshes : RefreshSave(f)
      BY <2>4, <2>5, <2>6, <2>8, CacheCases DEF CacheMoves, Lookups
    <3> QED BY <1>3, <1>4, <1>5, <2>1, <2>7, <2>8, <3>1
  <2> QED BY <2>3, <2>8
<1>6. CASE SyncSave(s) /\ SyncSaves(s, Current(s).pair, Current(s).balance)
  <2>1. /\ stage[s] = "running" /\ saved[s] < Len(rows[s]) /\ saved[s] \in Nat
        /\ saved'[s] = saved[s] + 1
    BY <1>0, <1>6 DEF SyncSave, SyncSaves, TypeInv, SavedInv, Progress
  <2>2. /\ Current(s).pair \in Pairs /\ Current(s).balance \in Readable
        /\ Current(s) = Sorted(rows[s])[saved[s] + 1]
    BY <2>1, CurrentRow DEF Record, Current, Normalized
  <2>3. /\ cache'[Current(s).pair] = [balance |-> Current(s).balance, source |-> "BATCH"]
        /\ \A p \in Pairs \ {Current(s).pair} : cache'[p] = cache[p]
    BY <1>0, <1>6, <2>2 DEF SyncSaves, Caches
  <2>4. cache'[Current(s).pair] # NoRow
    <3>1. cache'[Current(s).pair] \in Row BY <2>2, <2>3 DEF Row
    <3> QED BY <3>1, BatchSyncAssumption
  <2>5. CASE n = saved[s] + 1
    <3>1. row = Current(s) BY <2>2, <2>5 DEF row
    <3> QED BY <1>4, <2>1, <2>3, <2>4, <3>1
  <2>6. CASE n # saved[s] + 1
    <3>1. n \in 1..saved[s] BY <2>1, <2>6
    <3>2. row.pair \in Pairs BY <3>1, SavedPairs DEF row, Normalized
    <3>3. CASE row.pair = Current(s).pair
      <4>1. saved[s] + 1 \in n + 1..saved'[s] BY <2>1, <3>1
      <4>2. ~Newest BY <2>2, <3>3, <4>1
      <4> QED BY <1>4, <2>1, <2>4, <3>3, <4>2
    <3>4. CASE row.pair # Current(s).pair
      <4>1. cache'[row.pair] = cache[row.pair] BY <2>3, <3>2, <3>4
      <4>2. Newest => \A m \in n + 1..saved[s] : Sorted(rows[s])[m].pair # row.pair BY <2>1
      <4> QED BY <1>3, <1>4, <2>1, <3>1, <4>1, <4>2
    <3> QED BY <3>3, <3>4
  <2> QED BY <2>5, <2>6
<1> QED BY <1>1, <1>5, <1>6, SavedCases

\* sync.service.ts: when a batch is applied every pair it names has a cached balance,
\* its last one in the batch unless a refresh has overwritten it meanwhile, in however
\* many rows the pair came and in whatever order they were saved.
THEOREM BatchesLand == Spec => BatchLands
<1> DEFINE Step ==
      \A s \in Syncs : answer[s] = "none" /\ answer'[s] = "applied" =>
        \A p \in Pairs : RowsOf(rows[s], p) # {} =>
          /\ cache'[p] # NoRow
          /\ cache'[p].source = "BATCH" =>
               cache'[p].balance = rows[s][Max(RowsOf(rows[s], p))].balance
<1>1. TypeInv /\ Landed /\ [Next]_vars => Step
  <2> SUFFICES ASSUME TypeInv, Landed, [Next]_vars, NEW s \in Syncs,
                      answer[s] = "none", answer'[s] = "applied",
                      NEW p \in Pairs, RowsOf(rows[s], p) # {}
               PROVE  /\ cache'[p] # NoRow
                      /\ cache'[p].source = "BATCH" =>
                           cache'[p].balance = rows[s][Max(RowsOf(rows[s], p))].balance
    OBVIOUS
  <2>0. /\ SyncInv /\ rows[s] \in Seq(Record) /\ Len(rows[s]) \in Nat
        /\ DOMAIN rows[s] = 1..Len(rows[s]) /\ answer \in [Syncs -> Ended \cup {"none"}]
    BY RowsTyped DEF TypeInv, RowsInv, SyncInv, Shape
  <2>1. ~SyncReplay(s) BY <2>0 DEF SyncReplay, Answer
  <2>2. SyncCommit(s) /\ SyncSucceeds(s) BY <2>0, <2>1, AnswerCases DEF Taken
  <2>3. saved[s] = Len(rows[s]) /\ cache' = cache BY <2>2 DEF SyncCommit, SyncSucceeds
  <2>4. PICK n \in DOMAIN rows[s] :
          /\ Sorted(rows[s])[n] = rows[s][Max(RowsOf(rows[s], p))]
          /\ \A m \in DOMAIN rows[s] : Sorted(rows[s])[m].pair = p => m <= n
    BY <2>0, LastRowSorted
  <2>5. Sorted(rows[s])[n].pair = p BY <2>0, <2>4, LastRow DEF RowsOf
  <2>6. n \in 1..saved[s] /\ n \in Nat BY <2>0, <2>3
  <2>7. \A m \in n + 1..saved[s] : Sorted(rows[s])[m].pair # p
    <3> SUFFICES ASSUME NEW m \in n + 1..saved[s], Sorted(rows[s])[m].pair = p PROVE FALSE
      OBVIOUS
    <3>1. m \in DOMAIN rows[s] /\ m \in Nat /\ m > n BY <2>0, <2>3, <2>6
    <3> QED BY <2>4, <2>6, <3>1
  <2> QED BY <2>3, <2>4, <2>5, <2>6, <2>7 DEF Landed, Normalized
<1>2. Init => Landed BY DEF Init, Landed
<1>3. TypeInv /\ TypeInv' /\ Landed /\ [Next]_vars => Landed' BY LandedStep
<1>4. TypeInv /\ Landed /\ [Next]_vars => [Step]_vars BY <1>1
<1> QED BY <1>2, <1>3, <1>4, TypeInvAlways, PTL DEF Spec, BatchLands
=============================================================================
