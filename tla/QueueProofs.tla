---------------------------- MODULE QueueProofs ----------------------------
(***************************************************************************)
(* The chain of promises implements the FIFO mutex, for any works.         *)
(***************************************************************************)
EXTENDS WriteQueue, TLAPS

Over == Settled \cup {"lost"}
Arrived(w) == ticket[w] # 0

\* Arrived works have different numbers, up to the number of calls.
TicketsFit ==
  /\ \A w \in Works : Arrived(w) <=> stage[w] # "idle"
  /\ \A w \in Works : ticket[w] <= issued
  /\ \A v, w \in Works : Arrived(v) /\ ticket[v] = ticket[w] => v = w

\* What is over or running has nothing unfinished before it.
ServedInOrder ==
  \A v, w \in Works : Arrived(v) /\ ticket[v] < ticket[w] /\ stage[w] \in Over \cup {"running"}
     => stage[v] \in Over

\* Every work but the last call's has finished when the variable holds the first promise;
\* else the variable holds the promise of the last call.
TailIsLast ==
  IF tail = NoWork THEN \A w \in Works : Arrived(w) => stage[w] \in Over
                   ELSE Arrived(tail) /\ ticket[tail] = issued

\* A waiting work is chained to the one just before it, unless all before it are over.
ChainedToLast ==
  \A w \in Works : stage[w] = "waiting" =>
    IF waits[w] = NoWork
      THEN \A v \in Works : Arrived(v) /\ ticket[v] < ticket[w] => stage[v] \in Over
      ELSE Arrived(waits[w]) /\ ticket[waits[w]] = ticket[w] - 1

QueueInv == QueueTypeOK /\ TicketsFit /\ ServedInOrder /\ TailIsLast /\ ChainedToLast

LEMMA QueueInvInit == QueueInit => QueueInv
BY WriteQueueAssumption
   DEF QueueInit, QueueInv, QueueTypeOK, TicketsFit, ServedInOrder, TailIsLast, ChainedToLast,
       Arrived, Stages, Settled, Over

LEMMA QueueTypeStep == QueueInv /\ [QueueNext]_queueVars => QueueTypeOK'
<1> SUFFICES ASSUME QueueInv, [QueueNext]_queueVars PROVE QueueTypeOK'
  OBVIOUS
<1> USE DEF QueueInv, QueueTypeOK, Stages, Settled
<1>1. CASE Stop BY <1>1 DEF Stop
<1>2. ASSUME NEW w \in Works, Submit(w) PROVE QueueTypeOK' BY <1>2 DEF Submit
<1>3. ASSUME NEW w \in Works, Begin(w) PROVE QueueTypeOK' BY <1>3 DEF Begin
<1>4. ASSUME NEW w \in Works, NEW how \in Settled, Settle(w, how) PROVE QueueTypeOK'
  BY <1>4 DEF Settle
<1>5. CASE UNCHANGED queueVars BY <1>5 DEF queueVars
<1> QED BY <1>1, <1>2, <1>3, <1>4, <1>5 DEF QueueNext

\* A work that begins has only finished works before it: the one it is chained to
\* is over, and nothing unfinished is before that.
LEMMA BeginsInTurn ==
  ASSUME QueueInv, NEW w \in Works, Begin(w), NEW v \in Works, Arrived(v), ticket[v] < ticket[w]
  PROVE  stage[v] \in Over
<1>1. stage[w] = "waiting" BY DEF Begin
<1>2. CASE waits[w] = NoWork
  BY <1>1, <1>2 DEF QueueInv, ChainedToLast
<1>3. CASE waits[w] # NoWork
  <2> DEFINE u == waits[w]
  <2>1. u \in Works /\ Arrived(u) /\ ticket[u] = ticket[w] - 1 /\ stage[u] \in Over
    BY <1>1, <1>3 DEF QueueInv, QueueTypeOK, ChainedToLast, Begin, Over
  <2>2. ticket[v] \in Nat /\ ticket[w] \in Nat /\ ticket[u] \in Nat
    BY <2>1 DEF QueueInv, QueueTypeOK
  <2>3. CASE ticket[v] = ticket[u]
    BY <2>1, <2>3 DEF QueueInv, TicketsFit
  <2>4. CASE ticket[v] < ticket[u]
    BY <2>1, <2>4 DEF QueueInv, ServedInOrder
  <2> QED BY <2>1, <2>2, <2>3, <2>4
<1> QED BY <1>2, <1>3


\* A call takes the next number, behind all others.
LEMMA SubmitKeeps ==
  ASSUME QueueInv, NEW w \in Works, Submit(w)
  PROVE  (TicketsFit /\ ServedInOrder /\ TailIsLast /\ ChainedToLast)'
<1>1. /\ stage[w] = "idle" /\ ~Arrived(w)
      /\ tail' = w /\ issued' = issued + 1 /\ issued \in Nat
      /\ stage' = [stage EXCEPT ![w] = "waiting"]
      /\ waits' = [waits EXCEPT ![w] = tail]
      /\ ticket' = [ticket EXCEPT ![w] = issued + 1]
  BY DEF Submit, QueueInv, QueueTypeOK, TicketsFit
<1>2. /\ ticket'[w] = issued + 1 /\ stage'[w] = "waiting" /\ waits'[w] = tail
      /\ \A v \in Works \ {w} : ticket'[v] = ticket[v] /\ stage'[v] = stage[v] /\ waits'[v] = waits[v]
      /\ \A v \in Works : ticket[v] \in Nat /\ ticket[v] <= issued
  BY <1>1 DEF QueueInv, QueueTypeOK, TicketsFit
<1>3. TicketsFit'
  BY <1>1, <1>2 DEF QueueInv, TicketsFit, Arrived
<1>4. ServedInOrder'
  BY <1>1, <1>2 DEF QueueInv, ServedInOrder, Arrived, Over, Settled
<1>5. TailIsLast'
  BY <1>1, <1>2, WriteQueueAssumption DEF TailIsLast, Arrived
<1>6. ChainedToLast'
  <2> SUFFICES ASSUME NEW x \in Works, stage'[x] = "waiting"
               PROVE (IF waits[x] = NoWork
                        THEN \A v \in Works : Arrived(v) /\ ticket[v] < ticket[x] => stage[v] \in Over
                        ELSE Arrived(waits[x]) /\ ticket[waits[x]] = ticket[x] - 1)'
    BY DEF ChainedToLast
  <2>1. CASE x = w
    <3>1. CASE tail = NoWork
      BY <1>1, <1>2, <2>1, <3>1 DEF QueueInv, TailIsLast, Arrived, Over, Settled
    <3>2. CASE tail # NoWork
      <4>1. tail \in Works /\ Arrived(tail) /\ ticket[tail] = issued /\ tail # w
        BY <1>1, <3>2 DEF QueueInv, QueueTypeOK, TailIsLast
      <4> QED BY <1>1, <1>2, <2>1, <3>2, <4>1 DEF Arrived
    <3> QED BY <3>1, <3>2
  <2>2. CASE x # w
    <3>1. stage[x] = "waiting" /\ waits'[x] = waits[x] /\ ticket'[x] = ticket[x]
      BY <1>2, <2>2
    <3>2. CASE waits[x] = NoWork
      BY <1>1, <1>2, <3>1, <3>2 DEF QueueInv, ChainedToLast, Arrived
    <3>3. CASE waits[x] # NoWork
      <4>1. waits[x] \in Works /\ Arrived(waits[x]) /\ ticket[waits[x]] = ticket[x] - 1 /\ waits[x] # w
        BY <1>1, <3>1, <3>3 DEF QueueInv, QueueTypeOK, ChainedToLast
      <4> QED BY <1>2, <3>1, <3>3, <4>1 DEF Arrived
    <3> QED BY <3>2, <3>3
  <2> QED BY <2>1, <2>2
<1> QED BY <1>3, <1>4, <1>5, <1>6

\* The other steps leave the numbers and the chain, and a work that is over stays so.
LEMMA SameTickets ==
  ASSUME QueueInv, UNCHANGED <<waits, ticket, issued>>,
         \A v \in Works : (stage'[v] = "idle" <=> stage[v] = "idle")
                          /\ (stage[v] \in Over => stage'[v] \in Over)
                          /\ (stage'[v] = "waiting" => stage[v] = "waiting")
  PROVE  TicketsFit' /\ ChainedToLast'
<1>1. TicketsFit' BY DEF QueueInv, TicketsFit, Arrived
<1>2. ChainedToLast' BY DEF QueueInv, QueueTypeOK, ChainedToLast, Arrived
<1> QED BY <1>1, <1>2

LEMMA BeginKeeps ==
  ASSUME QueueInv, NEW w \in Works, Begin(w)
  PROVE  (TicketsFit /\ ServedInOrder /\ TailIsLast /\ ChainedToLast)'
<1>1. /\ stage[w] = "waiting" /\ UNCHANGED <<tail, waits, ticket, issued>>
      /\ stage'[w] = "running" /\ \A v \in Works \ {w} : stage'[v] = stage[v]
  BY DEF Begin, QueueInv, QueueTypeOK
<1>2. TicketsFit' /\ ChainedToLast'
  BY <1>1, SameTickets DEF Over, Settled
<1>3. ServedInOrder'
  <2> SUFFICES ASSUME NEW v \in Works, NEW x \in Works, Arrived(v), ticket[v] < ticket[x],
                      stage'[x] \in Over \cup {"running"}
               PROVE stage'[v] \in Over
    BY <1>1 DEF ServedInOrder, Arrived, Over
  <2>1. CASE x = w
    <3>1. stage[v] \in Over BY <2>1, BeginsInTurn
    <3> QED BY <1>1, <3>1 DEF Over, Settled
  <2>2. CASE x # w
    <3>1. stage[v] \in Over BY <1>1, <2>2 DEF QueueInv, ServedInOrder
    <3> QED BY <1>1, <3>1 DEF Over, Settled
  <2> QED BY <2>1, <2>2
<1>4. TailIsLast'
  <2>1. Arrived(w) BY <1>1 DEF QueueInv, TicketsFit
  <2>2. tail # NoWork BY <1>1, <2>1 DEF QueueInv, TailIsLast, Over, Settled
  <2> QED BY <1>1, <2>2 DEF QueueInv, TailIsLast, Arrived
<1> QED BY <1>2, <1>3, <1>4

LEMMA SettleKeeps ==
  ASSUME QueueInv, NEW w \in Works, NEW how \in Settled, Settle(w, how)
  PROVE  (TicketsFit /\ ServedInOrder /\ TailIsLast /\ ChainedToLast)'
<1>1. /\ stage[w] = "running" /\ UNCHANGED <<tail, waits, ticket, issued>>
      /\ stage'[w] = how /\ \A v \in Works \ {w} : stage'[v] = stage[v]
  BY DEF Settle, QueueInv, QueueTypeOK
<1>2. TicketsFit' /\ ChainedToLast'
  BY <1>1, SameTickets DEF Over, Settled
<1>3. ServedInOrder'
  BY <1>1 DEF QueueInv, ServedInOrder, Arrived, Over, Settled
<1>4. TailIsLast'
  BY <1>1 DEF QueueInv, TailIsLast, Arrived, Over, Settled
<1> QED BY <1>2, <1>3, <1>4

LEMMA StopKeeps ==
  ASSUME QueueInv, Stop
  PROVE  (TicketsFit /\ ServedInOrder /\ TailIsLast /\ ChainedToLast)'
<1>1. /\ tail' = NoWork /\ UNCHANGED <<waits, ticket, issued>>
      /\ \A v \in Works : stage'[v] = IF stage[v] \in {"waiting", "running"} THEN "lost" ELSE stage[v]
  BY DEF Stop
<1>2. \A v \in Works : stage[v] \in Stages
  BY DEF QueueInv, QueueTypeOK
<1>3. TicketsFit' /\ ChainedToLast'
  BY <1>1, SameTickets DEF Over, Settled
<1>4. ServedInOrder'
  BY <1>1, <1>2 DEF QueueInv, TicketsFit, ServedInOrder, Arrived, Over, Settled, Stages
<1>5. TailIsLast'
  BY <1>1, <1>2 DEF QueueInv, TicketsFit, TailIsLast, Arrived, Over, Settled, Stages
<1> QED BY <1>3, <1>4, <1>5

LEMMA QueueInvStep == QueueInv /\ [QueueNext]_queueVars => QueueInv'
<1> SUFFICES ASSUME QueueInv, [QueueNext]_queueVars PROVE QueueInv'
  OBVIOUS
<1> DEFINE Rest == TicketsFit /\ ServedInOrder /\ TailIsLast /\ ChainedToLast
<1>1. QueueTypeOK' BY QueueTypeStep
<1>2. Rest'
  <2>1. CASE Stop BY <2>1, StopKeeps
  <2>2. ASSUME NEW w \in Works, Submit(w) PROVE Rest' BY <2>2, SubmitKeeps
  <2>3. ASSUME NEW w \in Works, Begin(w) PROVE Rest' BY <2>3, BeginKeeps
  <2>4. ASSUME NEW w \in Works, NEW how \in Settled, Settle(w, how) PROVE Rest'
    BY <2>4, SettleKeeps
  <2>5. CASE UNCHANGED queueVars
    BY <2>5 DEF queueVars, QueueInv, QueueTypeOK, TicketsFit, ServedInOrder, TailIsLast, ChainedToLast, Arrived
  <2> QED BY <2>1, <2>2, <2>3, <2>4, <2>5 DEF QueueNext
<1> QED BY <1>1, <1>2 DEF QueueInv

\* Two works never run at a time.
LEMMA OneRuns ==
  ASSUME QueueInv, NEW v \in Works, NEW w \in Works, stage[v] = "running", stage[w] = "running"
  PROVE  v = w
<1>1. Arrived(v) /\ Arrived(w) /\ ticket[v] \in Nat /\ ticket[w] \in Nat
  BY DEF QueueInv, QueueTypeOK, TicketsFit
<1>2. ~(ticket[v] < ticket[w]) /\ ~(ticket[w] < ticket[v])
  BY <1>1 DEF QueueInv, ServedInOrder, Over, Settled
<1>3. ticket[v] = ticket[w] BY <1>1, <1>2
<1> QED BY <1>1, <1>3 DEF QueueInv, TicketsFit

\* A work begins when no other runs.
LEMMA BeginsAlone ==
  ASSUME QueueInv, NEW w \in Works, Begin(w), NEW v \in Works
  PROVE  stage[v] # "running"
<1> SUFFICES ASSUME stage[v] = "running" PROVE FALSE
  OBVIOUS
<1>1. stage[w] = "waiting" /\ v # w BY DEF Begin
<1>2. Arrived(v) /\ Arrived(w) /\ ticket[v] \in Nat /\ ticket[w] \in Nat
  BY <1>1 DEF QueueInv, QueueTypeOK, TicketsFit
<1>3. ~(ticket[v] < ticket[w]) BY <1>2, BeginsInTurn DEF Over, Settled
<1>4. ~(ticket[w] < ticket[v]) BY <1>1, <1>2 DEF QueueInv, ServedInOrder, Over, Settled
<1>5. ticket[v] = ticket[w] BY <1>2, <1>3, <1>4
<1> QED BY <1>1, <1>2, <1>5 DEF QueueInv, TicketsFit

\* Every step of the queue is a step of the mutex.
LEMMA QueueStepIsFifo == QueueInv /\ [QueueNext]_queueVars => [Fifo!Next]_(Fifo!mutexVars)
<1> SUFFICES ASSUME QueueInv, [QueueNext]_queueVars PROVE [Fifo!Next]_(Fifo!mutexVars)
  OBVIOUS
<1>1. CASE Stop BY <1>1 DEF Stop, Fifo!Next, Fifo!Abandon
<1>2. ASSUME NEW w \in Works, Submit(w) PROVE Fifo!Next
  BY <1>2 DEF Submit, Fifo!Next, Fifo!Arrive
<1>3. ASSUME NEW w \in Works, Begin(w) PROVE Fifo!Next
  <2>1. \A v \in Works : ticket[v] \in 1..(ticket[w] - 1) => stage[v] \in Fifo!Ends
    <3> SUFFICES ASSUME NEW v \in Works, ticket[v] \in 1..(ticket[w] - 1) PROVE stage[v] \in Fifo!Ends
      OBVIOUS
    <3>1. Arrived(v) /\ ticket[v] < ticket[w] BY DEF QueueInv, QueueTypeOK, Arrived
    <3>2. stage[v] \in Over BY <1>3, <3>1, BeginsInTurn
    <3> QED BY <3>2 DEF Over, Settled, Fifo!Ends
  <2>2. Fifo!Enter(w) BY <1>3, <2>1 DEF Begin, Fifo!Enter
  <2> QED BY <2>2 DEF Fifo!Next
<1>4. ASSUME NEW w \in Works, NEW how \in Settled, Settle(w, how) PROVE Fifo!Next
  <2>1. Fifo!Leave(w) BY <1>4 DEF Settle, Settled, Fifo!Leave, Fifo!Ends
  <2> QED BY <2>1 DEF Fifo!Next
<1>5. CASE UNCHANGED queueVars BY <1>5 DEF queueVars, Fifo!mutexVars
<1> QED BY <1>1, <1>2, <1>3, <1>4, <1>5 DEF QueueNext

\* write-queue.ts: the chain of promises serves its callers one at a time, in the
\* order of their calls, whatever becomes of each.
THEOREM QueueIsFifo == QueueSpec => FifoSpec
<1>1. QueueInit => Fifo!Init BY DEF QueueInit, Fifo!Init
<1>2. QueueSpec => []QueueInv BY QueueInvInit, QueueInvStep, PTL DEF QueueSpec
<1> QED BY <1>1, <1>2, QueueStepIsFifo, PTL DEF QueueSpec, FifoSpec, Fifo!Spec
=============================================================================
