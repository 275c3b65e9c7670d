----------------------------- MODULE WriteQueue -----------------------------
(***************************************************************************)
(* The write queue of a process: one variable that holds a promise.  A     *)
(* work is chained to the promise it finds there, whether that is going to *)
(* be fulfilled or rejected, and leaves its own promise in the variable.   *)
(* No list of waiting works exists anywhere; that the chain behaves like   *)
(* one is what FifoMutex states.                                           *)
(***************************************************************************)
EXTENDS Naturals

CONSTANTS Works,    \* calls of runSerializedWrite, each used once
          NoWork    \* the promise the variable holds at first, long fulfilled

VARIABLES tail,     \* work whose promise the variable holds
          waits,    \* work whose promise each work was chained to
          stage,    \* idle, waiting, running, or how the work's promise settled
          ticket,   \* history: place of each work in the order of the calls
          issued    \* history: calls so far

queueVars == <<tail, waits, stage, ticket, issued>>

ASSUME WriteQueueAssumption == NoWork \notin Works

\* A work that was lost with its process never settles, but nothing in the new
\* process is chained to it.
Settled == {"fulfilled", "rejected"}
Stages == {"idle", "waiting", "running", "lost"} \cup Settled

QueueTypeOK ==
  /\ tail \in Works \cup {NoWork}
  /\ waits \in [Works -> Works \cup {NoWork}]
  /\ stage \in [Works -> Stages]
  /\ ticket \in [Works -> Nat]
  /\ issued \in Nat

QueueInit ==
  /\ tail = NoWork
  /\ waits = [w \in Works |-> NoWork]
  /\ stage = [w \in Works |-> "idle"]
  /\ ticket = [w \in Works |-> 0]
  /\ issued = 0

\* Mutation of Submit: the variable keeps the promise it had.
SubmitUnchained(w) ==
  /\ stage[w] = "idle"
  /\ stage' = [stage EXCEPT ![w] = "waiting"]
  /\ waits' = [waits EXCEPT ![w] = tail]
  /\ issued' = issued + 1
  /\ ticket' = [ticket EXCEPT ![w] = issued + 1]
  /\ UNCHANGED tail

Submit(w) ==
  /\ stage[w] = "idle"
  /\ stage' = [stage EXCEPT ![w] = "waiting"]
  /\ waits' = [waits EXCEPT ![w] = tail]
  /\ tail' = w
  /\ issued' = issued + 1
  /\ ticket' = [ticket EXCEPT ![w] = issued + 1]

\* Mutation of Begin: a work is chained to the fulfilment of the last one only.
BeginIfFulfilled(w) ==
  /\ stage[w] = "waiting"
  /\ waits[w] # NoWork => stage[waits[w]] = "fulfilled"
  /\ stage' = [stage EXCEPT ![w] = "running"]
  /\ UNCHANGED <<tail, waits, ticket, issued>>

Begin(w) ==
  /\ stage[w] = "waiting"
  /\ waits[w] # NoWork => stage[waits[w]] \in Settled
  /\ stage' = [stage EXCEPT ![w] = "running"]
  /\ UNCHANGED <<tail, waits, ticket, issued>>

Settle(w, how) ==
  /\ stage[w] = "running"
  /\ how \in Settled
  /\ stage' = [stage EXCEPT ![w] = how]
  /\ UNCHANGED <<tail, waits, ticket, issued>>

\* The process stops; the next one starts with a variable of its own.
Stop ==
  /\ tail' = NoWork
  /\ stage' = [w \in Works |-> IF stage[w] \in {"waiting", "running"} THEN "lost" ELSE stage[w]]
  /\ UNCHANGED <<waits, ticket, issued>>

QueueNext ==
  \/ Stop
  \/ \E w \in Works : Submit(w) \/ Begin(w)
  \/ \E w \in Works, how \in Settled : Settle(w, how)

QueueSpec == QueueInit /\ [][QueueNext]_queueVars

Fifo == INSTANCE FifoMutex

\* The chain of promises is a mutex that serves its callers in the order they
\* came, and a work that fails holds up nobody behind it.
FifoSpec == Fifo!Spec
=============================================================================
