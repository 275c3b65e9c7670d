----------------------------- MODULE FifoMutex -----------------------------
(***************************************************************************)
(* What a queue of writers promises: works are numbered as they arrive,    *)
(* and one may start only when every work with a smaller number has ended, *)
(* whatever its end was.  At most one runs at a time, in order of arrival. *)
(***************************************************************************)
EXTENDS Naturals

CONSTANT Works

VARIABLES stage,    \* idle, waiting, running, or how the work ended
          ticket,   \* number of each work, 0 before it arrives
          issued    \* numbers given out so far

mutexVars == <<stage, ticket, issued>>

Ends == {"fulfilled", "rejected", "lost"}

Init ==
  /\ stage = [w \in Works |-> "idle"]
  /\ ticket = [w \in Works |-> 0]
  /\ issued = 0

Arrive(w) ==
  /\ stage[w] = "idle"
  /\ stage' = [stage EXCEPT ![w] = "waiting"]
  /\ issued' = issued + 1
  /\ ticket' = [ticket EXCEPT ![w] = issued + 1]

Enter(w) ==
  /\ stage[w] = "waiting"
  /\ \A v \in Works : ticket[v] \in 1..(ticket[w] - 1) => stage[v] \in Ends
  /\ stage' = [stage EXCEPT ![w] = "running"]
  /\ UNCHANGED <<ticket, issued>>

Leave(w) ==
  /\ stage[w] = "running"
  /\ \E end \in Ends : stage' = [stage EXCEPT ![w] = end]
  /\ UNCHANGED <<ticket, issued>>

\* The process stops: nobody is left to run what has not ended.
Abandon ==
  /\ stage' = [w \in Works |-> IF stage[w] \in {"waiting", "running"} THEN "lost" ELSE stage[w]]
  /\ UNCHANGED <<ticket, issued>>

Next == Abandon \/ \E w \in Works : Arrive(w) \/ Enter(w) \/ Leave(w)

Spec == Init /\ [][Next]_mutexVars
============================================================================
