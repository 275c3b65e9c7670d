-------------------------- MODULE RequestLifecycle --------------------------
(***************************************************************************)
(* What the TimeOff service promises about a request, whatever happens to  *)
(* calls, messages and processes: its status moves only along the edges    *)
(* below, the HCM files it at most once and only after an approval was     *)
(* tried, and it is approved only while it is filed.  A filing may come at *)
(* any time after the first try, also when the request is pending again or *)
(* closed: the abort of an exchange does not call the message back.        *)
(***************************************************************************)
CONSTANT Requests

VARIABLES status,   \* as in the status column
          tried,    \* an approval has locked the request at some time
          filed     \* the HCM holds time off for the request

vars == <<status, tried, filed>>

Init ==
  /\ status = [r \in Requests |-> "NONE"]
  /\ tried = [r \in Requests |-> FALSE]
  /\ filed = [r \in Requests |-> FALSE]

Move(r, from, to) ==
  /\ status[r] = from
  /\ status' = [status EXCEPT ![r] = to]

Submit(r) == Move(r, "NONE", "PENDING") /\ UNCHANGED <<tried, filed>>

Lock(r) ==
  /\ Move(r, "PENDING", "APPROVING")
  /\ tried' = [tried EXCEPT ![r] = TRUE]
  /\ UNCHANGED filed

Release(r) == Move(r, "APPROVING", "PENDING") /\ UNCHANGED <<tried, filed>>

File(r) ==
  /\ tried[r] /\ ~filed[r]
  /\ filed' = [filed EXCEPT ![r] = TRUE]
  /\ UNCHANGED <<status, tried>>

Approve(r) ==
  /\ filed[r]
  /\ Move(r, "APPROVING", "APPROVED")
  /\ UNCHANGED <<tried, filed>>

Close(r) ==
  /\ \E s \in {"REJECTED", "CANCELLED"} : Move(r, "PENDING", s)
  /\ UNCHANGED <<tried, filed>>

Next == \E r \in Requests :
  Submit(r) \/ Lock(r) \/ Release(r) \/ File(r) \/ Approve(r) \/ Close(r)

Spec == Init /\ [][Next]_vars
=============================================================================
