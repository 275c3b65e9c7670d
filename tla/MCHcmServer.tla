---------------------------- MODULE MCHcmServer ----------------------------
(***************************************************************************)
(* HcmServer on a small instance.                                          *)
(***************************************************************************)
EXTENDS HcmServer

CONSTANTS m1, m2, p1, r1, r2

\* A request, the same request with other days, and another one.
Two == [request |-> r1, pair |-> p1, days |-> 2]
One == [request |-> r1, pair |-> p1, days |-> 1]
Other == [request |-> r2, pair |-> p1, days |-> 2]

ThreeBodies == {Two, One, Other}
TwoFirst == [m \in Messages |-> IF m = m1 THEN {Two} ELSE ThreeBodies]

\* Enough for one request of two days, or nothing that is valid.
ThreeOrNone == {[amount |-> 3, valid |-> TRUE], [amount |-> 3, valid |-> FALSE], NoRow}
Five == {[amount |-> 5, valid |-> TRUE]}
============================================================================
