----------------------------- MODULE MCTimeOff -----------------------------
(***************************************************************************)
(* TimeOff on small instances.                                             *)
(***************************************************************************)
EXTENDS TimeOff, TLC

CONSTANTS p1, p2, k1

\* Bodies without an Idempotency-Key, for one pair.
PlainDtos == [pair : {p1}, days : {1, 2}, key : {NoKey}]
OneDay == [pair : {p1}, days : {1}, key : {NoKey}]
\* Bodies under one key, with four different payloads, and one without.
KeyedDtos == [pair : {p1, p2}, days : {1, 2}, key : {k1}] \cup OneDay

\* The runs that assume no change by hand start from caches that are not too low.
HighInit == Init /\ CacheNeverLow
HighSpec == HighInit /\ [][Next]_vars

Symmetry == Permutations(Requests) \cup Permutations(Approvals)
============================================================================
