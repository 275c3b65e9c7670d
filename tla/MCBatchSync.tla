---------------------------- MODULE MCBatchSync ----------------------------
(***************************************************************************)
(* BatchSync on a small instance.                                          *)
(***************************************************************************)
EXTENDS BatchSync

CONSTANTS p1, p2, b1, b2, NoVersion

AllWorks == Syncs \cup Writers

TwoRanks == [p \in Pairs |-> IF p = p1 THEN 1 ELSE 2]

\* Two balances, of which one can fall to an amount that does not parse; one that
\* can fall below zero, if forced; or none.
SomeBalances ==
  {[p \in Pairs |-> IF p = p1 THEN 0 ELSE 4],
   [p \in Pairs |-> IF p = p1 THEN 2 ELSE NoRow],
   [p \in Pairs |-> NoRow]}
MinusOne == -1

Says(p, n, v) == [pair |-> p, balance |-> n, version |-> v]

\* What the simulator sends, against the order of the keys; the same without
\* versions; one pair with two amounts.
MixedPosts ==
  {[batch |-> b1, rows |-> <<Says(p2, 4, 4), Says(p1, 0, 0)>>],
   [batch |-> b1, rows |-> <<Says(p1, 0, NoVersion), Says(p2, 4, NoVersion)>>],
   [batch |-> b2, rows |-> <<Says(p1, 4, NoVersion), Says(p1, 2, NoVersion)>>]}
============================================================================
