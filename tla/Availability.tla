---------------------------- MODULE Availability ----------------------------
(***************************************************************************)
(* What the TimeOff service shows of a balance it has just refreshed: the  *)
(* rest of refreshFromHcm, which POST refresh, GET balances?fresh=true and *)
(* validate answer with.  It holds the row it saved, sums the reservations *)
(* at a later await, and everything of TimeOff goes on meanwhile.          *)
(***************************************************************************)
EXTENDS TimeOff

CONSTANT NothingShown   \* the refresh has not been answered

VARIABLES row,          \* balance in the row a refresh saved
          shown,        \* availableDays of its answer
          peak          \* history: highest availability since it asked the HCM

readingVars == <<vars, row, shown, peak>>

\* docs/TRD.md 309, at one instant.
Available(p) == hcmBalance[p] - Reserved(p)

Asking(f) == pc[f] \in {"idle", "fetching"}

ReadInit ==
  /\ Init
  /\ row = [f \in Refreshes |-> NoRow]
  /\ shown = [f \in Refreshes |-> NothingShown]
  /\ peak = [f \in Refreshes |-> 0]

\* The history goes on while the call runs.
Watch ==
  peak' = [f \in Refreshes |->
             IF Asking(f)' \/ shown[f] # NothingShown THEN peak[f]
             ELSE LET now == Available(target[f])'
                  IN  IF Asking(f) \/ now > peak[f] THEN now ELSE peak[f]]

\* A step of TimeOff; a refresh that saves its row keeps it, one that dies does not.
Proceed ==
  /\ Next
  /\ row' = [f \in Refreshes |->
               CASE Crash -> NoRow
                 [] pc[f] # "refreshed" /\ pc'[f] = "refreshed" -> seen[f]
                 [] OTHER -> row[f]]
  /\ UNCHANGED shown
  /\ Watch

\* availabilityFromBalance.
Show(f) ==
  /\ row[f] # NoRow
  /\ shown' = [shown EXCEPT ![f] = row[f] - Reserved(target[f])]
  /\ row' = [row EXCEPT ![f] = NoRow]
  /\ UNCHANGED vars
  /\ Watch

ReadNext == Proceed \/ \E f \in Refreshes : Show(f)

ReadSpec == ReadInit /\ [][ReadNext]_readingVars

\* docs/TRD.md 309: a fresh read returns the latest HCM balance less the PENDING
\* and APPROVING reservations.  What it shows as available was then available at
\* some time between its question to the HCM and its answer, or more was.
ShownWasAvailable ==
  \A f \in Refreshes : shown[f] # NothingShown => shown[f] <= peak[f]
=============================================================================
