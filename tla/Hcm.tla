-------------------------------- MODULE Hcm --------------------------------
(***************************************************************************)
(* The HCM as the TimeOff service meets it over HTTP: a balance per        *)
(* employee/location pair, the time off it has filed, and the simulator's  *)
(* switch that files time off without checking the balance.                *)
(*                                                                         *)
(* Amounts are integers, in the unit the program stores (hundredths of a   *)
(* day).  The availability switch of the simulator is not part of the      *)
(* state: it is read before the response delay, so a call may be answered  *)
(* with 503 or go on whatever the switch says by then, and the modules     *)
(* that make calls allow both at any time.                                 *)
(***************************************************************************)
EXTENDS Integers

CONSTANTS Pairs,        \* employee/location pairs
          Requests,     \* time-off request ids
          Approvals,    \* calls of POST time-off; each names the transaction id
                        \* (a new UUID) the HCM would give its filing
          Balances,     \* the balances the databases may hold at the start
          ForceValues,  \* the values forceApplySuccess may be given
          Unparseable,  \* amounts whose decimal form day-utils rejects
          NotFiled      \* filings[r] when the HCM has filed nothing for r

ASSUME HcmAssumption ==
  /\ Balances \subseteq Nat
  /\ ForceValues \subseteq BOOLEAN
  /\ Unparseable \subseteq Nat
  /\ NotFiled \notin [txn : Approvals, balance : Int]

VARIABLES hcmBalance,   \* the official balance of each pair
          hcmValid,     \* the pair has a balance row marked valid
          forceApply,   \* forceApplySuccess
          filings       \* the applied-request row of each request id

hcmVars == <<hcmBalance, hcmValid, forceApply, filings>>

Filings == [txn : Approvals, balance : Int]

HcmTypeOK ==
  /\ hcmBalance \in [Pairs -> Int]
  /\ hcmValid \in [Pairs -> BOOLEAN]
  /\ forceApply \in BOOLEAN
  /\ filings \in [Requests -> Filings \cup {NotFiled}]

HcmInit ==
  /\ hcmBalance \in [Pairs -> Balances]
  /\ hcmValid \in [Pairs -> BOOLEAN]
  /\ forceApply \in ForceValues
  /\ filings = [r \in Requests |-> NotFiled]

Filed(r) == filings[r] # NotFiled

\* The client turns the decimal amount of a response back into hundredths; it
\* throws on a negative one and on those its rounding test refuses.
Parses(n) == n >= 0 /\ n \notin Unparseable

\* GET balances answers with an amount the client accepts.
BalanceAnswers(p) == hcmValid[p] /\ Parses(hcmBalance[p])

(***************************************************************************)
(* POST time-off, one transaction of the simulator's write queue.  A       *)
(* request id that was filed before is answered with the row it left.      *)
(***************************************************************************)
CanFile(p, d) == hcmValid[p] /\ (hcmBalance[p] >= d \/ forceApply)

\* Mutation of FileTimeOff: nobody looks for an earlier filing.
FileTwice(r, p, d, a) ==
  /\ CanFile(p, d)
  /\ hcmBalance' = [hcmBalance EXCEPT ![p] = @ - d]
  /\ filings' = [filings EXCEPT ![r] = [txn |-> a, balance |-> hcmBalance[p] - d]]
  /\ UNCHANGED <<hcmValid, forceApply>>

FileTimeOff(r, p, d, a) ==
  /\ ~Filed(r)
  /\ CanFile(p, d)
  /\ hcmBalance' = [hcmBalance EXCEPT ![p] = @ - d]
  /\ filings' = [filings EXCEPT ![r] = [txn |-> a, balance |-> hcmBalance[p] - d]]
  /\ UNCHANGED <<hcmValid, forceApply>>

\* PUT balances: the amount passes the same decimal conversion on its way in.
PutBalance(p, n, v) ==
  /\ Parses(n)
  /\ hcmBalance' = [hcmBalance EXCEPT ![p] = n]
  /\ hcmValid' = [hcmValid EXCEPT ![p] = v]
  /\ UNCHANGED <<forceApply, filings>>

\* POST config, for the one switch the balances depend on.
SetForce(f) ==
  /\ forceApply' = f
  /\ UNCHANGED <<hcmBalance, hcmValid, filings>>
============================================================================
