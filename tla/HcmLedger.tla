----------------------------- MODULE HcmLedger -----------------------------
(***************************************************************************)
(* What the HCM promises a client that files time off: a request is filed  *)
(* once and for good, whoever files it and however often; whoever is told  *)
(* that it is filed is told of that one filing, and a message that was     *)
(* answered otherwise files nothing, then or later.                        *)
(***************************************************************************)
EXTENDS Integers

CONSTANTS Messages,     \* apply messages, each used once
          Requests,     \* request ids
          Bodies,       \* what a message may ask to be filed
          NotFiled,     \* nothing is filed for the request
          NoBody        \* the message has not been sent

VARIABLES body,         \* what each message asks to be filed
          record,       \* the filing of each request
          answer        \* what each message was answered

ledgerVars == <<body, record, answer>>

Silence == [kind |-> "none", txn |-> NoBody, amount |-> 0]
Declined == [kind : {"refused", "down", "error"}, txn : {NoBody}, amount : {0}]

\* The record of a filing, as it is told to whoever asks for it.
Told(filing) == [kind |-> "filed", txn |-> filing.txn, amount |-> filing.amount]

Init ==
  /\ body = [m \in Messages |-> NoBody]
  /\ record = [r \in Requests |-> NotFiled]
  /\ answer = [m \in Messages |-> Silence]

Send(m, b) ==
  /\ body[m] = NoBody
  /\ body' = [body EXCEPT ![m] = b]
  /\ UNCHANGED <<record, answer>>

File(m, r) ==
  /\ answer[m] = Silence /\ record[r] = NotFiled
  /\ body[m] # NoBody /\ body[m].request = r
  /\ record'[r] \in [body : {body[m]}, txn : {m}, amount : Int]
  /\ record' = [record EXCEPT ![r] = record'[r]]
  /\ answer' = [answer EXCEPT ![m] = Told(record'[r])]
  /\ UNCHANGED body

Replay(m, r) ==
  /\ answer[m] = Silence /\ record[r] # NotFiled
  /\ body[m] # NoBody /\ record[r].body = body[m]
  /\ answer' = [answer EXCEPT ![m] = Told(record[r])]
  /\ UNCHANGED <<body, record>>

Decline(m) ==
  /\ body[m] # NoBody /\ answer[m] = Silence
  /\ answer'[m] \in Declined
  /\ answer' = [answer EXCEPT ![m] = answer'[m]]
  /\ UNCHANGED <<body, record>>

Next ==
  \/ \E m \in Messages, b \in Bodies : Send(m, b)
  \/ \E m \in Messages, r \in Requests : File(m, r) \/ Replay(m, r)
  \/ \E m \in Messages : Decline(m)

Spec == Init /\ [][Next]_ledgerVars
============================================================================
