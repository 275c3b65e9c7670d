----------------------------- MODULE BatchSync -----------------------------
(***************************************************************************)
(* Batches of balances from the HCM: POST /sync/hcm/balances of the        *)
(* TimeOff service and the push of the simulator that calls it, against    *)
(* everything else that writes the cached balances - refreshes, which do   *)
(* not wait for the write queue, and the transactions that do - and the    *)
(* filings that lower the official balances meanwhile.                     *)
(*                                                                         *)
(* The process has one SQLite connection.  A row a refresh saves while a   *)
(* transaction is open becomes part of that transaction, and disappears    *)
(* with it when it is rolled back: undo is the cache at its BEGIN.         *)
(***************************************************************************)
EXTENDS WriteQueue, Integers, SequencesExt

CONSTANTS Syncs,        \* calls of POST /sync/hcm/balances
          Writers,      \* other transactions on the write queue
          Refreshes,    \* calls that refresh one cached balance
          Batches,      \* batch ids
          Pairs,        \* employee/location pairs
          Rank,         \* place of a pair's sort key among all sort keys
          Starts,       \* official balances the HCM may start with
          Posts,        \* bodies a client other than the simulator may send
          Answers,      \* balances the HCM may have answered an approval with
          Days,         \* days a filing may take
          Lowest,       \* balance below which nothing is filed: a bound of the model
          Versions,     \* versions other clients may give a row, or none
          Unparseable,  \* amounts whose decimal form day-utils rejects
          NoRow,        \* no row, or at the HCM one that is not valid
          NoEvent,      \* no sync event with this batch id
          NoUndo,       \* no transaction is open
          NoBatch,      \* the call has not been made
          NoPair        \* the refresh has not been called

\* Amounts that are read: neither negative nor without a decimal form.
Readable == Nat \ Unparseable

Row == [balance : Readable, source : {"REALTIME", "BATCH"}]

\* A row of a batch.  The version the simulator gives a balance says no more than
\* the balance itself, and is written as that.
Record == [pair : Pairs, balance : Int, version : Int \cup Versions]

Caches == [Pairs -> Row \cup {NoRow}]

ASSUME BatchSyncAssumption ==
  /\ Works = Syncs \cup Writers /\ Syncs \cap Writers = {}
  /\ NoRow \notin Int \cup Row \cup Record
  /\ NoBatch \notin Batches /\ NoPair \notin Pairs
  /\ NoUndo \notin Caches /\ NoEvent \notin Seq(Record)
  /\ Rank \in [Pairs -> Nat \ {0}]
  /\ Starts \subseteq [Pairs -> Int \cup {NoRow}]
  /\ \A start \in Starts : IsFiniteSet({p \in Pairs : start[p] # NoRow})
  /\ Answers \subseteq Readable /\ Days \subseteq Nat \ {0} /\ Lowest \in Int
  /\ Posts \subseteq [batch : Batches, rows : Seq(Record) \ {<<>>}]

VARIABLES official,     \* the HCM's balance of each pair
          batch, rows,  \* body of each call: batch id, rows as they were sent
          answer,       \* what the call was answered
          step,         \* where the transaction of a call stands
          saved,        \* rows of the batch its transaction has saved
          events,       \* recorded payload of each batch id
          cache,        \* cached balance of each pair, and who wrote it
          undo,         \* the cache when the open transaction began
          pc, target, seen  \* refreshes: await they stand at, pair, balance read

callVars == <<batch, rows, answer, step, saved>>
refreshVars == <<pc, target, seen>>
vars == <<queueVars, official, callVars, events, cache, undo, refreshVars>>

Ended == {"applied", "idempotent", "conflict", "invalid", "error", "nothing"}
Saving == {"finding", "inserting", "updating"}

TypeOK ==
  /\ QueueTypeOK
  /\ official \in [Pairs -> Int \cup {NoRow}]
  /\ batch \in [Syncs -> Batches \cup {NoBatch}]
  /\ rows \in [Syncs -> Seq(Record)]
  /\ answer \in [Syncs -> Ended \cup {"none"}]
  /\ step \in [Syncs -> Saving \cup {"looking"}]
  /\ saved \in [Syncs -> Nat]
  /\ events \in [Batches -> Seq(Record) \cup {NoEvent}]
  /\ cache \in Caches
  /\ undo \in Caches \cup {NoUndo}
  /\ pc \in [Refreshes -> Saving \cup {"idle", "saved", "failed", "dead"}]
  /\ target \in [Refreshes -> Pairs \cup {NoPair}]
  /\ seen \in [Refreshes -> Nat]

\* Nobody changes a balance by hand here, and what a client sends was once true.
NotLow(p, row) == row # NoRow /\ official[p] # NoRow => row.balance >= official[p]

Init ==
  /\ QueueInit
  /\ official \in Starts
  /\ cache = [p \in Pairs |-> NoRow]
  /\ undo = NoUndo
  /\ batch = [s \in Syncs |-> NoBatch]
  /\ rows = [s \in Syncs |-> <<>>]
  /\ answer = [s \in Syncs |-> "none"]
  /\ step = [s \in Syncs |-> "looking"]
  /\ saved = [s \in Syncs |-> 0]
  /\ events = [b \in Batches |-> NoEvent]
  /\ pc = [f \in Refreshes |-> "idle"]
  /\ target = [f \in Refreshes |-> NoPair]
  /\ seen = [f \in Refreshes |-> 0]

(***************************************************************************)
(* Sending a batch.  The simulator sends all its valid balances, as they   *)
(* are, in the order of their sort keys, and from then on the batch is a   *)
(* message.  Any other client sends what some earlier look at the balances *)
(* gave it, in any order, a pair twice or not at all.                      *)
(***************************************************************************)
\* Mutation of Sorted: the rows are hashed as they were sent.
Unsorted(records) == records

\* The sort is stable: of two rows with one key the earlier one stays before the
\* other.  A row's place is the number of rows that come no later.
NotAfter(records, j, i) ==
  LET Key(n) == Rank[records[n].pair]
  IN  Key(j) < Key(i) \/ (Key(j) = Key(i) /\ j <= i)

Place(records, i) == Cardinality({j \in DOMAIN records : NotAfter(records, j, i)})

Sorted(records) ==
  [n \in DOMAIN records |-> records[CHOOSE i \in DOMAIN records : Place(records, i) = n]]

RowFor(p) == [pair |-> p, balance |-> official[p], version |-> official[p]]

AllValid == Sorted(SetToSeq({RowFor(p) : p \in {q \in Pairs : official[q] # NoRow}}))

Push(s, b) ==
  /\ batch[s] = NoBatch
  /\ batch' = [batch EXCEPT ![s] = b]
  /\ rows' = [rows EXCEPT ![s] = AllValid]
  /\ answer' = IF AllValid = <<>> THEN [answer EXCEPT ![s] = "nothing"] ELSE answer
  /\ UNCHANGED <<queueVars, official, step, saved, events, cache, undo, refreshVars>>

(***************************************************************************)
(* syncBalances.  One amount that is negative or does not parse refuses    *)
(* the whole batch, before it gets to the queue.  The hash stands for the  *)
(* sorted rows, versions included.                                         *)
(***************************************************************************)
Normalized(s) == Sorted(rows[s])

\* Mutation of Receive: the amounts are taken as they come.
ReceiveUnchecked(s, records) == Submit(s) /\ UNCHANGED answer

Receive(s, records) ==
  IF \E i \in DOMAIN records : records[i].balance \notin Readable
    THEN answer' = [answer EXCEPT ![s] = "invalid"] /\ UNCHANGED queueVars
    ELSE Submit(s) /\ UNCHANGED answer

Arrive(s) ==
  /\ rows[s] # <<>> /\ answer[s] = "none" /\ stage[s] = "idle"
  /\ Receive(s, rows[s])
  /\ UNCHANGED <<official, batch, rows, step, saved, events, cache, undo, refreshVars>>

Post(s, body) ==
  /\ batch[s] = NoBatch
  /\ \A i \in DOMAIN body.rows : NotLow(body.rows[i].pair, body.rows[i])
  /\ batch' = [batch EXCEPT ![s] = body.batch]
  /\ rows' = [rows EXCEPT ![s] = body.rows]
  /\ Receive(s, body.rows)
  /\ UNCHANGED <<official, step, saved, events, cache, undo, refreshVars>>

(***************************************************************************)
(* The transaction of a batch.                                             *)
(***************************************************************************)
\* Mutation of Rollback: what was saved stays.
KeepSaved == undo' = NoUndo /\ UNCHANGED cache

Rollback == cache' = undo /\ undo' = NoUndo
Commit == undo' = NoUndo

SyncBegin(s) ==
  /\ Begin(s)
  /\ undo' = cache
  /\ UNCHANGED <<official, callVars, events, cache, refreshVars>>

Answer(s, a) == answer' = [answer EXCEPT ![s] = a]
Goto(s, l) == step' = [step EXCEPT ![s] = l]

\* A batch id on record: the same rows are answered, other rows are a conflict,
\* whose exception rolls the transaction back.
SyncReplay(s) ==
  /\ stage[s] = "running" /\ step[s] = "looking"
  /\ events[batch[s]] # NoEvent
  /\ IF events[batch[s]] = Normalized(s)
       THEN Answer(s, "idempotent") /\ Settle(s, "fulfilled") /\ Commit /\ UNCHANGED cache
       ELSE Answer(s, "conflict") /\ Settle(s, "rejected") /\ Rollback
  /\ UNCHANGED <<official, batch, rows, step, saved, events, refreshVars>>

\* Mutation of SyncNew: nobody looks for an earlier record of the batch id.
SyncNewAlways(s) ==
  /\ stage[s] = "running" /\ step[s] = "looking"
  /\ Goto(s, "finding")
  /\ UNCHANGED <<queueVars, official, batch, rows, answer, saved, events, cache, undo, refreshVars>>

SyncNew(s) ==
  /\ stage[s] = "running" /\ step[s] = "looking"
  /\ events[batch[s]] = NoEvent
  /\ Goto(s, "finding")
  /\ UNCHANGED <<queueVars, official, batch, rows, answer, saved, events, cache, undo, refreshVars>>

Current(s) == Normalized(s)[saved[s] + 1]

SyncFind(s) ==
  /\ stage[s] = "running" /\ step[s] = "finding"
  /\ saved[s] < Len(rows[s])
  /\ Goto(s, IF cache[Current(s).pair] = NoRow THEN "inserting" ELSE "updating")
  /\ UNCHANGED <<queueVars, official, batch, rows, answer, saved, events, cache, undo, refreshVars>>

SyncFails(s) ==
  /\ Answer(s, "error") /\ Settle(s, "rejected") /\ Rollback
  /\ Goto(s, "looking")
  /\ saved' = [saved EXCEPT ![s] = 0]
  /\ UNCHANGED events

SyncSaves(s, p, n) ==
  /\ cache' = [cache EXCEPT ![p] = [balance |-> n, source |-> "BATCH"]]
  /\ saved' = [saved EXCEPT ![s] = @ + 1]
  /\ Goto(s, "finding")
  /\ UNCHANGED <<queueVars, answer, events, undo>>

\* Mutation of SyncSave: the amounts are those of the rows as they were sent.
SyncSaveUnsorted(s) ==
  /\ stage[s] = "running" /\ step[s] \in {"inserting", "updating"}
  /\ IF step[s] = "inserting" /\ cache[Current(s).pair] # NoRow
       THEN SyncFails(s)
       ELSE SyncSaves(s, Current(s).pair, rows[s][saved[s] + 1].balance)
  /\ UNCHANGED <<official, batch, rows, refreshVars>>

\* A refresh may have inserted the row since it was looked for: the unique index
\* then fails the batch as a whole.
SyncSave(s) ==
  /\ stage[s] = "running" /\ step[s] \in {"inserting", "updating"}
  /\ IF step[s] = "inserting" /\ cache[Current(s).pair] # NoRow
       THEN SyncFails(s)
       ELSE SyncSaves(s, Current(s).pair, Current(s).balance)
  /\ UNCHANGED <<official, batch, rows, refreshVars>>

SyncSucceeds(s) ==
  /\ events' = [events EXCEPT ![batch[s]] = Normalized(s)]
  /\ Answer(s, "applied") /\ Settle(s, "fulfilled") /\ Commit
  /\ Goto(s, "looking")
  /\ saved' = [saved EXCEPT ![s] = 0]
  /\ UNCHANGED cache

\* Mutation of SyncCommit: the last row is left out.
SyncCommitEarly(s) ==
  /\ stage[s] = "running" /\ step[s] = "finding"
  /\ saved[s] >= Len(rows[s]) - 1
  /\ IF events[batch[s]] # NoEvent THEN SyncFails(s) ELSE SyncSucceeds(s)
  /\ UNCHANGED <<official, batch, rows, refreshVars>>

\* The event is inserted, its batch id under a unique index, and all is committed.
SyncCommit(s) ==
  /\ stage[s] = "running" /\ step[s] = "finding"
  /\ saved[s] = Len(rows[s])
  /\ IF events[batch[s]] # NoEvent THEN SyncFails(s) ELSE SyncSucceeds(s)
  /\ UNCHANGED <<official, batch, rows, refreshVars>>

(***************************************************************************)
(* Other transactions on the queue: one that finalizes an approval saves   *)
(* the balance the HCM answered it with at some time, one that is refused  *)
(* throws and is rolled back.                                              *)
(***************************************************************************)
WriterArrive(w) ==
  /\ Submit(w)
  /\ UNCHANGED <<official, callVars, events, cache, undo, refreshVars>>

WriterBegin(w) ==
  /\ Begin(w)
  /\ undo' = cache
  /\ UNCHANGED <<official, callVars, events, cache, refreshVars>>

WriterSaves(w, p, n) ==
  /\ Settle(w, "fulfilled") /\ Commit
  /\ cache' = [cache EXCEPT ![p] = [balance |-> n, source |-> "REALTIME"]]
  /\ NotLow(p, cache'[p])
  /\ UNCHANGED <<official, callVars, events, refreshVars>>

WriterRefused(w) ==
  /\ Settle(w, "rejected")
  /\ Rollback
  /\ UNCHANGED <<official, callVars, events, refreshVars>>

(***************************************************************************)
(* A refresh: read the official balance, look for the row, save it.  It    *)
(* fails where there is no valid row, and where the amount is not read.    *)
(***************************************************************************)
RefreshFetch(f, p) ==
  /\ pc[f] = "idle"
  /\ IF official[p] \notin Readable
       THEN pc' = [pc EXCEPT ![f] = "failed"] /\ UNCHANGED <<target, seen>>
       ELSE /\ pc' = [pc EXCEPT ![f] = "finding"]
            /\ target' = [target EXCEPT ![f] = p]
            /\ seen' = [seen EXCEPT ![f] = official[p]]
  /\ UNCHANGED <<queueVars, official, callVars, events, cache, undo>>

RefreshFind(f) ==
  /\ pc[f] = "finding"
  /\ pc' = [pc EXCEPT ![f] = IF cache[target[f]] = NoRow THEN "inserting" ELSE "updating"]
  /\ UNCHANGED <<queueVars, official, callVars, events, cache, undo, target, seen>>

RefreshSave(f) ==
  /\ pc[f] \in {"inserting", "updating"}
  /\ IF pc[f] = "inserting" /\ cache[target[f]] # NoRow
       THEN pc' = [pc EXCEPT ![f] = "failed"] /\ UNCHANGED cache
       ELSE /\ pc' = [pc EXCEPT ![f] = "saved"]
            /\ cache' = [cache EXCEPT ![target[f]] = [balance |-> seen[f], source |-> "REALTIME"]]
  /\ target' = [target EXCEPT ![f] = NoPair]
  /\ seen' = [seen EXCEPT ![f] = 0]
  /\ UNCHANGED <<queueVars, official, callVars, events, undo>>

(***************************************************************************)
(* The HCM files time off, with its switch forceApplySuccess set also what *)
(* the balance does not cover; the process of the service stops, and with  *)
(* it the open transaction.                                                *)
(***************************************************************************)
File(p, d, force) ==
  /\ official[p] # NoRow
  /\ official[p] >= d \/ force
  /\ official[p] - d >= Lowest
  /\ official' = [official EXCEPT ![p] = @ - d]
  /\ UNCHANGED <<queueVars, callVars, events, cache, undo, refreshVars>>

Crash ==
  /\ \E w \in Works : stage[w] \in {"waiting", "running"}
  /\ Stop
  /\ IF undo = NoUndo THEN UNCHANGED <<cache, undo>> ELSE Rollback
  /\ step' = [s \in Syncs |-> "looking"]
  /\ saved' = [s \in Syncs |-> 0]
  /\ pc' = [f \in Refreshes |-> IF pc[f] \in Saving THEN "dead" ELSE pc[f]]
  /\ target' = [f \in Refreshes |-> NoPair]
  /\ seen' = [f \in Refreshes |-> 0]
  /\ UNCHANGED <<official, batch, rows, answer, events>>

(***************************************************************************)
(* The specification.                                                      *)
(***************************************************************************)
SyncStep(s) ==
  \/ SyncBegin(s) \/ SyncReplay(s) \/ SyncNew(s)
  \/ SyncFind(s) \/ SyncSave(s) \/ SyncCommit(s)

WriterStep(w) ==
  \/ WriterBegin(w)
  \/ \E p \in Pairs, n \in Answers : WriterSaves(w, p, n)
  \/ WriterRefused(w)

RefreshStep(f) == RefreshFind(f) \/ RefreshSave(f)

Next ==
  \/ \E s \in Syncs, b \in Batches : Push(s, b)
  \/ \E s \in Syncs, body \in Posts : Post(s, body)
  \/ \E s \in Syncs : Arrive(s)
  \/ \E s \in Syncs : SyncStep(s)
  \/ \E w \in Writers : WriterArrive(w)
  \/ \E w \in Writers : WriterStep(w)
  \/ \E f \in Refreshes, p \in Pairs : RefreshFetch(f, p)
  \/ \E f \in Refreshes : RefreshStep(f)
  \/ \E p \in Pairs, d \in Days, force \in BOOLEAN : File(p, d, force)
  \/ Crash

Spec == Init /\ [][Next]_vars

\* Every await of a transaction ends, and the promise of an ended work runs what
\* is chained to it.  Nothing is assumed of the clients or the HCM.
FairSpec ==
  /\ Spec
  /\ \A s \in Syncs : WF_vars(SyncStep(s))
  /\ \A w \in Writers : WF_vars(WriterStep(w))

(***************************************************************************)
(* Properties.                                                             *)
(***************************************************************************)
RowsOf(records, p) == {i \in DOMAIN records : records[i].pair = p}

\* Two batches say the same: one is the other in another order, except for the
\* rows of one pair, the last of which counts.
SameBatch(x, y) ==
  \E pi \in Bijection(DOMAIN x, DOMAIN y) :
    /\ \A i \in DOMAIN x : y[pi[i]] = x[i]
    /\ \A p \in Pairs : \A i, j \in RowsOf(x, p) : i < j => pi[i] < pi[j]

\* Whatever a call was answered stays true: "applied" and "idempotent" mean that
\* the record of the batch id, which no later rollback or crash takes back, says
\* what the call said, in whatever order; "conflict" that it says something else, of
\* a pair, a balance or only of a version.
AnswersTrue ==
  \A s \in Syncs :
    LET recorded == events[batch[s]]
    IN  /\ answer[s] \in {"applied", "idempotent"} =>
             recorded # NoEvent /\ SameBatch(recorded, rows[s])
        /\ answer[s] = "conflict" =>
             recorded # NoEvent /\ ~SameBatch(recorded, rows[s])

\* Some row of a batch gives a pair this balance.
Names(records, p, n) == \E row \in Range(records) : row.pair = p /\ row.balance = n

\* A balance whose source is a batch was committed together with the record of
\* that batch, or belongs to the transaction now open: no refused, failed or
\* interrupted batch leaves some of its rows behind.
BatchIsAtomic ==
  \A p \in Pairs : cache[p] # NoRow /\ cache[p].source = "BATCH" =>
    \/ \E b \in Batches : events[b] # NoEvent /\ Names(events[b], p, cache[p].balance)
    \/ \E s \in Syncs : stage[s] = "running" /\ Names(rows[s], p, cache[p].balance)

\* A batch may be older than what it overwrites, and a row may fall back to what
\* it was when a transaction is rolled back; but neither pulls a cached balance
\* below the official one.
CacheNeverLow == \A p \in Pairs : NotLow(p, cache[p])

\* When a batch is applied, every pair it names has a row, and where no refresh
\* came in between, it is the last one the batch has for that pair.
BatchLands ==
  [][\A s \in Syncs : answer[s] = "none" /\ answer'[s] = "applied" =>
       \A p \in Pairs : RowsOf(rows[s], p) # {} =>
         /\ cache'[p] # NoRow
         /\ cache'[p].source = "BATCH" =>
              cache'[p].balance = rows[s][Max(RowsOf(rows[s], p))].balance]_vars

\* A call fails only while its batch is not on record, so that it can be sent
\* again: two calls with one batch id never meet in the unique index.
ReplayIsAnswered ==
  [][\A s \in Syncs : answer[s] = "none" /\ answer'[s] = "error" =>
       events[batch[s]] = NoEvent]_vars

\* Under FairSpec: a call that waits for the queue is served, whatever became of
\* the works before it.
SyncEnds == \A s \in Syncs : stage[s] = "waiting" ~> stage[s] \in Settled \cup {"lost"}
=============================================================================
