# Verification of the time-off service

TLA+ models of the time-off microservice in `src/`: a NestJS service that takes
time-off requests, keeps a local cache of balances, and asks an HCM (Human
Capital Management system, here a simulator in a process of its own) to file what a
manager approves. The modules below are checked with TLC on small instances, and
the safety properties of the approval protocol, the balances, the write queue, the batches and
the filing of time off are proved with TLAPS for every size.

Everything is translated from the code; the documents in `src/docs` are used
only for the six promises that the code turns out not to keep (see
[Where the documents and the code disagree](#where-the-documents-and-the-code-disagree)).

## The system

Two processes, each with a SQLite file and a FIFO write queue of its own:

| Component | State | Operations | Talks to |
| --- | --- | --- | --- |
| Requests (`time-off-requests.service.ts`) | one row per request: employee, location, days, status, Idempotency-Key and payload hash, approval attempt id, HCM transaction id | `create`, `approve`, `reject`, `cancel`; reads `findAll`, `findOne`, `validate` | Balances (refresh before a creation, reservations in it), HCM client (check and apply), Audit, write queue |
| Balances (`balances.service.ts`) | one cached row per employee/location, with age and source | `refreshFromHcm` / `upsertFromHcm`, `availabilityFromBalance` | HCM client; request rows for the reservations |
| Audit (`audit.service.ts`) | append-only events of each request | `record`, in the caller's transaction | - |
| Sync (`sync.service.ts`) | one event per batch id | `syncBalances` | writes the cached rows |
| HCM client (`hcm-client.service.ts`) | none | `getBalance`, `applyTimeOff`, with an abort timer | the simulator over HTTP |
| HCM simulator (`hcm.service.ts`) | balance rows (value, valid or not), applied requests, a config row (unavailable, force, delay) | `getBalance`, `applyTimeOff`, PUT balance, config, reset, batch-push | batch-push calls Sync |
| Write queue (`write-queue.ts`) | a promise chain | `runSerializedWrite` | used by all transactions |
| Day amounts (`day-utils.ts`), hashes (`hash.ts`) | none | conversions, canonical JSON and SHA-256 | - |
| Bootstrap (`app.module.ts`, `main.ts`, ...) , health | - | wiring; a constant answer | - |

How they interact:

- `create` looks up its Idempotency-Key, asks the HCM for the balance and saves it
  in the cache, then runs one transaction on the write queue: read the cached
  balance, sum the days of PENDING and APPROVING requests, insert the row if the
  days fit, log it.
- `approve` runs a transaction that moves the request from PENDING to APPROVING
  under a fresh attempt id (the lock), asks the HCM for the balance, asks it to
  apply, and runs a last transaction that either finalizes (cache, status,
  transaction id, event) or gives the request back (status, event). Both first
  look for the row with their own attempt id.
- `reject` and `cancel` are one transaction each, on a PENDING request only.
- Refreshes of the cache do not wait for the write queue.
- The HCM files a request id at most once and answers a repetition with what it
  stored, including the balance of that time.

What makes it hard: calls interleave at every `await`; the abort of an HCM call does
not call the message back; answers may be saved in another order than they
were given; the two processes share no transaction; the process may stop at
any await, and nothing looks for requests left APPROVING when it starts again.

What makes each component correct: of Requests, that the lock excludes, that
approved means filed (once), that every closed or pending request the HCM holds
can be found, that reservations fit the balance, that a key is used once, and that every
call ends; of Balances, that the cache is wrong in one direction only; of Audit,
that its events and the status agree; of Sync, that a batch is applied once and as a
whole; of the client, that every exchange ends in one outcome; of the simulator,
that a request is deducted once; of the queue, that it is a FIFO mutex.

## Modules

| Module | What it is |
| --- | --- |
| `Hcm` | the HCM as seen over HTTP: official balances, filings, the force switch; operators that `TimeOff` composes into its actions |
| `TimeOff` | the service: rows, cache, audit log, write queue, every call of create, approve, reject, cancel and refresh, the messages to the HCM, crashes and failing transactions, and their properties |
| `RequestLifecycle` | what the service promises about a request: the abstract specification `TimeOff` implements |
| `MCTimeOff` | instances of `TimeOff` for TLC |
| `TimeOffProofs`, `AuditProofs` | theorems about types, the lock and filings; about the audit log, keys, divergence from the HCM and the two refinements |
| `BalanceProofs` | theorems about the balances of `TimeOff`: deductions, reservations, the cache |
| `Availability`, `MCAvailability` | `TimeOff` with the answer of a refresh: the row it holds, the sum it takes later |
| `WriteQueue` | the chain of promises of `write-queue.ts` |
| `FifoMutex` | what such a queue promises: the abstract specification `WriteQueue` implements |
| `QueueProofs` | the refinement, proved |
| `BatchSync`, `MCBatchSync` | batches: the simulator's push, `syncBalances` step by step on `WriteQueue`, refreshes and other transactions that write the same cache, over one SQLite connection |
| `SortProofs` | lemmas: what sorting keeps of a batch and when it makes two batches equal |
| `SyncProofs` | theorems about `BatchSync` |
| `HcmServer`, `MCHcmServer` | one HTTP exchange at both ends: the client with its timer, the simulator's `applyTimeOff` step by step on `WriteQueue`, PUT balances and POST config beside it, over one SQLite connection |
| `HcmLedger` | what the HCM promises whoever files time off: the abstract specification that `HcmServer` and the HCM inside `TimeOff` implement |
| `ServerProofs` | theorems about `HcmServer` |
| `Sums` | lemmas: sums over finite sets, and induction over such sets |
| `DayAmounts` | the rounding test of `day-utils.ts`, in exact integer arithmetic |

Three models look at the same system from three sides, each with what the others
abstract. `TimeOff` has the calls of the service in full and takes the HCM's filing as one
step and the queue as mutual exclusion. `HcmServer` opens that one step: a
filing is six awaits at the simulator, and a call of the client four phases. That
`HcmServer` implements `HcmLedger` (filed once and for good, a replay tells of the one filing, a
message answered otherwise files nothing) is what allows `TimeOff` its single
step, which implements it too (`LedgerSpec` of both). `WriteQueue` opens the mutual exclusion. `BatchSync` has the one
writer of the cache that `TimeOff` leaves out, and sees the others (refreshes, a
transaction that finalizes) only as writers of the cache.

### State

Of `TimeOff`:

| Variable | In the code |
| --- | --- |
| `hcmBalance`, `hcmValid` | rows of `hcm_simulator_balances`; a pair without a row and one with `isValid = false` are the same to the service (404) |
| `filings` | rows of `hcm_simulator_applied_requests` |
| `forceApply` | `forceApplySuccess` of the config row |
| `dto`, `status`, `attempt`, `txn` | a creation's body, and the columns of its row; status NONE is no row |
| `events` | `request_events` of a request, in order |
| `cache` | `balances.balanceHundredths` of a pair, `NoRow` without a row |
| `writer` | the creation whose transaction holds the write queue |
| `undo` | the cache when that transaction began, which its ROLLBACK puts back |
| `pc`, `seen`, `target`, `cause` | local state of the handlers: the await a call stands at, the balance it has read, its argument, the failure it is about to log |
| `sent`, `reply` | apply messages the HCM has not processed yet, answers not taken yet |
| `told` | history: what the HCM answered each message, whether anyone heard it or not |

Amounts are integers, in hundredths of a day like the columns; the instances
use small ones.

Of the other models:

| Variable | In the code |
| --- | --- |
| `tail` (WriteQueue) | the module variable `writeQueue` |
| `waits`, `stage` | the promise a work was chained to; whether it waits, runs, or how its promise settled |
| `ticket`, `issued` | history: the order of the calls |
| `events` (BatchSync) | rows of `balance_sync_events`: the payload hash of a batch id, which stands for the sorted rows |
| `cache` | `balances`: amount and source of a pair |
| `official` | the simulator's balances, which forced filings take below zero |
| `undo` | as in `TimeOff`: what SQLite goes back to on ROLLBACK, or when the process is gone |
| `batch`, `rows`, `answer`, `step`, `saved` | a call of `syncBalances`: its body, its answer, its await, the index of its loop |
| `rows`, `config`, `applied` (HcmServer) | the three tables of the simulator; `undo` as above |
| `client`, `told` | the await of `HcmClientService.request`, or how the call ended; the balance it returned |
| `at`, `heard`, `found`, `answer` | the await of `applyTimeOff`, and its local variables |
| `put`, `change`, `switch`, `copy` | calls of PUT balances and POST config and the row each of them has read |
| `granted`, `mixed` | history: what a balance would be with nothing filed; whether a PUT fell into a transaction |
| `row`, `shown`, `peak` (Availability) | the row a refresh has saved, the `availableDays` it answers, and history: the highest availability while it ran |

### Actions

In all models every call is an identifier that is used once. A creation is identified with the
row it would insert and an approval with its attempt id, since both are UUIDs
drawn for the call. An action is what a handler does between two awaits at which
another call could change something it depends on:

| Actions | Code |
| --- | --- |
| `CreateStart`, then `FetchBalance` / `FetchFails`, `FindCached`, `SaveCached`, then `CreateReadBalance`, `CreateSumReserved`, `CreateSave` | `create`, `refreshFromHcm`, `upsertFromHcm`, `tryCreate` |
| `RefreshStart` and the same four refresh steps | `POST /balances/.../refresh`, `GET ...?fresh=true`, the refresh of `validate` |
| `ApproveLock`, `ApproveAnswered` | `markApproving` |
| `CheckSufficient`, `CheckInsufficient`, `CheckFails` | `getBalance` and the comparison in `approve` |
| `HcmFiles`, `HcmReplays`, `HcmRefuses`, `HcmUnavailable` | `HcmService.applyTimeOff`, whenever it takes the message |
| `ApplyAnswered`, `ApplyFails` | the answer, or the abort and every broken exchange |
| `Finalize`, `Revert`, `Reject`, `Cancel` | the other transactions |
| `Crash`, `ReleaseFails` | the process stops; the transaction that would release the lock fails. A request given back because of its balance is given back once more by the `catch` around it, as a rejection; otherwise nothing tries again |
| `HcmChange`, `ForceChange` | PUT balances and config at the simulator |

A transaction under the write queue that nothing else can disturb is one action.
The transaction of a creation is three, because refreshes write the cache without
waiting for the queue, over the same connection. When it is rolled back (the key is in use, or the
process stops), it takes with it what refreshes saved since it began. So the row a creation's own refresh has inserted
may be gone when it reads it, and the 404 of `tryCreate` is reached (`CreateReadBalance`). A refused creation
returns and is committed. After `Finalize` and `Revert` the attempt id stays in the row: the
code sets the column to `undefined`, which TypeORM leaves out of an update; the
lock is the status together with the id, so an old id is harmless, and
`ApprovalLock` shows it.

The other models have one action per await of:

| Actions | Code |
| --- | --- |
| `Submit`, `Begin`, `Settle`, `Stop` (WriteQueue) | the call of `runSerializedWrite`, the start of its work, its end, the end of the process |
| `Push`; `Post`, `Arrive` (BatchSync) | `batchPush` of the simulator; a batch that is received and checked before the queue |
| `SyncBegin`, `SyncReplay`, `SyncNew`, `SyncFind`, `SyncSave`, `SyncCommit` | the transaction of `syncBalances`: the lookup of the batch id, then each row found and saved, then the event |
| `RefreshFetch`, `RefreshFind`, `RefreshSave`, `WriterSaves`, `WriterRefused` | other writers of the cache |
| `Send`, `Abort`, `Headers`, `Body`, `BodyFails` (HcmServer) | `HcmClientService.request` and its callers |
| `Ask`, `TurnAway`, `Admit`, `TakeTurn`, `Replay`, `Mismatch`, `LookUp`, `Refuse`, `Accept`, `Deduct`, `Record`, `TransactionFails` | `applyTimeOff` of the simulator |
| `PutFind`, `PutSave`, `SwitchRead`, `SwitchSave` | PUT balances, POST config |
| `Show` (Availability) | `availabilityFromBalance` at the end of a refresh |

Statements that do not wait for the queue still go over the one connection of the process. So
a row saved by a refresh or a PUT while a transaction is open is part of that
transaction: `Rollback` and `Crash` put back `undo`, the table as the transaction found it,
and everything saved since is gone with it.

In `TimeOff` the `unavailable` switch and the response delay of the simulator are not state:
the switch is read before the delay, so whatever it says, an exchange may go on or
fail, and the model lets every exchange do either at any time (`HcmServer` has both). Amounts that the client's
rounding test refuses are the constant `Unparseable`. Request days are
never among them: the creation that stored them has passed the same test.

## Properties and runs

| Run | Instance | Shows |
| --- | --- | --- |
| `approve` (`TimeOffApprove.cfg`) | 1 request, 2 approvals, 1 refresh, balances 1, 3, 4 or set to 0, 1 or 2 days, the force switch, crash, failing transactions, an amount (3) that does not parse | `TypeOK`; `ApprovalLock`; `ApprovedIsFiled`; `DivergenceIsAudited`; `AuditReplays`; `DeductedOnce`; `LifecycleSpec`; `LedgerSpec` |
| `race` (`TimeOffRace.cfg`) | 2 requests of one day, 2 approvals, 1 refresh, balance 1 or 2, the force switch, crash | `CacheNeverLow`, `ReservationFits` |
| `create` (`TimeOffCreate.cfg`) | 3 creations of 1 or 2 days for 2 pairs, one key or none, 1 refresh, balance 2 | `OneRowPerKey`, `ReservationFits` |
| `live` (`TimeOffLive.cfg`) | 2 requests, 2 approvals, no faults, `FairSpec` | `ApprovalResolves`, `CallsEnd` |
| `sync` (`BatchSync.cfg`) | 2 calls with 2 batch ids, pushed or one of 3 bodies posted, 2 pairs, 3 starting balances, 1 other transaction, 1 refresh, filings of 3 days, forced or not, an amount (1) that does not parse, crash, `FairSpec` | `TypeOK`; `AnswersTrue`; `BatchIsAtomic`; `CacheNeverLow`; `FifoSpec`; `BatchLands`; `ReplayIsAnswered`; `SyncEnds` |
| `exchange` (`HcmServer.cfg`) | 2 messages with one payload, another for the same request or another request, 1 PUT, 1 config call, balance 3, invalid or none, an amount (1) that does not parse, crash, failing transactions, `FairSpec` | `TypeOK`; `BalanceAddsUp`; `OutcomesTrue`; `LedgerSpec`; `ExchangeEnds` |

What they say of `TimeOff`:

- `ApprovalLock`: an approval that is past its first transaction finds its request
  APPROVING under its own id until it releases it itself, so "Approval attempt is
  no longer active" is never thrown; a request is APPROVING only under a running
  approval, or for good under one that died.
- `ApprovedIsFiled`: approved requests are filed, under the transaction id in the
  row, also when the answer came from the HCM's record of an earlier attempt.
- `DivergenceIsAudited`: the HCM and the service can disagree (a time-out is all
  it takes), but a request that is filed and not approved has a failure event of
  the HCM exchange in its log: that is a complete list of what to reconcile.
- `AuditReplays`: the log of a request, replayed, is legal step by step and ends
  in its status.
- `DeductedOnce`: the official balance falls when a request is filed for the
  first time, by its days, and never otherwise.
- `CacheNeverLow`: with no change by hand at the HCM, the cache is never below
  the HCM, whatever the order in which answers are saved and whatever a rolled back creation
  takes back of them. Balances start from caches that are not too low (`HighInit`).
- `ReservationFits`: a request is inserted only if all reservations with it fit the
  balance its transaction read.
- `OneRowPerKey`: the unique index makes up for the early lookup.
- `LifecycleSpec`: every step of `TimeOff` is a step of `RequestLifecycle` or none
  of its business. "Tried" is mapped to an REQUEST_APPROVING event in the log,
  "filed" to the HCM's record.
- `LedgerSpec`: the HCM as this model has it keeps the promises of `HcmLedger`. A message
  is an approval, a body is its request (the columns the body is made of never change), and
  the answers are those of `told`.
- `ApprovalResolves`, `CallsEnd`: no request stays APPROVING, and every call ends.

Of `BatchSync`:

- `FifoSpec`: no list of waiting works exists in the code; the chain of promises is
  nevertheless a mutex in order of arrival, and a rejected work holds up nobody.
- `AnswersTrue`: "applied" and "idempotent" stay true for good: the batch id is on
  record with what the call said, whatever the order of its rows; "conflict" means it
  is on record with something else: another pair, another balance, or only another version, as
  versions are part of the hash. No later rollback or crash changes that.
- `BatchIsAtomic`: a cached balance from a batch was committed with the record of
  that batch. A batch that is refused, fails in the unique index of balances (a refresh has
  inserted the row since it was looked for), or dies with the process leaves nothing behind.
- `CacheNeverLow`: a batch may overwrite newer balances by older ones, and a
  rollback may take back a refresh; neither makes the cache too low.
- `BatchLands`: what an applied batch says of a pair is then in the cache, unless
  a refresh wrote it since.
- `ReplayIsAnswered`: two calls with one batch id never meet in the unique index
  of events: a call fails only while its batch is not on record.
- `SyncEnds`: a batch that waits for the queue is served or dies with the process.

Of `HcmServer`:

- `BalanceAddsUp`: the committed balance and the days filed against it add up to
  what was granted: no filing is lost or counted twice, across failing transactions
  and crashes. The exception is a PUT saved while a transaction is open, which the
  filing may overwrite or take back with its rollback (`mixed`): PUT does not
  use the write queue.
- `OutcomesTrue`: what the client reports is true. A success is a filing of just
  what it asked for, with the balance it was told; a 404 or 409 means that this message has
  filed nothing and never will. A 503 or a broken exchange says nothing, which is
  why a retry has to carry the same request id.
- `LedgerSpec`: what is committed is the ledger of `HcmLedger`.
- `ExchangeEnds`: a call of the client ends however slow the simulator is with its headers; that a body
  which has begun ends is assumed (see Fairness).

`Hcm`, `FifoMutex`, `HcmLedger` and `RequestLifecycle` have no run of their own: they are parts or
promises of the models above.

**Bounds.** The hazards are between two calls and the HCM: two approvals of a
request are one that is given up and a retry while the first message is
on its way, which is where double filing, replays and lost answers happen; a
third would repeat the second. Two requests for a balance that covers only
one of them, or both, decide every question about reservations; the third creation in `create`
is for two keyed ones and one without a key competing for the rest, and its second
pair for a key reused for another balance. A balance of 1
is too low for 2 days and 3 is refused by the rounding test, so that every
outcome of an exchange occurs; every action fires in some run. Calls
are used once, so the state space is finite without further bounds, and behaviours end
when all calls are used up: this is why the runs do not check for deadlock
(`CallsEnd` is the property that a waiting call goes on).
Requests and approvals are interchangeable (`Symmetry`); the run of the temporal
properties does not use it.

In `sync`, two batches with one id or two, with the same rows in another
order, with the same rows but other versions, with other rows, or with one pair twice, meet each other, a transaction
that finalizes or is refused, a refresh and a crash. The write queue
then holds up to three works, which is one that runs, one chained to it and one chained to
that. The HCM starts with two balances, one of which a filing takes to the amount that does not parse; with one that a
forced filing takes below zero; or with none, when a push has nothing to send. `Lowest` ends the filings
at -1: one below zero is refused everywhere as every other is. The version the simulator gives a row is
`simulator-` and the balance, so it is the balance in the model too; other clients may give
one of their own (`Versions`), in this run none. In `exchange`, two messages are a retry of a message that was given up, a
second payload for the same request id, or a second request that competes for the
balance: 3 covers one of them, and after it leaves 1, which the client cannot
read. One PUT and one config call suffice to fall between any two steps of a filing;
that the unique index refuses the second of two PUTs that insert the same row needs two of them and
is not reached. Neither uses symmetry.

**Fairness.** In `TimeOff`, weak fairness of the steps of each call, and of nothing else: not of
the HCM (its answer may never come), nor of people. It is justified by the event
loop and by the abort timer, which ends an exchange whose headers do not come; and by the
write queue, which goes on whether the last work succeeded or not. In `BatchSync`,
of the steps of a transaction on the queue (a SQLite statement ends). In `HcmServer`,
of the steps of the client alone. The timer is cleared before the body is read
(`hcm-client.service.ts:81`); what ends a body that stalls is the body timeout of
Node's `fetch`, which is no part of this repository.

## Where the documents and the code disagree

Each is a run that TLC must find violated, with the promise as its property:

| Run | Promise | What happens |
| --- | --- | --- |
| `closed_but_filed` | TRD.md 58: the HCM deducts only when a manager approves | an apply is given up, the request is rejected, and the HCM then files it |
| `retry_refused` | TRD.md 373: after an outage the request stays retryable | the first attempt was filed; the retry finds the balance reduced by it, and is refused before it reaches the replay |
| `created_unbacked` | TRD.md 368: no PENDING request that the HCM does not cover | a refresh saves its answer after an approval finalized, the cache goes back up, and a creation passes against it |
| `retry_lost` | TEST_PLAN.md TC-029: same key and payload return the original | the second creation passes the lookup before the first commits, and then fails |
| `amounts` | day-utils.ts 10, 28: refused are amounts with more than two decimal places | 2.02 − 0.01 leaves 2.01, and 2.01 · 100 = 200.99999999999997 is further from 201 than the tolerance |
| `shown_too_high` | TRD.md 309: a fresh read shows the latest HCM balance less the reservations | the balance is asked for before a filing and the reservations summed after its approval: two days are shown where one was ever available |

`created_unbacked`, `retry_lost` and `shown_too_high` need no change by hand and no fault:
only calls that overlap. `amounts` needs one call. Its `Refused` is the test of both conversions in exact
arithmetic, with a precision of 53 bits and the tolerance as it is; no amount below
2.00 is refused, and about one in eleven above. The balance of the HCM is not the choice of
the service: when it gets to such an amount, the HCM's own answer to the filing
cannot be read, the approval is reported as failed after the HCM filed it, and every refresh and
every batch that holds it fails until the balance changes again.

One more has no run, as there is no behaviour to show: TRD.md 175 speaks of batch sync *attempts* being
recorded, but a failed one is rolled back with everything else and
`SyncStatus.Failed` is never used. That nothing looks for requests left APPROVING by
a crash is a limitation the documents state themselves (TRD.md 379).

## Proofs

`TimeOffProofs` proves, for all constants that satisfy `HcmAssumption` and
`TimeOffAssumption` (any number of pairs, requests and calls, any balances):

- `TypeCorrect == Spec => []TypeOK`
- `LockExcludes == Spec => []ApprovalLock`
- `ApprovedRequestsAreFiled == Spec => []ApprovedIsFiled`

The assumptions say that amounts are naturals, days are positive and parse,
identifiers of calls are distinct, and the "null" constants are not values.

None of the three is inductive alone. A finalizing call must know that its answer
is what the HCM has filed for its request, a message on its way must be about
a row that exists, an approval that gives up must have an event to log. `IInv`
is the conjunction of the three with `CallsKnown`: what each call knows at its
await (`CreationsKnown`, `RefreshesKnown`, `ApprovalsKnown`, `MessagesKnown`,
`CausesKnown`, `RepliesKnown`). There is a lemma for every conjunct (`TypeStep`, `CreationsStep`, ...,
`LockStep`, `ApprovedStep`), each with one step per action that can disturb it;
`OthersStep` first reduces the actions of creations, refreshes, reject, cancel
and the people at the HCM to one case, as they leave the approvals alone.
The order is: a positive answer is the HCM's filing and filings are
never changed (`RepliesKnown`), so `Finalize` copies a filed transaction id; `HoldsLock`
is disturbed only by actions that need a PENDING request, or by the owner itself.

`AuditProofs` builds on `IInv` and proves:

- `AuditLogReplays == Spec => []AuditReplays`
- `KeysAreUsedOnce == Spec => []OneRowPerKey`
- `ImplementsLifecycle == Spec => LifecycleSpec`
- `DivergenceIsLogged == Spec => []DivergenceIsAudited`
- `HcmKeepsLedger == Spec => LedgerSpec`

Its main lemma, `StatusFollowsEvents`, says that a step either logs one event that is legal
where the request stands and moves the status accordingly (`EventStep`), or leaves
statuses and logs alone (`Quiet`). `AuditReplays` and `OneRowPerKey` follow from it by
one case each; for the keys, `BodiesFixed` adds that the body of a row never changes.
The refinement maps an `EventStep` to the move of `RequestLifecycle` with the same event and a
`Quiet` step to a filing or a stutter; that a filed request was tried needs
one more invariant (`TriedKnown`: the request of every message was once
APPROVING), because a message outlives its approval.

`DivergenceIsAudited` is about filings and logs, and the link between them is the approval
whose message is under way. `AInv` adds to `IInv`: a call with an answer has no
message left (`AnswersKnown`); a message belongs to an approval that is still
exposed (applying, dead, or about to log a failed exchange) or has logged its failure
(`SentKnown`); and what is filed is logged so, approved, or APPROVING under an exposed
approval (`FiledKnown`). `ExposedStep` is the heart of it: an approval leaves the exposed states
only by approving its request or by logging a failure. All three were
checked with TLC before they were proved.

`HcmKeepsLedger` sorts the steps (`LedgerKinds`) into the start of an approval, which is a message
drawn up, the four ways in which the HCM takes one, and `Untold`, which is nothing to the
ledger. `ToldKnown` has what these need: a message on its way has not been answered, and
an approval that has not been called is about no request. That two models of one
HCM, of different grain, are proved to keep one specification is what holds them together.

`BalanceProofs` proves:

- `CacheIsNeverLow`: `CacheNeverLow`, if no balance is set by hand (`PutBalances = {}`) and
  the cache is not too low to begin with
- `DaysAreDeductedOnce == Spec => DeductedOnce`
- `ReservationsFit == Spec => ReservationFits`

The first needs both hypotheses: a balance raised at the HCM makes every cached one too
low until the next refresh. The invariant `CInv` follows a balance on its way from the HCM to the
cache: what a refresh holds (`SeenHigh`), what an answer carries (`RepliesHigh`), what
a filing would be answered with when it is repeated (`FilingsHigh`), and what a rollback would put back
(`UndoHigh`) is at least the official balance of now. Official balances only fall, so what was right when it
was read stays on the safe side however late it is saved. The other two are about
sums over requests. A filing makes one request newly filed, for the pair of its row,
so its days are the whole sum. For a creation, `RInv` says that between its sum and its insert the
reservations of the pair leave room for it: other creations wait for the queue, and an
approval, a rejection or a cancellation only moves or drops what is reserved already.

These sums are `SumFunction` of the community modules, a fold that is defined by recursion over
a choice of elements. `Sums` derives from it the equations that proofs use (`SumOfNone`,
`SumWithout`, `SumWith`, `SumOfEquals`). The library's induction theorems take an operator as
parameter, which the provers cannot instantiate, so `Sums` proves induction over the subsets of a finite set
for a set of subsets instead (`SubsetInduction`), from the theorem that strict inclusion is
well-founded there.

`QueueProofs` proves `QueueIsFifo`: `WriteQueue` implements `FifoMutex` for any set of
works. The code keeps no order, only the promise each work was chained to; `QueueInv`
says that these promises are a chain (each work waits for the one called just
before it), that all before a running work have settled, and so that no
two run (`OneRuns`).

`SyncProofs` uses it twice. `SyncsAreServedInOrder == Spec => FifoSpec` says that batches and other
transactions use the queue as its specification asks. `ReplaysAreAnswered ==
Spec => ReplayIsAnswered` needs `Unrecorded`: a transaction past its lookup finds its batch id
unrecorded until it records it itself, because `OneRuns`, and because what a
rollback or a crash puts back had it unrecorded too.

The other theorems about `BatchSync` rest on its types (`TypeInv`, which says of every
variable what the properties leave open, for instance that an open transaction has an `undo`):

- `SyncTypes == Spec => []TypeOK`: official balances may be any integers, and so may the rows of a batch on its way; what
  is cached is neither negative nor unreadable
- `BatchesAreAtomic == Spec => []BatchIsAtomic`, with `UndoOnRecord`: the cache a
  rollback would put back has batch balances of recorded batches only
- `CacheStaysHigh == Spec => []CacheNeverLow`: the cache, the undo of it, the rows of every call
  (`RowsCover`) and what a refresh holds (`SeenCovers`) are not below the HCM
- `BatchesLand == Spec => BatchLands`, with `Landed`: the loop of a batch has left, of each pair it has
  passed, the last row about it, or a refresh has written since
- `TakenAnswersAreTrue == Spec => []TakenIsTrue`: the half of `AnswersTrue` about
  batches that were applied or replayed, with `Answered`: the record is the sorted rows of the call
- `AnswersAreTrue`: all of `AnswersTrue`, if different pairs have different sort keys
  (`DistinctKeys`). A refused batch says something else only then: rows of two pairs with
  one key are kept in the order they came in, and the same batch in another order is taken for another

What sorting does is in `SortProofs`. The sorted place of a row is the number of rows that go
before it, so nothing is computed step by step: `PlacesAreTaken` (the places are a bijection, by
counting), `SortedSaysTheSame` (rows of one pair keep their order), and
`SameSorted`, `SortedTwice` (two batches that say the same are sorted into the same rows).

`ServerProofs` does the same for the simulator:

- `FilingsAreServedInOrder == Spec => FifoSpec`
- `OutcomesAreTrue == Spec => []OutcomesTrue`
- `ServerKeepsLedger == Spec => LedgerSpec`
- `ServerTypes == Spec => []TypeOK`: of balances only that they are integers (forced filings take them below
  zero), but what a client returns was read, and so is natural and has a decimal form
- `BalancesAddUp == Spec => []BalanceAddsUp`

`StepKinds` first sorts the steps by what they do to filings, answers and clients. The invariant
`SInv` consists of `Kept` (an open transaction's `undo` has the filings
of now, so neither a rollback nor a crash changes what is filed), `Placed` and `Unfiled` (a
transaction past its lookup finds nothing filed for its request, again because `OneRuns`:
`Record` never overwrites), and `FilersTold`, `ToldTruly` and `Understood`, which
follow an answer from the filing through the body to what the client returns.
`BInv` adds, for the balances: what is committed adds up (`Balanced`); a pair that no PUT was mixed
into has the row the open transaction began with (`UndoneRows`), except between `Deduct` and
`Record`, when it is short of just the days about to be recorded (`WroteRow`); and the
balance a filing has read is that of the row (`ReadRow`).

So every safety property and every action property of the passing runs is stated by a theorem. Only
model-checked are:

- Liveness under fairness, which is out of the prover's reach: `ApprovalResolves`, `CallsEnd`,
  `SyncEnds`, `ExchangeEnds`.
- `DayAmounts`, which is computed for a range of amounts, and the properties of the runs
  that end in a violation.

## Not modelled

- At the simulator: `reset`, which empties the tables between tests, and the insertion of the default
  config row (the row is taken to exist). The reads of the config and of the balance at
  the beginning of a GET are one step. That the unique index refuses the second of two PUTs
  for a new pair.
- Reads (`findAll`, `findOne`, cached availability, `validate` beyond its refresh) and the
  age of a balance: they change nothing. The one answer that is modelled is that of a
  refresh, in `Availability`.
- The canonical JSON and SHA-256 behind the hashes: two payloads have one hash when their fields
  are equal, for a batch after sorting and with the `externalVersion` of every row. What is left out is the
  copy of the version in the cached row, which nothing decides by.
  Pairs whose sort keys collide (an id may hold the colon that joins them) are in the model of
  `BatchSync` and its proofs (`Rank` is any function of the pair), in no run.
- In `BatchSync`, the lookup and the save of another writer's balance at the end of its transaction are one
  step; in `TimeOff` they are one step as well, as the row is there since the creation
  of the request and is saved as a whole.
- Of the connection a process shares, two things. The transactions that are one step (in `TimeOff` all but that
  of a creation) take back nothing of a refresh when they fail: the refresh is then before or after them. And a
  `save` outside a transaction (`balances.service.ts:77`, `hcm.service.ts:126`) is one step, although TypeORM
  wraps it in a BEGIN and COMMIT of its own on that connection, so that a transaction of the queue may begin
  inside it. What a failure of either then takes back of the other depends on how TypeORM nests the two,
  which is not in this repository.
- Rows have no identity: a refresh that found a row which a rollback then removed, and which somebody
  inserted anew, updates that row in the models, and fails in the unique index in the code.
- That a balance which is newer or a version which is higher should win over an older one: the code compares
  neither, and no document says so.
- Formatting, DTO validation, module wiring, ports, the health check: no state, no decision.

## Plan

1. *Done*: the core, `Hcm` and `TimeOff`, with `RequestLifecycle`; types, lock,
   filing, log, keys, divergence and the refinement proved.
2. *Done*: `BatchSync`, on the write queue and over one connection.
3. *Done*: `HcmServer`, an exchange at both ends, and `HcmLedger`, the promise behind
   the single step of `TimeOff`.
4. *Done*: `WriteQueue` and `FifoMutex`, used by both.
5. *Done*: `DayAmounts`; `Availability`.
6. *Done*: proofs about the queue, the ledger, the outcomes of an exchange, replays of
   batches, and the cache.
7. *Done*: sums and sorting, and with them the proofs of `DeductedOnce`, `ReservationFits`,
   `BalanceAddsUp` and the rest of `BatchSync`.
8. *Done*: the HCM inside `TimeOff` against `HcmLedger`.
9. *Done*: the connection inside `TimeOff`; versions and forced filings in `BatchSync`.
10. Left to model: two PUTs and `reset`; the BEGIN and COMMIT of single saves; what the canonical form tells
   apart.
