# ResiliencePay in TLA+

ResiliencePay recovers failed payments: it diagnoses a failure, lets a bandit
choose an action, passes the choice through a compliance gate, executes it
(a Razorpay payment link, a nudge, a delayed retry), observes the outcome and
learns from it. The modules here model the parts of it that several processes
share, and where a crash, a lost answer or a second delivery can break a
promise. Every definition is read off the Python sources; documents only enter
as properties.

## The system and its parts

| Part | State it keeps | Operations | Talks to | Modelled in |
|---|---|---|---|---|
| Act executor `services/act/service.py`, `razorpay_client.py` | `pending_actions` (unique key per decision), `actions`, `audit_log` | `execute_action` | Razorpay, broker, breaker, audit log | `ActionSaga` |
| Reconciler `reconcile_pending_actions.py` (beat, 5 min) | `pending_actions`, `actions`, `dead_lettered_actions` | sweep over stuck intents | Razorpay's link list, audit log | `ActionSaga` |
| Delayed task `execute_delayed_action.py` | messages of the broker | consume one | - (a stub) | `ActionSaga` |
| Circuit breaker `circuit_breaker.py` | one Redis hash per bank segment | `should_allow_attempt`, `record_result` | executor | `CircuitBreaker` |
| Webhook endpoint `webhooks.py`, `webhook_lock.py` | Redis lock per event, `webhook_stream` | `POST /webhooks/razorpay` | Razorpay, stream | `WebhookPipeline` |
| Stream consumer `stream_consumer.py`, `webhook_handlers.py` | consumer group, `outcomes` (unique `action_id`), `audit_log` | read, handle, acknowledge | bandit, audit log | `WebhookPipeline` |
| Polling `reconcile_payment_status.py` (beat, hourly) | `outcomes`, `audit_log` | poll actions older than 6 h | Razorpay, the same handler | `WebhookPipeline` |
| Operator `POST /events/{id}/mark-resolved` | `outcomes`, `audit_log` | write an outcome by hand | audit log | `WebhookPipeline` |
| Gate `services/gate` | `gate_checks`; reads `opt_outs`, promises, episode | `evaluate_gate` | promises | `ComplianceGate` |
| Promise-to-pay `check_promise_to_pay_status.py` (beat, daily) | `promises_to_pay`, `audit_log` | settle overdue promises | gate | `ComplianceGate` |
| Bandit statistics `services/decide/redis_store.py`, `bandit.py` | Redis hashes of alpha and beta, per merchant and pooled | `update`, `get_stats`, `sample_arm` | batch runs | `BanditStore` |
| Event intake `POST /events/ingest` | `merchants`, `customers`, `episodes`, `events` | look up, flush, commit | batch runs, which insert the same merchants | `EventIntake` |
| Audit trail `services/audit` | `audit_log` | four ways to write; `GET /audit-trail` reads it page by page | everyone who writes audit rows | `AuditTrail` |
| Snapshot `services/decide/snapshot.py` | `bandit_arm_stats` | copy Redis to Postgres | bandit | not modelled, see below |
| Diagnosis `services/diagnose` | `diagnoses`, embeddings | rules, cache, model | - | not modelled, see below |
| Batch evaluation `eval/run_batch.py`, `POST /pipeline/run-batch`, `POST /simulations/run` | `batch_runs` and its rows, catalogue rows of merchants and arms | `run_batch` | bandit statistics, audit log | `BatchLearning` |
| Rest of the read API, dashboard, generator, infra | - | queries, views, fixtures | - | not modelled |

The hard behaviours are: overlapping deliveries of one decision (Celery with
`task_acks_late`), writes to two systems with a crash in between, answers of
Razorpay that are lost after it acted, a sweep that meets a slow executor,
Redis sequences that are not atomic, learning that outlives the transaction it
belongs to, events that are lost, repeated or
overtake the row they refer to, four writers of one outcome, verdicts on
rows that change while they are read, rows that two transactions look up and both
insert, and pages of a log that grows between one page and the next. `PROJECT.json`
lists them line by line under `hazards`.

## Modules

### ActionSaga

A *call* is one delivery of a decision to `execute_action`, a *sweep* one worker
that runs the reconciliation again and again. The unit of interleaving is one
commit, one broker or Redis call, or one answer (or missing answer) of Razorpay.

* `pending` is the `pending_actions` row of each decision (status, reference,
  and, as a history, the call that committed it); `actions`, `deadLetters`,
  `audit` are tables; `links` is what Razorpay holds, oldest first; `scheduled`
  the broker's delayed tasks; `overdue` the rows older than `STUCK_THRESHOLD`.
* `RecordIntent` / `IntentRejected` are the two outcomes of the commit on line
  86; `LinkCreated`, `RequestLost`, `ResponseLost`, `Refused` those of one
  attempt of `_call_with_retry`; `ConfirmIntent`, `FailIntent`, `WriteError`,
  `InsertAction` the commits that follow; `Abandon` is a dead worker, or an
  exception the code does not catch, between any two.
* `SearchAnswered`, `SearchFailed` are the page-limited search of a sweep,
  `Reconcile`, `DeadLetter`, `NoteRejected` the outcome of its transaction.
* `Recorded` is the set of decisions for which the sweep finds a `decisions`
  row. On Postgres a foreign key makes that all of them; `database.py` falls
  back to SQLite, which does not enforce it, and the code has an `if decision`
  for the rest. For a decision *with* a row the audit note lacks its
  `episode_id` and takes the transaction with it (`NoteAccepted`).
* Abstracted: the caller attaches `decision.event` (as `execute_action` needs
  on line 89), texts, amounts and times; what the breaker answers is a choice
  here and a module of its own.

### CircuitBreaker and BreakerFSM

One segment's Redis hash and the workers that use it; each Redis command is an
action. The Redis client sends a command again when the connection fails before
its reply, though Redis may have applied it: `Reply` lets every command that
writes be applied once more (`repeats`), which matters for the two `HINCRBY`;
`recounted` is what the second of them counted twice since the last reset.
`opened_at` is absent, fresh, or elapsed. `BreakerFSM` is the machine the
documentation draws; `ImplementsFSM` says that one worker alone implements it.

### WebhookPipeline and OutcomeLedger

From "Razorpay has something to report" to "the action has an outcome": the
per-event lock, the stream and its consumer group, the handlers, the polls and
the operator. `OutcomeLedger` is the abstract promise: at most one outcome per
action, the first one stands, at most one audit row and it says the same. The
variables `results` and `audit` are the refinement mapping.

* `Enqueue` is an `XADD` that is answered, `EnqueueUnanswered` one that is
  applied and, its reply lost, sent again: the event is in the stream twice in
  one life of its lock. A `SET NX` whose reply is lost takes the lock and then
  finds it taken: with a dead process and an `XADD` that raises it is
  `EnqueueFails`. `unanswered`, `abandoned` and `expiries` count these, per lock.
* `PaymentRefs` are the actions whose `razorpay_ref_id` is the id of the payment
  that Razorpay will report. `execute_action` and its sweep store the id of a
  payment *link* (`service.py:94,105`, `reconcile_pending_actions.py:57`): for
  their rows the handler finds no action (`Found`) and the poll's fetch is refused
  and the action skipped (`SeeCaptured`, `SkipAction`). Rows with a payment's id
  are those of the tests and of `PHASE_07_observe_DETAILED.md:382-434`;
  `DATABASE_DESIGN.md:209` allows both. What the handlers do with a row they find
  is checked with such rows, what they make of the executor's in
  `webhook_safety_net`.
* Rows of `actions` have distinct references.

### BanditStore and BatchLearning

`BanditStore` is the learned statistics of one context bucket: an update is six
Redis commands (two `HSETNX` for the merchant's hash, two for the pooled one,
two `HINCRBYFLOAT`), and each is an action. A field is modelled by whether it
was given its prior (`seeded`) and by what it has learned since (`learned`, in
tenths). A command whose reply is lost is sent again by the Redis client
(`RepeatIncrement`); `repeated` counts what that adds.

`BatchLearning` composes the store with the runs that use it. `StartRun`
chooses the policy: the shared statistics (`POST /simulations/run` and the
command line), statistics of the run's own, or `BaselinePolicy`. `Look` and
`InsertRow` are the look-ups and inserts of merchants and arms, which all runs
share; `InsertRow` waits for a row another open transaction has inserted, and
`Duplicate` and `DeadlockVictim` are the two ways Postgres refuses. `ReadStats`,
`Decide`, `Learn` and `Record` are one draft, `Commit` the one commit at the
end. `Abandon` is any failure: Postgres forgets the run, Redis does not.
Cause categories behave like arms and are not listed; the rows of a draft have
fresh keys and stand or fall with the transaction.

### ComplianceGate

An *evaluation* is one call of `evaluate_gate`, a *settler* a worker that runs
`check_promise_to_pay_deadlines`. The unit of interleaving is one query or one
commit. `CheckOptOut`, `CheckPromise` and `CheckEpisode` are the rule chain in
the code's order (`RULE_CHAIN` lists the same; the diagram at `README.md:505-530`
has another), `RecordGateCheck` is the row an evaluation leaves. `StartSettling`
is the query for overdue promises, `ReadEpisode` one turn of the loop, and
`CommitSettling` and `RollBack` are the ends of its one transaction.

* `CheckPromise` reads *a* promise of the episode, as `.first()` without an
  order does. An overdue promise that was never settled may so hide one in
  force; `PromiseSuppresses` says that nothing else can.
* A broken promise never becomes `broken`: its audit row lacks `event_id`, which
  `audit_log.py:10` requires, so the run is rolled back (`RollBack`) and with it
  the kept promises it had found. `KeptIsSettled` states what is left.
* `live` and `barred` are histories: what held when the evaluation began.
* Nothing in the repository inserts promises or opt-outs, changes an episode's
  status or calls `evaluate_gate`: these are the environment (`NextDay`,
  `OptOut`, `Recover`, `MakePromise`, `Begin`). What the operational rules read
  was fixed when the evaluation was called, so which of them blocks first is a
  choice (`CheckEpisode`); `CoolOffRaises` is the one that may raise.

### EventIntake, AuditTrail and PostgresRecords

`EventIntake` is `POST /v1/events/ingest` on Postgres. The unit of interleaving
is one query, one inserted row, the commit, or the answer. A request looks up
its merchant and its customer (`LookUpMerchant`, `LookUpCustomer`) and notes what
is missing; the flush inserts the missing rows one by one (`Insert`), waits for a
row another open transaction has inserted (`Waits`), or is refused (`Refuse`); a
refusal, a failure or a dead process rolls everything back. The client tries again
after every answer but 202. He may miss a 202 (`LoseAnswer`); and the event is read
back after the commit, for the answer, so that a failure there is answered with a
500 though the event is stored (`ReadBackFails`). `lost` and `misled` count the two,
and `EventsAreAccounted` says that nothing else stores an event twice.

* The mappers declare no `relationship()`, so SQLAlchemy's unit of work sorts
  them by their names: customer, episode, merchant. `FlushRank` is that order.
  The first event of a merchant Postgres does not know thus inserts a customer
  that refers to nothing and is refused; merchants come from batch runs. The
  proofs hold for any `FlushRank`.
* `duplicates` is a history: over which rows each client has been refused.

`AuditTrail` is the audit log and `query_audit_trail`. A page is two queries in
two snapshots (READ COMMITTED), `Count` and `Fetch`. `Write` is one transaction
of any of the four writers: each row takes the reading of the writer's clock at
its flush (`recorded_at`), and neither the clocks nor the commits agree on an
order. `Newest` and `Slices` are `ORDER BY recorded_at DESC OFFSET .. LIMIT ..`,
which leaves equal stamps to chance. An empty page is filled with demo rows
(`Total`). A reader asks for page after page until one lies past the total that
came with it. A query that fails is answered with no rows and a total of 0
(`query_service.py:65-66`), which lies before any page: the client takes it for the
end of the trail (`FailRead`, `cut`), and what he lacks then lies behind the pages
he got. Filters choose which rows are in the log and are left out.

`PostgresRecords` composes the two: a batch run reserves the merchant it has
inserted and, at its one commit, makes it visible with all its audit rows
(`BeginRun`, `CommitRun`, `AbortRun`); requests and readers share no row. That it
implements `IntakeSpec` and `TrailSpec` is a theorem (`ImplementsParts`).

### Mutations

Operators named `X_Something` are plausible mistakes in `X` (a dropped guard, a
page one short, GET-then-SET). Nothing uses them; with `X` replaced by one, the
property named in `PROJECT.json` fails, which shows that the run could see it.

## Runs

| Run | Shows | Bounds |
|---|---|---|
| `saga_hang` | one delivery alone makes links and Actions of a decision; references are real; at most `max_retries` links; verdicts are final; deliveries end; a dead worker's intent is resolved where no `decisions` row is in the way | 1 decision, 2 deliveries, 1 sweep, 2 retries, calls may hang past ten minutes, page of 2 links, 1 foreign link |
| `saga_prompt` | intents and actions agree, dead letters are truthful, verdicts are not overwritten, failed and deferred actions have their audit row | one decision per kind of arm, 2 sweeps, no call outlasts the threshold, page of 4 |
| `breaker_shared` | timestamp and counters under every interleaving of commands; re-probe and decision happen | 2 workers, no crash, 2 repeated commands, trip at 3 attempts |
| `breaker_alone` | implements the documented machine | 1 worker, 1 crash, 3 repeated commands, the code's 5 and 7/10 |
| `webhook_races` | outcome ledger, acknowledged entries accounted for, recovered is real, every copy of an event has a life of its lock or a repeated `XADD` to itself | 1 action with a payment's reference, 2 API processes, 2 polls, 3 entries, 2 expiries, 1 repetition, bodies without `event_id` |
| `batch_shared` | no prior and no increment is lost to an interleaving, the pooled statistics are the sum of the merchants', committed counts were learned once each, references of committed runs are committed, runs end | 2 runs of 2 and 1 drafts, 2 merchants, 2 arms, 1 repeated command, an empty catalogue or one a run has filled |
| `gate_promises` | an opt-out that came first is the verdict, a promise in force suppresses unless an overdue one hides it, promises are booked as kept after their grace and a recovery only, and do not stay open once kept | 1 episode, 2 promises, 1 evaluation, 2 overlapping runs of the task, days 0 to 2, 1 run that fails for another reason |
| `records` | half an event is never stored, and a client has more than one only for answers he missed or that were false; a lost race for a row is lost once; paging to the end misses no row but for equal stamps and, where a query failed, those behind the pages got, and shows demo rows for an empty log only; requests end | 2 clients of one new customer, 1 merchant that is there or brought by a batch run, 2 missed or false answers each; or 1 reader with pages of 1 row, a batch run of 2 rows and 2 other writers, clocks 1 to 3 |

Two of each actor suffice for the races: every interaction is between two
writers of one row, hash or action, and rows of different decisions, segments
and actions never meet in a guard. The saga runs allow one retry more than the
minimum so that a lost answer can be followed by another try. The breaker's
threshold is lowered where interleavings matter and kept at 5 where arithmetic
does. `MaxAttempts` and `MaxCount` stop admissions at a count, so the breaker
runs may end (`CHECK_DEADLOCK FALSE`); liveness is stated up to that bound.

Days 0 to 2 are a due date, its day of grace and the day after, when a second
promise is still in force. Promises of different episodes meet only in the
transaction that settles them; two of one episode, read before and after its
recovery, stand for them there. An evaluation that was never begun and a worker
without another run to start are no deadlock (`CHECK_DEADLOCK FALSE`).

In `records`, `Traffic` lets either the clients and the batch run be about, or
the batch run, the other writers and the reader: the two groups share no row but
through the batch run, and together they only multiply. One new customer is the
row two requests race for; the merchant is the row a request and a batch run race
for. Pages of one row and four rows give every page a neighbour, three clock
readings an order, its reverse and ties. Clients that are told and readers that
are done may leave nothing to do (`CHECK_DEADLOCK FALSE`).

### Runs that find a violation

Each contradicts a document or comment quoted in `PROJECT.json` (`findings`).

* `saga_gap_unresolved`: the sweep's own audit note rolls the resolution back.
* `breaker_stuck_open`: a crash inside `transition` leaves an open breaker
  without `opened_at`; it refuses for ever.
* `webhook_unacked`: an entry whose handler failed is never delivered again.
* `webhook_safety_net`: for an action as `execute_action` leaves it, with the id of
  a link, a captured payment never gets an outcome: the webhook finds no row, and
  every poll skips the action. With `PaymentRefs = {a1}` TLC finds
  `CapturedIsSettled` to hold on the same instance, whatever becomes of webhook,
  lock, stream and consumer: the mismatch of the ids is all that breaks it.

### Divergences the actions show, without a run of their own

| Document or comment | Code | Where in the model |
|---|---|---|
| `README.md:407`: safe to retry without double-creating | the key travels in the notes only; a lost answer and a retry make a second link | `ResponseLost`; `LinksBounded` states the bound that does hold |
| `pending_action.py:7-10`: the window is recoverable, not silently lost | all answers lost: the row is `failed` and no sweep looks at it | `FailIntent`, `Stuck` |
| `ADVANCED_07:55-56`: a confirmed row becomes the `actions` row | two commits; a crash between them leaves it confirmed for good | `ConfirmIntent`, `Abandon`, `InsertAction` |
| `PHASE_06_act.md:117-119`: delayed actions re-enter the same path | `load_decision` returns None | `DeliverDelayed` |
| `circuit_breaker.py:110`: exactly one probe | every worker that finds it half open is let through | `AllowHalfOpen` |
| `ADVANCED_05:33-45`: closed, open, half open, closed or open | a stale result moves it along other edges when workers overlap | `Recheck`, `Trip`; `breaker_alone` shows the machine for one worker |
| `README.md:479`: sliding window | counters are cumulative | `OverThreshold` |
| `webhooks.py:35-37`: a taken lock means an accepted event | the lock is taken before `XADD` | `AcquireLock`, `EnqueueFails` |
| `webhooks.py:41`: durable | the group starts at `$`: earlier entries are never read | `StartConsumer` |
| `README.md:409`: every outcome recorded in the audit trail | `bandit.update` lacks `merchant_id` and raises between the outcome's commit and its audit row | `UpdateRaises` |
| `API_SPEC.md:69`, `README.md:222`: the receiver listens for `payment.failed`, and only `payment.captured` reports a recovery | every event but `subscription.charge.failed` goes to the handler of captured payments, `payment.failed` too | `ResultOf`; the runs leave that kind unsubscribed |
| `simulations.py:54`: publishes events to the Redis stream | `run_batch` gives its audit log no Redis client | `Record` |
| `batch.py:50-62` | a run that failed is answered with invented metrics | `Fail` |
| `redis_store.py:17-19`: HSETNX prevents the race with increments | true, and `PriorsKept` proves it; for each field, though, not for the hash | `Materialize` |
| `PHASE_IMPLEMENTATION_PLAN.md:533`: no partial updates of the bandit's state, under failure either | a learner that dies between its two `HSETNX` leaves a hash with one field; `get_stats` raises `KeyError` on it | `Abandon`, `Broken`, `ReadBroken` |
| `README.md:579`, `ADVANCED_10:127`: an unpaid promise becomes `broken` | the flush of its audit row fails, and the run is rolled back | `RollBack` |
| `ADVANCED_10:128`: one active promise per episode | nothing enforces it, and `get_active_promise` takes any | `MakePromise`, `CheckPromise` |
| `service.py:31`: `now` defaults to `utcnow()` | it has no zone and `last_action_at` has one: subtracting raises `TypeError` | `CoolOffRaises` |
| `events.py:53,105`: queues for diagnosis | nothing is queued; diagnosis is never started | `Commit`, `Answer` |
| `test_events_router.py:51`: the first event of a new merchant is accepted | on SQLite, where foreign keys are not enforced; Postgres refuses the customer that is inserted before its merchant | `IsNext`, `Dangling`, `Refuse` |
| `IMPLEMENTATION_GUIDE.md:163-164`: the audit trail returns the complete, correctly ordered history | rows with equal stamps may move between pages and be missed | `Newest`; `TrailIsFaithful` states what holds |
| `README.md:408`, `PHASE_07_observe.md:24`: polling is the safety net for missed webhooks | the stored reference is a link's, the fetch wants a payment's | `PaymentRefs`, `SeeCaptured`; `webhook_safety_net` |
| `webhook_lock.py:7-8`: True if this event is seen for the first time | after a lost reply to `SET NX` the client repeats it, and the only post of the event is told that it is a duplicate | `EnqueueFails` |
| `IMPLEMENTATION_GUIDE.md:163-164`: the complete history | a query that fails is answered with 200, no items and a total of 0 | `FailRead` |
| `audit.py:20`: returns audit trail records | an empty page, one past the end too, is answered with eight demo rows | `Total`, `Fetch` |

### Fairness

* Beat starts both reconciliation tasks for ever, time passes, and a running
  task goes on: weak fairness of the steps of sweeps and polls. Strong fairness
  where a step competes with a failure that may repeat: Razorpay does not fail
  every search, and not every worker is killed at the same point.
* A delivery that started goes on unless its worker dies (`Abandon` counts as
  an end). The broker delivers a delayed task.
* In the breaker, decisions keep arriving for the segment, so an admission that
  stays possible happens.
* The consumer's process is restarted when it dies (`ServiceFairness`); nothing
  is assumed about Razorpay redelivering.
* A batch run that started is a thread that goes on, until it is done or has
  failed; Postgres grants a lock when its holder is gone and breaks cycles.
  Nobody has to start a run.
* Beat starts the promise task every day and a run of it goes on (`Settling`);
  apart from broken promises, only `MaxFailures` runs fail. Evaluations need not
  end, and nobody has to opt out, recover or promise.
* A request that was received and a batch run that has begun are threads that go
  on; an insert that waits is woken when the transaction it waits for is over, and
  later comers do not overtake it for ever (strong fairness of `Handle`). Nobody
  has to post, to start a run or to read.
* All of this takes the schedule for granted: `celery_app.py:21` looks for a
  module `tasks` inside `apps.worker.src.tasks`, and `infra/docker-compose.yml`
  starts a worker without beat; a deployment has to see to both.

## Proofs

`ActionSagaProofs` proves for every set of decisions, deliveries and sweeps,
every retry limit and page size (`SagaAssumption`):

* `TypeCorrect`, `OneCreatorPerDecision`, `OneActorPerDecision`,
  `StoredReferencesAreReal`, `ActionsAreAudited` and `ResolvedStaysResolved`.

None of the invariants is inductive alone: that a confirmed reference is real
depends on what a call carries from the answer to the commit, and that only one
call creates links on the fact that a call between its intent and its outcome
still owns the row. `SagaInv` adds these (`CallConsistent`, `SweepConsistent`);
`SagaInvariance` is its induction, one lemma per conjunct, with the actions
grouped by the variables they write. `LinksAreBounded` adds that a call has paid
for every link of its decision with a try (`TriesPaid`). TLC has checked `SagaInv`
on the instance of `saga_hang`.

Three more hold under two assumptions, which the theorems state: no call
outlasts `STUCK_THRESHOLD` (`~CallsMayHang`), and the newest link of each decision
is always on the page that is searched (`[]OnPage`):

* `LedgersTellOneStory`, `DeadLettersAreTruthful` and `VerdictsAreFinal`.

`PromptInv` is their invariant: an overdue row is in nobody's hands but the
sweeps', so no link is made for it any more (`OverdueIsFrozen`) and whatever a
sweep finds, now or later, is the same newest link; a young row is written by its
owner alone (`RowMoves`). TLC has checked `OnPage`, `PromptInv` and `TriesPaid` on
the instance of `saga_prompt`.

Nothing in the Act step loops: `DeliveriesDescend` gives a delivery a number of
steps it has left (`StepsLeft`, at most `MaxRetries + 8`) that each of its steps
makes smaller, and `SweepsAdvance` says that a sweep strikes off one of its rows
whatever becomes of it (`CurrentIsToDo`). What a sweep cannot do is the content of
`LeftOpenForGood`: an intent of a recorded decision whose delivery is over stays
'attempting', for its owner alone would write it and the sweep's note is refused.
This is the counterexample of `saga_gap_unresolved`, for all constants. TLC has
checked the three on the instances of `saga_prompt` and `saga_hang`, and that
such an intent is reached.

`BatchLearningProofs` proves for any runs, merchants, arms, drafts and number of
repeated commands (`StoreAssumption`, `BatchAssumption`, and `FiniteAssumption`: the
statistics are summed over finitely many runs, merchants and arms):

* `TypeCorrect`, from `Typed`: a run that samples has a draft left to do.
* `PriorsKept`, from `StoreInv`: what the commands an update has behind it have
  set up is there (`PriorsLaid`), and a learner that begins an update is not
  one that is between two commands (`UpdateOwned`), so that a hash with one
  field always has somebody who was working on it.
* `CommittedReferences`, from `CatalogInv`: no row is held by two transactions
  (`RowsHeld`), and a row a run needs is committed, held, or still to be looked
  up or inserted (`RowsAccounted`).
* `GlobalIsPooled`, from `Pooled`: of each learner, what it still owes to the
  pooled key, most of them nothing (`Debt`). The sum is over all learners, so
  that a command moves one term on each side: an increment of a merchant's key
  makes a debt, the increment of the pooled key pays it, a dead learner keeps it.
* `CommittedCountsAreLearned`, from `Covered`: what a merchant's keys have learned
  is at least what its runs that have not failed have told them so far (`Told`: the
  worth of their counts but for an increment still to send, `Pending`), and just
  that while none has failed. `OwnUpdate` ties an update to the run that sent it:
  it is about the run's merchant, and its outcome is already counted.
* `DriftIsBounded`, of the counts Redis really holds, repeated commands included:
  merchants' keys and pooled key differ, up to what is on its way, by at most 1.0
  (ten of the model's tenths) for each repetition (`RepetitionsCounted`: what
  repetitions added to all fields together is paid for by `repeats`).
* `RunsDescend`: every behaviour is finite, with no fairness assumed. `Rank`
  weighs what a run has left (rows to look up, insert, roll back and commit; drafts,
  each worth one decision and one update), a repeated command costs one of the
  budget, and `Remaining`, the sum over all runs and learners, is a natural number
  that each step makes smaller.
* `RunsAreNotStuck`: while a run is active, some run does not wait, or there is a
  circle of runs that `DeadlockVictim` breaks; for an inserted row is always some
  open transaction's (`InsertedAreHeld`).

TLC has checked these strengthenings on the instance of `batch_shared`, and that a
run's next step is enabled there exactly when `RunsAreNotStuck` says it can go on.
The last two theorems are the argument for `RunsEnd`: what they leave to TLC is
this equivalence, which is about ENABLED, and the induction over `Remaining`.

`FiniteSums` has the facts about sums these need, for the library's
`SumFunctionOnSet`: that its recursion defines something (`SumsExist`), that any
element can be taken out first (`SumTakes`), that a sum moves by what one of its
terms moves (`SumMoves`), and that the sum of two functions is the sum of
their sums (`SumAdds`). The library's induction theorems take the property as an
operator, which no prover here can instantiate. The induction is therefore on
the set of counterexamples: were there one among the subsets of a finite
set, there would be a smallest (`SmallestSubset`, from the well-foundedness of
strict inclusion), and the step refutes that.

`ComplianceGateProofs` proves for any episodes, promises, evaluations and
overlapping runs of the task, any number of days and of failures
(`GateAssumption`):

* `TypeCorrect`, `OptOutDecides`, `PromiseIsHeard` and `KeptIsOver`.

They all rest on `Forward`: opt-outs and recoveries stay, days pass, and a
promise keeps its date and never becomes active again, so what was read before
an interleaving is still true after it. `GateInv` says what each actor has
read: where an evaluation may be once its customer was barred (`Barred`), that a promise it
has passed over is hidden or settled (`Suppressed`), that what a run of the task
has collected is overdue and recovered (`Read`). `GateInvariance` is its
induction; TLC has checked `GateInv` on the instance of `gate_promises`.

`PostgresRecordsProofs` proves of the requests, for any clients, customers and
merchants, any order of the flush and any number of missed answers
and false answers (`IntakeAssumption`), that events are accounted for and duplicates
are found. `IntakeInv` says of each request what it
carries: its episode from the look-ups to the commit (`Carries`), every row its
episode refers to as committed, inserted or still to insert (`Accounted`), and,
because committed rows stay, that what refused it once is not tried again
(`Learnt`).

`IntakeHasNoCircle` explains why `EventIntake` needs no deadlock victim: a request
that stands (its next row is another's) waits for a batch run, or for a request
that goes on or waits for such a run. From `Locked`: a key inserted is nobody
else's and not committed, and the foreign key lets nobody insert a customer but
over a merchant that is committed or his own. So whoever holds the merchant's
row cannot wait for its customer's, and the other way round, in whatever order
a flush inserts. `IntakeDescends` counts the steps an attempt has left (seven at
the most), and `NobodyStandsForGood` carries both to the whole, where a merchant is
reserved only by a run that may end at any time. TLC has checked these on the
instance of `records`, also with the flush reversed and unordered, and that a
request under way has a step unless it stands. That equivalence and the fairness
of the scheduler are what `RequestsEnd` adds to them.

`AuditTrailProofs` proves `TrailIsFaithful` for any writers, rows and readers, any
page size and any clocks (`TrailAssumption`). The argument is a count: a row that a
reader still lacks, and whose stamp is its own, has at least as many newer rows as
he has been past (`Ahead`), for writes only add to them, so it lies on a later
page; and the total he is told exceeds his offset (`Within`), so he goes on, unless
a query fails: then the same count says which rows he may lack.

It then proves that the composition implements both of its parts
(`ImplementsParts`: every step is a step of each or leaves it alone) and so
carries their invariants over (`TypeCorrect`, `AccountedTogether`,
`FoundTogether`, `FaithfulTogether`).

`WebhookPipelineProofs` proves for any actions, API processes and overlapping
polls, any length of the stream and number of expiries (`PipelineAssumption`):

* `TypeCorrect`, `LedgerIsKept`, `AcknowledgedIsAccounted`, `RecordedIsReal`
  (assuming that payment.failed is not subscribed to) and `EveryCopyHasItsCause`.

`PipelineInv` has three parts: what is posted has happened (`Fed`), the group has
handed out no more than was appended (`Queued`), and at most one poll or the
operator owes an action its audit row, which then has an outcome and no row yet
(`Booked`, with `Due` for one action). From `Due` each step is one of `OutcomeLedger`
or leaves its two variables alone (`LedgerSteps`), whence the refinement. An
acknowledged entry remains accounted for because outcomes stay and entries are
never taken out; copies of an event are counted with those still on their way and
those given up, so that `AcquireLock` adds one with the lock's new life,
`EnqueueUnanswered` one with its lost reply, and `Enqueue` only moves one. `NoSecondChance` is the
counterexample of `webhook_unacked` for any stream: the consumer has an entry in
hand once at the most, and one it left unacknowledged is pending for good.

`CircuitBreakerProofs` proves for any workers, thresholds and crashes
(`BreakerAssumption`) `TypeCorrect`, `TimestampIsKept`, which is inductive with the
types, and `TornCountsAreBounded`. The last needs `FailuresToCome`: a worker
between its two HINCRBYs has a failure to come whose attempt is counted or was
reset, and the worker that resets is not among them; a failure that is counted
again adds to `recounted` as well. `AloneItIsTheTextbook` is
the safety part of `ImplementsFSM`: what a worker alone has read of the state is
still true when it acts on it (`FreshRead`). `WedgedForGood` is what
`breaker_stuck_open` runs into: an open breaker without `opened_at` that nobody is
at work on stays as it is.

Every safety property the passing runs check is stated by a theorem. Only
model-checked is all liveness (`UnrecordedGapResolved`, `CallsEnd`,
`ReprobeEventually`, `HalfOpenDecides`, `RunsEnd`,
`RequestsEnd`, `KeptIsSettled` and the fairness of `ImplementsFSM`), which needs
ENABLED and is out of the prover's reach; of `RunsEnd`, `RequestsEnd` and `CallsEnd`
the safety part is proved as said above.

## Known limits of the models

* The first outcome wins; a failure that is later captured keeps its failure.
* Two `actions` rows with one reference (a sweep that meets a hanging call) are
  possible in `ActionSaga` and are not fed into `WebhookPipeline`.
* Events without any id share one lock in the code; the model's coarsest key is
  the payment.
* The Redis client repeats a command after a lost reply everywhere. Modelled are
  the repetitions that change something: the increments of `BanditStore`, every
  writing command of `CircuitBreaker`, and of `WebhookPipeline` the `XADD`, the
  `SET NX` and the `XREADGROUP` (`ReadLost`). `XACK`, `XGROUP CREATE` and `HSETNX`
  have no second effect. A command is repeated after its first copy was applied or
  lost: one that is still on its way when the second is applied is not modelled.
* How often Razorpay reports a payment of a link, and under which ids, is its own
  affair: `PaymentRefs` only says whether they match.
* After a database error a poll's session stays unusable; the model ends the
  poll (`AbandonPoll`).
* `ComplianceGate` has one calendar: the gate's UTC date and the worker's own
  (`date.today()`) are taken to agree.

## Not modelled

* **Snapshot of the statistics.** `snapshot.py:34` splits keys of four parts,
  `bandit:merchant:context:arm`, into three; the arm becomes `context:arm`, which
  the foreign key to `arms` refuses at the first upsert, and the transaction is
  lost. On SQLite the insert fails as well. Beat does not schedule the task. No
  branch writes a row (`DATABASE_DESIGN.md:237` calls the table a durable snapshot).
* **Diagnosis.** `LLMOutputSchema` (`llm_fallback.py:51-53`) is defined nowhere: each
  parse raises `NameError`, three times, and `classify` falls back. So nothing is
  stored and the semantic cache stays empty; `embedder.py:21` uses a `logger` that
  does not exist, so a failed embedding raises where its comment promises a zero
  vector. The live pipeline does not call `diagnose`. What remains is a table of
  codes without state.
* **Off-policy evaluation, generator, seed runners.** Floating-point arithmetic over
  one process's data.
* **Rest of the read API.** Single queries and canned data. `GET /events/{id}`
  raises for every existing event (`mappers.py:8` reads relationships no model
  declares); the learning curve takes the first 200 audit rows of all runs.
* **Simulation switches and stream.** `POST /chaos` and `/opt-out` set variables of
  one process, `run_batch` reads Redis keys nobody sets. Only `write` and
  `write_batch` publish to the stream, and their callers give the audit service no
  Redis client; the executor gives it one and calls the two that do not publish.
* **Shells and configuration.** Wiring, signatures, error pages; the dashboard.
