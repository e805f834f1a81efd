# Formal models of crypto-trading-data-miner

TLA+ specifications of this repository's own logic, TLC configurations that
check them on small instances, and TLAPS proofs of what matters most for every
instance. Paths are relative to the repository root; `src/backtest/...` below
stands for `src/backtest/...` of the Python package (`src/src/...` in
`PROJECT.json`, which counts from the directory above).

The program mines Binance market data into PostgreSQL, checks and repairs it,
and runs bar-based backtests over it. A FastAPI server exposes all of it to a
browser console. Seven state machines carry the logic that is hard to test:

* the **asynchronous backtest job service**: request threads, worker threads and
  a process that may die share rows and memory;
* the **backtest bar loop**: portfolio, fill model and guardrails interact over
  long sequences of legal steps;
* the **records of a run**: orders, fills, points and traces written in chunks
  while the bars go by, and the reports computed from them;
* **gaps of the bar series**: checks, validation, remediation, backfill and
  repair work on the same two tables at once;
* the **snapshot jobs and their scheduler**: plans made from rows that others
  change, in threads that outlive the loop that started them;
* the **history backfill**: processes that share a status file;
* **comparison and notes**: notes seeded by the system beside notes of authors.

## 1. Inventory

| component | state | operations | interacts with |
|---|---|---|---|
| asynchronous backtest jobs (`services/backtest_job_control.py`) | rows of `ops.ingestion_jobs`; `_ACTIVE_THREADS`, `_CANCEL_REQUESTED_JOB_IDS` | start, get (may mark stale), cancel, the worker thread | bar loop by callback; API threads; console polling |
| bar loop (`backtest/runner.py`, `run_bars`) | pending orders per symbol, latest closes, artifacts of the run | one iteration per bar time, persistence of a run | portfolio, fills, guardrails, strategy, traces, performance |
| portfolio (`backtest/state.py`) | cash, average-cost positions, realized profit, fees | `apply_fill`, `mark_to_market` | bar loop, guardrails |
| planning and fills (`backtest/lifecycle.py`, `fills.py`) | none (orders are values); a fee cache | plan from target, create order, process open order, expire | bar loop |
| guardrails (`backtest/risk.py`) | day, day-start equity, peak, latest equity, cooldown | observe a bar's equity, observe a fill, evaluate an intent, complete a bar | bar loop, portfolio |
| performance (`backtest/performance.py`) | running peak | one point per bar time, summary | bar loop |
| configuration and registries (`models/backtest.py`, `assumption_registry.py`, `risk_registry.py`) | none | merge named bundles, policies and overrides | bar loop, guardrails |
| loading (`backtest/data.py`) | a cursor per context series | load bars, `context_at` | bar loop, strategies |
| debug traces (`runner.py`, `traces.py`) | a quiet span and the level of tracing | select, compress, persist | bar loop |
| diagnostics and periods (`diagnostics.py`, `periods.py`) | none | flags, anchors, a breakdown by year, quarter or month | rows of a run |
| compare and notes (`compare.py`, `compare_review.py`, `investigation_notes.py`, `repositories/research.py`) | compare sets, annotations, anchors of traces | compare, list (which seeds a note), write a note, add an anchor | API, rows of a run |
| artifact catalog (`artifacts.py`) | none | a fixed list of references | API |
| strategies (`strategy/*`, `signals.py`) | histories of closes | `evaluate` | bar loop |
| ops repository (`storage/repositories/ops.py`) | job, log, gap and quality rows | insert, finish, resolve, list | all jobs |
| gap remediation and bar backfill (`startup_remediation.py`, `jobs/backfill_bars.py`, `integrity_repair_control.py`) | gap rows, bars, job rows | detect, backfill, resolve | ops repository, REST client |
| data quality (`jobs/data_quality.py`) | check and gap rows | gap, freshness, duplicate and integrity checks | ops repository |
| snapshot jobs (`refresh_`/`remediate_market_snapshots.py`, `sync_instruments.py`) | checkpoints in job metadata, series rows | refresh, remediate by window | REST client, ops repository |
| scheduler (`builtin_scheduler.py`, `jobs/scheduler.py`) | an asyncio task per definition, a thread per running job | start, loop, stop | snapshot jobs |
| history backfill control (`btc_backfill_control.py`) | a status file and a child process | load status, trigger | API, backfill script |
| exchange ingestion (`ingestion/binance/*`, `runtime/binance_trade_stream.py`) | a page cursor; a stream connection | paged fetch, stream to rows | repositories |
| repositories, validation, traceability, API, console, scripts | rows; none; none; UI state | SQL, checks, joins, routing, rendering | everything |

What is hard, and where (each has a line in `PROJECT.json`, `hazards`):

* **Interleaving.** `get` and `cancel` read a job row in one statement and
  write it in another, by key and without a lock held in between, while the
  worker writes the same row. The in-memory flag and the row of a cancel are
  set at different moments.
* **Crash and restart.** Threads and both in-memory sets vanish; rows stay.
* **Rollback.** Several handlers record a failure in the very transaction that
  the re-raised exception rolls back (`load_run_and_persist`,
  `jobs/backfill_bars.py`).
* **Ordering inside a bar time.** Fills, decision, guardrails, new orders, mark
  to market and the cooldown's countdown depend on their order; with several
  symbols the bars of one time come one after another.
* **Stale judgement.** The guardrails see positions and cash, not the pending
  orders.
* **Long legal sequences.** Average cost through additions, reductions and
  flips; peaks kept in two places; a cooldown counted in evaluations.
* **Check then act**: two backfill triggers before a status file exists; two
  checks of one window; a remediation whose plan is as old as its first call.
* **Threads and processes that outlive their owner**: a cancelled scheduler task
  whose thread runs on, a backfill whose API restarts, a process id of a zombie.
* **Arithmetic of times**: closed windows, grids, floors, one period more or
  less, months, pages and limits; the same question (what is missing?) is
  answered by four pieces of code that must agree.
* **Buffers**: traces, points, orders and fills reach the tables at different
  moments through ids kept in memory.

What makes each component correct:

* jobs: a row never claims a run that is not committed, a failure leaves none,
  a cancel that arrived in time is obeyed, every job settles;
* portfolio: cash, profit, fees and positions explain the equity; positions are
  the sum of the fills;
* planning and fills: an order lands on its target, never on a bar it was
  decided on, and is open only while it waits somewhere;
* guardrails: limits judged on the equity the run reports, a cooldown served in
  full, caps that hold;
* gaps: a gap is resolved by a backfill of its window or listed again, and what
  a report says of the rows is so;
* snapshot jobs: a remediation that succeeds leaves no hole it could fill, a
  loop survives its jobs, a running row has a thread;
* history backfill: whoever reads the status file finds a whole report; a
  finished run covered its window, however often it was resumed;
* records and reports: each order settles by one row, each quiet span is
  represented once, periods add up to the summary, diagnostics are true;
* comparison and notes: one system note per subject, true of it; no author's
  note is touched by another request;
* context cursor: no value from the future, and each value what the tables say.

## 2. Modules

| module | what it models |
|---|---|
| `BacktestJobContract` | the abstract service: each job settles once, and which statuses may be reported meanwhile |
| `BacktestJobControl` | the service, one action per lock, statement, commit or bar |
| `BacktestJobControlProofs` | its theorems |
| `Quantities` | signed quantities shared by the engine's modules |
| `BacktestPortfolio` | `PortfolioState`: `apply_fill`, marking, equity |
| `BacktestFills` | targets to intents to orders to fills |
| `BacktestRisk` | `RiskGuardrailEngine`: session state and every rule |
| `BacktestEngine` | `run_bars` over the three above, as a state machine |
| `BacktestEngineProofs` | its theorems |
| `SharedLemmas` | lemmas about times, sequences, sums and holes |
| `DebugTraces` | trace options, selection, quiet-span compression, chunks, serialized id lists |
| `RunReports` | performance summary, diagnostics, periods, as operators over rows |
| `MarketContext` | the perpetual's context series, their cursor and the derived changes |
| `RunRecords` | `load_run_and_persist` with its sinks: what a run writes, bar by bar |
| `RunRecordsProofs` | its theorems |
| `IntervalCoverage` | windows, grids, missing segments, coverage profiles |
| `RestPagination` | the paged fetches of the REST client |
| `DataQuality` | the checks of `jobs/data_quality.py` over the rows of a data set |
| `CoverageChecks` | those three against definitions, for all small inputs |
| `BarGaps` | bars, gap rows and every job that changes them |
| `BarGapsProofs` | its theorems |
| `SnapshotPlans` | plans, windows and calls of the snapshot jobs |
| `SnapshotJobs` | the jobs, the scheduler's loops and threads, API requests |
| `SnapshotJobsProofs` | its theorems |
| `HistoryBackfill` | the backfill script, its status file, the API's control of it |
| `HistoryBackfillProofs` | its theorems |
| `ReviewNotes` | comparison, compare sets, anchors, seeds and notes |
| `ReviewNotesProofs` | its theorems |
| `MC...` | small instances for TLC |

How they are composed:

* `BacktestEngine` EXTENDS `BacktestRisk`, which EXTENDS `BacktestPortfolio` and
  `BacktestFills`. The job service stands alone; its worker abstracts the bar
  loop to a count of bars with a progress callback after each.
* `RunRecords` EXTENDS `DebugTraces`, `RunReports` and `MarketContext`. It leaves the decisions of
  the engine open (any bar fills any of its pending orders, any decision comes),
  so what it says holds of the rows of every engine.
* `DataQuality` and `RestPagination` EXTEND `IntervalCoverage`. `BarGaps` and
  `SnapshotPlans` EXTEND both; `SnapshotJobs` and `HistoryBackfill` EXTEND
  `SnapshotPlans`, since the backfill script calls the same refresh.
* `BacktestJobContract` is the abstract specification that `BacktestJobControl`
  implements (INSTANCE with a refinement mapping, as a property and as theorem).

Definitions named `X_Something` preceded by "Slip" are plausible bugs: a form
of `X` that the code does not have. Replacing `X` by one of them must break the
property named with it in `PROJECT.json`; the specifications never use them.

### The job service

`row` is the committed row of `ops.ingestion_jobs`, reduced to the status, the
cancel flag, whether the canceler's name is there, whether a `run_id` is there,
and whether the heartbeat is within `STALE_JOB_THRESHOLD`. `active` and
`cancelRequested` are `_ACTIVE_THREADS` and `_CANCEL_REQUESTED_JOB_IDS`. `worker`
is the program counter of the job's start request and then of its thread;
`txRun` and `run` are the run row inside and outside the worker's transaction.
`req` is the request that each API thread serves, with the snapshot it read.

The grain follows PostgreSQL at READ COMMITTED: a SELECT and a later UPDATE are
two actions; an UPDATE and the commit that publishes it are one, because the
row lock lets nobody in between. `finish_job` names its row by key only, so an
UPDATE overwrites whatever the row holds by then. `Crash` empties what is
memory, rolls back what is open and leaves the rows; `Restart` brings back a
server that knows no thread. Errors are anything the code catches: of the
database, the loaders or the strategy, and of the write of the final status.

### The bar loop

`phase` tells where `run_bars` stands: between two bar times, at a group of bars
of the same time, among the fills of one bar, done, or ended by a
`LifecyclePlanningError`. `pending` is `pending_orders_by_symbol`: the code
lists an order under the symbol **of the bar it was decided on**, and so does
the model. `queue` is the list taken for the bar at hand. An order's id is the
time and symbol of its decision and the symbol it names; lists are sets, since
the id orders them. `session` and `cooldown` are the guardrails' state, `perf`
the performance point's. `seen`, `lossAt`, `breached` and the fields `expands`,
`afterLoss`, `afterBreach` of an order are history for the properties.

Money and prices are integers in a unit chosen so that every division is
exact. Slippage and fees are basis points, as in `FixedBpsSlippageModel` and
`StaticFeeModel`. Percentages are compared by cross-multiplication.

### The records of a run

One action is one bar of the loop (`StepBar`), the end of a group of bars of one
time (`EndGroup`), the end of the run (`Finish`), or an exception or a cancel
(`Undone`), after which the transaction has left nothing. `rows` are the tables
as the run's transaction sees them; `buffers` hold the quiet span, the chunk of
traces and the chunk of points; `maps` are `PersistedArtifactState`, the only
way from an order to its row. A fill moves one unit at price 1, so that cash,
position and equity move and their sums can be compared. `cursors` are the
context cursors, one per perpetual, moved by the bars of its symbol. `steps` is
history: each step with the context that its decision saw.

`insert_debug_traces` caches the text of an id list under `id(payload)`. In
CPython an address is used again as soon as its list is freed, so `InsertedRows`
lets a list of a later row of the same chunk take the text of an earlier list
that is dead by then. Which rows are hit is up to the allocator and is
nondeterministic in the model.

### Gaps and bars

Time counts half minutes, so that windows may start off the grid and the last
minute may be under way. A row of a minute is none, partial (fetched before the
minute was over), final or bad (breaks the corrupt condition). A worker is an
API thread, the starting server or a script; `task` holds what it has read. A
SELECT, the fetch, and a write with its commit are steps of their own: the gap
check reads the bars, then the open gaps, then writes; the backfill's fetch and
its upserts are in one transaction, and a failure leaves neither rows nor a job,
because the `failed_terminal` row is written in the transaction that the
re-raised exception rolls back. `failed` counts these lost records. A repair
reads a report cut to `DetectLimit` samples and goes through its merged windows,
deleting those after its own start and fetching the others.

### Snapshot jobs and scheduler

`loops` are the asyncio tasks, `work` the threads; a thread goes on when its
loop is cancelled. A remediation plans one data set after another, commits its
row as running, and makes its calls, each a transaction of its own. The venue
is what it has at a time, minus what a retained series has forgotten. `row` is
the latest remediation row of each worker. When a trigger fires is left to the
clock: a sleeping loop may wake at any time, and, under `Fairness`, it does.

### History backfill

`proc` are processes by process id, with the task list each planned, its counts
and the status it is about to write. The status file and the temporary file are
two names with one content each: opening the temporary file truncates it
(`Torn`), filling and replacing are further steps, and all processes use the
same two names. A child of the API that ended and was not waited for is a
zombie, whose process id still answers a signal. `ApiChecks` and `ApiStarts` are
the two halves of a trigger. `ran` and `crowded` are history.

### Comparison and notes

A request is one transaction at READ COMMITTED, in two steps where it reads
facts first and writes a note later. A compare set is upserted under the hash of
its request, here the request itself. Listing a trace's notes writes its seed.
A run is there from its commit on and changes no more, so that its facts are
constants.

## 3. What is checked

Passing runs:

| run | question | instance | distinct states |
|---|---|---|---|
| `jobs_race` | Do rows stay truthful through every interleaving? | one job, two API threads, two bars, two cancels, one crash | 180 523 |
| `jobs_settle` | Does the service refine the contract, and does each job settle? | one job, two API threads, one bar, one cancel, one crash, under `FairSpec` | 82 567 |
| `engine_market` | Is every equity explained, every order on target, every entry within the reported limits? | one symbol, market orders, five bar times over two days, two prices | 164 908 |
| `engine_limit` | Are cooldowns served and positions the sum of fills, with limit orders that wait, pile up and expire, and flips refused? | one symbol, four bar times | 19 811 |
| `engine_cross` | Do orders wait where they will be found, never look ahead and respect the cap? | two symbols with missing bars, decisions that order another symbol, three bar times | 153 807 |
| `gaps` | Is a resolved gap filled, does a check keep its window, does a repair take effect, does a report tell the rows? | two workers, six minutes, three operations, one trouble, two moments | 236 532 |
| `snapshots` | Does a remediation leave no hole, do plans and audits agree, do loops go on? | one remediation loop and one client, five data sets, one trouble | 152 827 |
| `history_backfill` | Is the status file whole and current, does a finished backfill cover its window? | two processes, one API thread, three data sets, one trouble | 2 532 362 |
| `run_records` | Do orders settle, do traces, periods, summary and diagnostics tell the run, and does its context tell the tables? | two symbols, three bar times, two orders, chunks of two | 209 187 |
| `review_notes` | Does each note tell its subject, and do authors keep theirs? | two clients, three runs, one trace, two notes, two anchors | 1 192 467 |

The bounds are where the interesting cases first happen together.

* *Jobs.* A job interleaves with others nowhere but in the two shared sets, which
  are indexed by job id, so one job is checked; the proofs take any set of jobs.
  Two API threads let a poll and a cancel, two polls or two cancels overlap; two
  bars have a throttled and an unthrottled callback with one more to come.
* *Engine.* A losing close and a cooldown of two bars with an entry after it take
  five bar times; with targets from -1 to 2 every way `apply_fill` can go
  happens: open, add, reduce, close and flip. Two bar times on each side of
  midnight start a new trading day with a position open. Two symbols suffice for
  a bar of the same time still to come.
* *Gaps.* Two workers and three operations let a check run between the listing of
  a gap and its resolution, and a repair between a check's SELECT and its commit.
  Six minutes hold a hole of three minutes, one of them lost by the venue, a bad
  row on either side, and a row of the future until time passes it. `PageLimit`
  is 1, so that each fetch has several pages.
* *Snapshots.* Two contents of the tables hold every shape of hole: head, inside,
  tail, all, and a row off the grid. A day of two periods makes the ratios' calls
  split; a retention shorter than the series makes the floor matter, and it moves
  with the clock.
* *History backfill.* Two processes are enough to share a temporary file and for
  one to resume the other; a month of four ticks makes the plan grow by a task
  while time passes.
* *Run records.* Three bar times with a warm-up bar and quiet spans of up to
  six steps make a span end by activity and by the end of the run; chunks of two
  make the buffers overflow in the middle of either. As any
  bars may be missing, one price path per symbol puts the extremes inside, at the
  start and at the end of a span. The options are those that compress, that keep
  activity only and that sample. The context tables have rows before the warm-up,
  in it, at bars and between them, and a zero value.
* *Notes.* Two clients make one listing older than another; three runs and four
  comparisons give two requests the same ids with different benchmarks, an id
  twice, and a run that is not finished.

Each run checks a type invariant among its properties except `history_backfill`,
`engine_limit`, `engine_cross` and `jobs_settle`; `HistoryBackfill!TypeOK` is
proved instead (section 5).

The named bounds are the constants whose comment starts with "bound".
`CHECK_DEADLOCK FALSE` is said where the system may stop: a run ends, and the
others run out of a bound. Symmetry is used for workers and clients only, in
runs without liveness.

`CoverageChecks` compares the loops over times with definitions: the segments of
a gap check are the maximal runs of the missing points, the three counts of a
profile add up to them, the pages of a window have each of its rows once and in
order whatever the page size, and the two duplicate checks agree. Each is an
ASSUME over all small inputs, which TLC evaluates in the run `snapshots`.

Fairness:

* `BacktestJobControl!FairSpec` (`jobs_settle`): worker threads and accepted
  requests are scheduled; time passes; a dead server is restarted; and the
  console polls every job it launched, so some poll of each job gets a thread
  and some of those polls can write. The last two are strong fairness, because
  threads are shared and because the row's state may change back and forth under
  a poll. Nothing obliges a user to cancel, a worker to fail or the process to
  die. Polling is an assumption on the environment: without a poll a job whose
  worker is gone stays active for ever.
* `SnapshotJobs!Fairness` (`snapshots`): weak fairness of each worker's next step,
  since the event loop and the thread pool run what is ready. Nothing obliges a
  client to ask, a call to fail, the server to stop or start, or the clock to
  pass. Both liveness properties excuse a server that is not up.

Runs that show a disagreement between the code and a sentence of the docs:

| run | the sentence | what the code does |
|---|---|---|
| `trace_links` | `docs/ui-api-spec.md:933` and `DECISION_LOG.md:122`: a trace links the order and fill ids of its step | the text of an earlier step's ids may be written, because a cache keyed by `id(payload)` outlives the lists |
| `engine_daily_loss` | `backtest-risk-guardrails-spec.md:288`: block new exposure for the rest of that trading day | entries reopen once the loss recovers |

The first was tried on CPython 3.11 with the function's own loop: traces with
the lists (order 1), (fill 1), (order 2), (fill 2), (order 3, fill 3) were
serialized with `[13]` as the fills of the last.

## 4. Disagreements

Further sentences of the docs that the code does not keep. Each is a definition
next to the other properties, with a configuration that lets TLC show the
counterexample (`tlc -config <cfg> <MC module>`); they are outside the list of
runs, because the hazard they show is the subject of a run above.

| definition, configuration | the sentence | what the code does |
|---|---|---|
| `StaleMeansOrphan`, `MCJobs_StaleMeansOrphan.cfg` | `DECISION_LOG.md:760`: stale is for jobs that "remain in `queued` or `running` state, have no active in-process worker thread" | a poll that read the row before the worker completed overwrites `completed` with `stale` (`backtest_job_control.py:82`) |
| `CanceledKeepsRequest`, `MCJobs_CanceledKeepsRequest.cfg` | `job-orchestration-spec.md:499`: "Canceled jobs must persist cancellation metadata." | the worker rebuilds `metadata_json` from scratch (`backtest_job_control.py:276`) |
| `CanceledRunIsFinalized`, `MCJobs_CanceledRunIsFinalized.cfg` | `DECISION_LOG.md:783`: "if persistence had already begun, the underlying `backtest.runs` row now finalizes as `canceled`" | the same transaction is rolled back, so no run row remains (`runner.py:598`) |
| `PositionCapped`, `MCEngine_PositionCapped.cfg` | `backtest-risk-guardrails-spec.md:116`: `max_position_qty` caps the session's size | pending limit orders are not counted, and two of them pass the cap (`risk.py:313`); it holds with market orders |
| `MarketFillsAtNextOpen`, `MCEngine_MarketFillsAtNextOpen.cfg` | `assumption_registry.py:80`: `bars_next_open_v1` | a market order on another symbol waits in the wrong list and never fills (`runner.py:339`) |
| `SpotBuysAreFunded`, `MCEngine_SpotBuysAreFunded.cfg` | `backtest-risk-guardrails-spec.md:101`: "prevents spot backtests from buying inventory with unavailable cash" | two spot buys of one bar time are judged against the same cash (`risk.py:269`) |
| `ResolvesOnlyStaleGaps`, `MCBarGaps_ResolvesOnlyStaleGaps.cfg` | `docs/implementation-plan.md:342`: "missing intervals are visible in `ops.data_gaps`" | a check resolves the whole of every gap that overlaps its window and lists again only what is missing inside it (`ops.py:792`); the validation also drops the head and the tail of its window (`data_quality.py:1071`) |
| `OneBackfillAtATime`, `MCHistoryBackfill_OneBackfillAtATime.cfg` | `docs/ui-api-spec.md:717`: "returns `already_running=true` when an active BTC backfill process already exists" | a process is named by the file only once it has planned its tasks, and a second trigger starts another (`btc_backfill_control.py:128`) |

## 5. What is proved

`BacktestJobControlProofs`, for any sets of jobs and request threads, any number
of bars, cancels and crashes (assuming only that `NoJob` is no job and that the
bounds are naturals):

* `TypeCorrect`, `RunIdIsTruthful`, `FailureIsClean`, `HeededCancelIsKept`;
* `ServiceKeepsContract`: the refinement of `BacktestJobContract`, step by step.

The inductive invariant `IInv` adds what the properties do not say by
themselves: a run is committed only by the last step before the `finally` block;
only a completed row **or snapshot** names a run (a poll may write its snapshot
back at any time); a request about to write read an active row; rows and
requests exist only for accepted jobs; a heeded cancel is still flagged in
front of a check, or was obeyed.

`BacktestEngineProofs`, for any symbols, universe order, bars, strategy, policy,
fees and length of the run. Of the orders:

* `FillsNeverLookAhead`, `OrdersAreNotLost`, `CooldownIsServed`;
* with market orders, `MarketPositionsAreCapped` and
  `MarketOrdersReachTheirTarget`. `MCEngine_PositionCapped.cfg` shows why the
  first needs the hypothesis.

The inductive invariant `Inv` has four parts. `Typed` gives types to everything
but the money. `Listed` says where an order waits follows from its id and its
status. `Ages` says that nothing decided at the present time waits for a bar of
the present time: neither in the queue nor in the list of a symbol still to
come; that is what no look-ahead rests on. `Cooling` relates the countdown to
the time of the losing close (one less between bar times, after
`complete_bar`). `Landing`, for market orders, adds that each symbol has one own
order in flight at most, computed from the position it will meet and within the
cap or no larger than that position; a lemma about the guardrails shows that an
intent that may bypass them only reduces. `EvaluateBar`, `ProcessOpenOrder`,
`FilledOrders` and `ExpiredOrders` say once what the large actions do to the
orders, and the step lemmas cite them.

Of the money:

* `TypesHold`, `GuardNeverMilder`, `PositionsAreTheFills`;
* `EntriesAreWithinReportedLimits`, for one symbol as the property says;
* `EquityIsExplained`, under the hypothesis `[][ExactAverages]_vars`: each
  average entry price comes out whole. The program computes with decimals; the
  model with integers in a small enough unit, and a behaviour that would round
  says nothing of the code. TLC confirms that the instances of all three engine
  runs satisfy the hypothesis in every step.

`MoneyInv` adds types of money (`MoneyTyped`) and `Guarded` to `Inv`: once a time
has had a bar, the guardrails hold the equity that its end will report, and a
peak no lower than the reported one. It needs `InitialCash` to be positive, as
`BacktestRunConfig` demands (`models/backtest.py:328`), since a fresh session
starts from it. `AddUp` is the ledger of positions; the ledger `Balanced` ties
cash to cost and realized profit and is kept by every fill, opened, added to,
reduced, closed or flipped. `Judged` says that between two evaluations the two
peaks are the same one and that the entries of this bar time were judged by it.

`SnapshotJobsProofs`, for any data sets, retention, period, page and window
sizes, venue, contents of the tables, loops, clients, failures and crashes:

* `TypesHold`, `RunningRowsAreTrue`;
* `SuccessLeavesNoHoles`: an action property about a remediation's start and end.
  Its invariant follows what is wanted of a data set (what the venue had at the
  start and still has) through the remediation: before the plan nothing is
  claimed; after it each wanted time is stored or in the plan; from the row on it
  is stored, fetched or asked for by a call that is still to be made. Lemmas say
  that plans, windows of days and the calls made of them lose no time, and that
  the venue only forgets.
* `PlansAgree`: plan and audits look at the same periods (`PlannedTimes`,
  `AuditParts`), of which the plan takes the set that is missing and the audit
  counts head, inside and tail; `ProfileCountsMissing` makes the two agree. It
  assumes that the audited window reaches back to what the venue keeps
  (`Retention <= StartTime`: time 0 is the window's start).

`HistoryBackfillProofs`, for any data sets, months, venue, contents of the
tables, processes, API threads, failures, kills and restarts:

* `TypesHold`, `StatusIsWhole`, `ReportStaysCurrent`, from `IInv`: what a process
  knows of its own work, and that one which has been alone all the time finds
  its files as it left them;
* `FinishedRunsCover`, from `CoverInv`: a report is true of *any plan made since*,
  because a plan only grows at its end as time passes. That is why a resumed run
  may skip the tasks of a new plan by the number of those done of an old one. The
  report of a resumed file may count more tasks than the process's plan has;
  `ReportIsCurrent` allows for it, as the code does;
* `FinishedLeavesNoHoles`, from `RowsInv`: whatever an incremental run owes is
  stored, or ahead of it in a task or a call. `FundingAssumption` (a funding rate
  is settled once per interval, and stored rows are the venue's) makes a row that
  the planner counts the row the venue has.

`BarGapsProofs`, for any windows, venue, rows stored at the start, page size,
lookback, workers, failures and crashes:

* `TypesHold`, `GapsAreFilled`, `RepairsWork`, `WindowsAreKept`;
* `ReportsTellTheRows`.

`IInv` follows each worker from what it read to what it writes: its window; the
gaps it names, which nobody else fills; the rows it has fetched, which are all
that the venue had in its window at that time (`Fetched`, `Filled`); the minutes
that its repair has still to write (`StillToRepair`); and the rows that its
SELECT saw, of which only a repair's deletion takes any away (`SeesRows`). The
lemmas `FetchPagesFacts` and `FetchedRows` say that the paged fetch returns all
rows of a window in order, whatever the page size; `SegmentsFoundFacts`,
`DetectedFacts` and `MergeWindowsFacts` that the segments that a check finds,
the windows that a repair detects and the merge of windows lose no minute. The
validation report is a function of the rows: `ReportParts` says what it is
computed from, `ProfileCountsMissing` that head, inside and tail count each
missing minute once, and `SegmentsAreMaximalRuns` that its segments are the
maximal runs of the missing minutes between two rows.

`ReviewNotesProofs`, for any runs, traces, comparisons, clients, notes and
anchors:

* `TypesHold`, `NotesTellTheTruth`;
* `AuthorsKeep`: the action property `AuthorsKeepTheirNotes`.

`IInv` says that a compare set is what `persist_compare_set` makes of a valid
comparison, under a key of its own (so that writing it again changes nothing);
that a note's references and facts belong to its subject, where a request that
waits holds the references of an earlier time, still true because anchors are
only added; that a subject has one system note at most, whose type follows from
the subject, so that the upsert finds it; and that a request that waits to
update a note knows an author's note of its subject. `SnapshotFacts` derives
from `ReviewAssumption` (the compared dataclasses have the same fields for every
run) that the differences, deltas and flags are true of the runs and not of the
order they are in. `CountsByValue` makes the overview's sum over sources count
each note once.

`RunRecordsProofs`, for any symbols, bars, context tables, trace options,
decisions, chunk size and length of the run:

* `RecordsTypeOK`; `OrdersAndFillsSettle`; `TracesAreTheRun`;
  `DiagnosticsSayWhatHappened`; `StrategySeesTheTables`; `ReportsTellOneRun`.

The invariants follow what waits in memory to the tables. `OrdersTell`: the id
map leads from each order to a row of its own, which is submitted as long as
the order is pending and filled by exactly one fill row afterwards, so that the
sink of statuses never meets an order of another. `CursorsBehind`: a context
cursor has passed exactly the rows at or before the last bar of its symbol;
`LatestIn` of the table is then what the cursor stands on, though rows before
the run's warm-up were never loaded. `TracesTell`: rows, buffer and open quiet
span, in this order, are the steps selected so far, and the cash deltas of all
add up to the cash; that the compressor keeps the ends and the extremes of a
span, four rows at most, is shown of `SelectedRecords` for a span of any
length. `PointsTell` and `BlocksTell`: stored points and buffered points are the
bar times so far, once each, with the running peak and the deepest drawdown
over them; each blocked step has a trace, so the last is the anchor. `WhenTell`:
each order and fill has the time of a bar. From there the reports are a matter
of operators: `FoldIsDeepest` shows that the fold of the summary ends with the
drawdown that the loop kept; `PeriodsFacts` and `ChangesFacts`, that the periods
are the maximal spans of one bucket; `PartsAddUp`, that sums over them count each
record once; `HigherPeakIsDeeper`, that the local peak of a period makes no
deeper drawdown as long as the equity is not negative.

`SharedLemmas` holds what several of them rest on: least and greatest times,
grids, sorted sequences, the holes of a series (what they are, that they do not
overlap, and that their lengths sum to what is missing) and the tasks that fill
them, and sums over finite sets. Where the library offers induction only through theorems
that take an operator, which the provers cannot instantiate, the lemmas argue by
the least counterexample among the naturals (`LeastNatural`). `Total` is the sum
of a function over a finite set; that the folds of the model compute it
(`MapThenSumSet`) is shown from the definition of the fold by its uniqueness.

Assumptions on constants are named in the modules that declare them, and TLC
evaluates each in a passing run.

Only model-checked:

* liveness under fairness (`EventuallySettled`, `LoopsGoOn`, `PeriodsAreStored`),
  which TLAPS does not reach;
* that the loops over sorted times and over pages compute exactly what their
  reference definitions say (`CoverageChecks`). Proved of them is what the
  properties rest on: `ProfileCountsMissing` in full, of `MissingSegments` and the
  fetches that they lose nothing.

## 6. Limits of the models

* A strategy is any choice of one target per symbol in reach of a bar. The
  Python type allows a list that names a symbol twice; no strategy of the
  repository does, and `plan_from_signal` is left out.
* Fees come from a constant schedule. `DatabaseFeeModel`'s lookup and cache are
  not modelled.
* Slippage cost, turnover and the annualised figures of the summary have no
  effect on the modelled state and are left out.
* Two properties of `RunRecords` hold under a condition the code calls for. A
  period's drawdown may be deeper than the run's when the equity is negative: the
  same loss is a greater part of the period's lower peak. Options that sample
  quiet steps or keep activity only drop the ends and extremes of quiet spans, so
  these are claimed of the other options.
* Progress percentages, payload formats and log rows of jobs are left out. The
  0.75 s throttle of the progress callback is a free choice.
* The job service's clock is one bit per row; clock jumps are not modelled.
* The venue's past does not change: a time it has rows for keeps its row until
  the retention ends. Values of rows are not modelled, except the four states of
  a bar. Months and days have a fixed number of ticks.
* `ops.ingestion_jobs` rows of the snapshot jobs other than the remediation's,
  whose row is inserted and finished in one transaction, are left out.
* `PeriodsAreStored` is checked while the clock passes one tick; that a period is
  stored before a later day forgets it depends on how often the trigger fires,
  which the model leaves open.
* The run `snapshots` schedules the remediation only, while the client also asks
  for refreshes; loops of the sync and the refresh differ from it in their calls.
* The columns that make a row corrupt, the samples' text, the titles and texts
  of notes, and the order of findings are left out.

Not modelled:

* *Loading of bars* (`backtest/data.py`): one query per symbol, merged by time
  and symbol; the models take bars in that order as given.
* *Merging of named policies, assumption bundles and overrides*
  (`assumption_registry.py`, `risk_registry.py`): dictionaries merged once.
* *Strategies and the artifact catalog*: values without shared state; the engine
  takes any strategy.
* *Trade stream, web socket parser, normalization* (`binance_trade_stream.py`,
  `ingestion/binance/*`): one loop that maps messages to rows; it keeps no state
  that a later message depends on and does not reconnect.
* *Validation and traceability*: checks of payloads and joins over rows.
* *The console*: rendering. Its launch poll ends on `completed`, `failed` and
  `canceled` but not on `stale` (`app.js:3986`), which is a hazard without a
  property.
* *Other scripts, DDL*: commands run once by hand.

## 7. Plan

What comes next, in this order:

1. An abstract specification of a gap's life (open, resolved by a job, listed
   again) that `BarGaps` refines.
2. The console's launch poll composed with `BacktestJobControl`.
