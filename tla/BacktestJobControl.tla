------------------------- MODULE BacktestJobControl -------------------------
(***************************************************************************)
(* The asynchronous backtest job service of                                *)
(* src/src/services/backtest_job_control.py, with the rows it keeps in     *)
(* ops.ingestion_jobs (src/src/storage/repositories/ops.py).               *)
(*                                                                         *)
(* Three kinds of actor interleave: API request threads (start, get,       *)
(* cancel), one worker thread per job, and the server process itself,      *)
(* which may die and come back with an empty memory.  They share           *)
(*   - the job rows, which survive the process,                            *)
(*   - _ACTIVE_THREADS and _CANCEL_REQUESTED_JOB_IDS, which do not.        *)
(*                                                                         *)
(* PostgreSQL runs at READ COMMITTED: each statement sees the rows as      *)
(* committed at that moment, and the UPDATE of finish_job names the row by *)
(* its key only, so it overwrites whatever the row holds by then.  Hence   *)
(* one action per statement, not per transaction.  The row lock that an    *)
(* UPDATE holds until its commit is the only one a job meets, so an UPDATE *)
(* and the commit that publishes it are one step.                          *)
(*                                                                         *)
(* Time is abstracted to one bit per row: whether heartbeat_at is within   *)
(* STALE_JOB_THRESHOLD of now.                                             *)
(***************************************************************************)
EXTENDS Naturals, FiniteSets

CONSTANTS
    Jobs,        \* job ids the database may hand out
    NoJob,       \* the job of an idle request thread
    Clients,     \* API request threads
    NBars,       \* bar times a run steps through
    MaxCancels,  \* bound: cancel requests sent in a behaviour
    MaxCrashes   \* bound: server deaths in a behaviour

ASSUME NoJobAssumption == NoJob \notin Jobs
ASSUME NBarsAssumption == NBars \in Nat
ASSUME BoundsAssumption == MaxCancels \in Nat /\ MaxCrashes \in Nat

VARIABLES
    row,             \* ops.ingestion_jobs: the committed row of each job
    run,             \* backtest.runs: the committed run row of each job
    txRun,           \* the run row as the worker's open transaction sees it
    worker,          \* where the job's start request or worker thread stands
    bar,             \* bars the worker has evaluated
    active,          \* _ACTIVE_THREADS
    cancelRequested, \* _CANCEL_REQUESTED_JOB_IDS
    req,             \* the request each API thread is serving
    up,              \* the server process is alive
    cancels,         \* cancel requests sent so far (bounded by MaxCancels)
    crashes,         \* server deaths so far (bounded by MaxCrashes)
    heeded           \* history: jobs whose cancel was flagged before their last check

dbVars == <<row, run>>
workerVars == <<txRun, worker, bar>>
memoryVars == <<active, cancelRequested>>
envVars == <<up, crashes>>
vars == <<row, run, txRun, worker, bar, active, cancelRequested, req, up,
          cancels, crashes, heeded>>

-----------------------------------------------------------------------------
(* Rows *)

ActiveStatuses == {"queued", "running", "cancel_requested"}
TerminalStatuses == {"completed", "failed", "stale", "canceled"}
Statuses == {"absent"} \union ActiveStatuses \union TerminalStatuses

\* What the properties tell apart in a row and its metadata_json: the
\* cancel_requested flag, whether cancel_requested_by is there, whether run_id
\* is there, and whether heartbeat_at is recent.
JobRow == [status: Statuses, cancelReq: BOOLEAN, cancelBy: BOOLEAN,
           runId: BOOLEAN, fresh: BOOLEAN]

NoRow == [status |-> "absent", cancelReq |-> FALSE, cancelBy |-> FALSE,
          runId |-> FALSE, fresh |-> FALSE]

\* _build_job_metadata: metadata is built from scratch, so whatever a cancel
\* request wrote is gone; run_id is there only for a completed job.
BuiltRow(status) ==
    [status |-> status, cancelReq |-> FALSE, cancelBy |-> FALSE,
     runId |-> status = "completed", fresh |-> TRUE]

\* The metadata of a cancel request: the snapshot read before, plus the flags.
CancelRow(snap) ==
    [snap EXCEPT !.status = "cancel_requested", !.cancelReq = TRUE,
                 !.cancelBy = TRUE, !.fresh = TRUE]

\* _merge_job_metadata: the snapshot read before, with the new status.
StaleRow(snap) == [snap EXCEPT !.status = "stale", !.fresh = TRUE]

-----------------------------------------------------------------------------
(* Program counters *)

StartPcs == {"inserted", "registered"}
BeforeRunPcs == {"check_fast", "check_db", "mark_running", "build"}
LoopPcs == {"bar", "cb_fast", "cb_fast_again", "cb_db", "cb_write"}
CleanupPcs == {"mark_canceled", "mark_failed", "pop", "discard"}
ThreadPcs == BeforeRunPcs \union LoopPcs \union CleanupPcs
             \union {"finalize", "finalize_canceled", "rollback_canceled", "rollback_failed"}
WorkerPcs == {"unborn", "done", "dead"} \union StartPcs \union ThreadPcs

RequestPcs == {"idle", "get_check", "get_update", "cancel_update", "cancel_flag"}
Request == [pc: RequestPcs, job: Jobs \union {NoJob}, snap: JobRow]
Idle == [pc |-> "idle", job |-> NoJob, snap |-> NoRow]

RunStates == {"none", "running", "finished", "canceled"}

TypeOK ==
    /\ row \in [Jobs -> JobRow]
    /\ run \in [Jobs -> RunStates]
    /\ txRun \in [Jobs -> RunStates]
    /\ worker \in [Jobs -> WorkerPcs]
    /\ bar \in [Jobs -> 0..NBars]
    /\ active \in SUBSET Jobs
    /\ cancelRequested \in SUBSET Jobs
    /\ req \in [Clients -> Request]
    /\ \A c \in Clients : req[c].pc # "idle" => req[c].job \in Jobs
    /\ up \in BOOLEAN
    /\ cancels \in Nat
    /\ crashes \in Nat
    /\ heeded \in SUBSET Jobs

Init ==
    /\ row = [j \in Jobs |-> NoRow]
    /\ run = [j \in Jobs |-> "none"]
    /\ txRun = [j \in Jobs |-> "none"]
    /\ worker = [j \in Jobs |-> "unborn"]
    /\ bar = [j \in Jobs |-> 0]
    /\ active = {}
    /\ cancelRequested = {}
    /\ req = [c \in Clients |-> Idle]
    /\ up = TRUE
    /\ cancels = 0
    /\ crashes = 0
    /\ heeded = {}

-----------------------------------------------------------------------------
(* start_backtest_run_job: insert the row, register the thread, start it.  *)

\* The request is validated (BacktestRunnerSkeleton(run_config) raises on an
\* unknown strategy) and the row committed before any thread exists.
start_backtest_run_job_insert(j) ==
    /\ up
    /\ worker[j] = "unborn"
    /\ row' = [row EXCEPT ![j] = BuiltRow("queued")]
    /\ worker' = [worker EXCEPT ![j] = "inserted"]
    /\ UNCHANGED <<run, txRun, bar, memoryVars, req, cancels, envVars, heeded>>

start_backtest_run_job_register(j) ==
    /\ worker[j] = "inserted"
    /\ active' = active \union {j}
    /\ worker' = [worker EXCEPT ![j] = "registered"]
    /\ UNCHANGED <<dbVars, txRun, bar, cancelRequested, req, cancels, envVars, heeded>>

start_backtest_run_job_start(j) ==
    /\ worker[j] = "registered"
    /\ worker' = [worker EXCEPT ![j] = "check_fast"]
    /\ UNCHANGED <<dbVars, txRun, bar, memoryVars, req, cancels, envVars, heeded>>

-----------------------------------------------------------------------------
(* _run_backtest_job, the worker thread, one action per lock acquisition,  *)
(* database transaction or bar.                                            *)

GoTo(j, pc) == worker' = [worker EXCEPT ![j] = pc]

\* A step of the worker that changes nothing but its program counter.
Step(j, from, to) ==
    /\ worker[j] = from
    /\ GoTo(j, to)
    /\ UNCHANGED <<dbVars, txRun, bar, memoryVars, req, cancels, envVars, heeded>>

\* A committed finish_job of the worker: the row becomes a built one.
Write(j, from, status, to) ==
    /\ worker[j] = from
    /\ row' = [row EXCEPT ![j] = BuiltRow(status)]
    /\ GoTo(j, to)
    /\ UNCHANGED <<run, txRun, bar, memoryVars, req, cancels, envVars, heeded>>

\* The database half of _job_cancel_is_requested.
CancelIsRequestedInRow(j) == row[j].cancelReq \/ row[j].status = "cancel_requested"

\* Slip: the row is trusted to keep the request until the next check.
CancelIsRequestedFast_FromRow(j) == CancelIsRequestedInRow(j)

\* _job_cancel_is_requested_fast
CancelIsRequestedFast(j) == j \in cancelRequested

\* _job_cancel_is_requested before the run: memory first, then the row.
run_check_fast(j) ==
    Step(j, "check_fast", IF CancelIsRequestedFast(j) THEN "mark_canceled" ELSE "check_db")

run_check_db(j) ==
    Step(j, "check_db", IF CancelIsRequestedInRow(j) THEN "mark_canceled" ELSE "mark_running")

run_mark_running(j) == Write(j, "mark_running", "running", "build")

\* The worker's transaction opens; insert_run adds a run row that only this
\* transaction sees.
run_begin(j) ==
    /\ worker[j] = "build"
    /\ txRun' = [txRun EXCEPT ![j] = "running"]
    /\ GoTo(j, "bar")
    /\ UNCHANGED <<dbVars, bar, memoryVars, req, cancels, envVars, heeded>>

\* Slip: one iteration too many.
MoreBars_OffByOne(j) == bar[j] <= NBars

MoreBars(j) == bar[j] < NBars

\* run_bars evaluates the next bar time and calls progress_callback.
run_bar(j) ==
    /\ worker[j] = "bar"
    /\ MoreBars(j)
    /\ bar' = [bar EXCEPT ![j] = @ + 1]
    /\ GoTo(j, "cb_fast")
    /\ UNCHANGED <<dbVars, txRun, memoryVars, req, cancels, envVars, heeded>>

\* _report_progress: the in-memory check of every bar.  Bars are loaded with
\* bar_time < end_time, so the 0.75 s throttle can skip the rest for any bar.
report_progress_fast(j) ==
    \/ /\ CancelIsRequestedFast(j)
       /\ Step(j, "cb_fast", "finalize_canceled")
    \/ /\ ~CancelIsRequestedFast(j)
       /\ \/ Step(j, "cb_fast", "bar")
          \/ Step(j, "cb_fast", "cb_fast_again")

report_progress_fast_again(j) ==
    Step(j, "cb_fast_again", IF CancelIsRequestedFast(j) THEN "finalize_canceled" ELSE "cb_db")

report_progress_db(j) ==
    Step(j, "cb_db", IF CancelIsRequestedInRow(j) THEN "finalize_canceled" ELSE "cb_write")

report_progress_write(j) == Write(j, "cb_write", "running", "bar")

run_exhausted(j) ==
    /\ bar[j] = NBars
    /\ Step(j, "bar", "finalize")

\* Slip: the run is committed first, the job row in a second transaction.
run_complete_CommitFirst(j) ==
    /\ worker[j] = "finalize"
    /\ run' = [run EXCEPT ![j] = "finished"]
    /\ IF run[j] = "finished"
         THEN row' = [row EXCEPT ![j] = BuiltRow("completed")] /\ GoTo(j, "pop")
         ELSE UNCHANGED <<row, worker>>
    /\ UNCHANGED <<txRun, bar, memoryVars, req, cancels, envVars, heeded>>

\* Slip: the job row is committed first, the run in a second transaction.
run_complete_ReportFirst(j) ==
    /\ worker[j] = "finalize"
    /\ row' = [row EXCEPT ![j] = BuiltRow("completed")]
    /\ IF row[j].status = "completed"
         THEN run' = [run EXCEPT ![j] = "finished"] /\ GoTo(j, "pop")
         ELSE UNCHANGED <<run, worker>>
    /\ UNCHANGED <<txRun, bar, memoryVars, req, cancels, envVars, heeded>>

\* finalize_run("finished"), upsert_summary and finish_job("completed") in the
\* worker's transaction, and its commit.
run_complete(j) ==
    /\ worker[j] = "finalize"
    /\ txRun' = [txRun EXCEPT ![j] = "none"]
    /\ run' = [run EXCEPT ![j] = "finished"]
    /\ row' = [row EXCEPT ![j] = BuiltRow("completed")]
    /\ GoTo(j, "pop")
    /\ UNCHANGED <<bar, memoryVars, req, cancels, envVars, heeded>>

\* Slip: the cancellation is swallowed, and the caller completes the job.
run_finalize_canceled_Swallowed(j) == Step(j, "finalize_canceled", "finalize")

\* load_run_and_persist catches the cancellation, finalizes the run row as
\* canceled and raises again ...
run_finalize_canceled(j) ==
    /\ worker[j] = "finalize_canceled"
    /\ txRun' = [txRun EXCEPT ![j] = "canceled"]
    /\ GoTo(j, "rollback_canceled")
    /\ UNCHANGED <<dbVars, bar, memoryVars, req, cancels, envVars, heeded>>

\* ... through transaction_scope, which rolls the transaction back.
run_rollback(j) ==
    /\ worker[j] \in {"rollback_canceled", "rollback_failed"}
    /\ txRun' = [txRun EXCEPT ![j] = "none"]
    /\ GoTo(j, IF worker[j] = "rollback_canceled" THEN "mark_canceled" ELSE "mark_failed")
    /\ UNCHANGED <<dbVars, bar, memoryVars, req, cancels, envVars, heeded>>

\* Any other exception: a database error in a transaction of its own, or an
\* error of the strategy, the loaders or the database during the run.
run_raises(j) ==
    \/ \E from \in BeforeRunPcs \ {"check_fast"} : Step(j, from, "mark_failed")
    \/ \E from \in {"bar", "cb_db", "cb_write", "finalize", "finalize_canceled"} :
          Step(j, from, "rollback_failed")

run_mark_canceled(j) == Write(j, "mark_canceled", "canceled", "pop")
run_mark_failed(j) == Write(j, "mark_failed", "failed", "pop")

\* The write of the final status fails; the finally block still runs.
run_mark_raises(j) ==
    \/ Step(j, "mark_canceled", "pop")
    \/ Step(j, "mark_failed", "pop")

\* The finally block: two locks, two steps.
run_pop(j) ==
    /\ worker[j] = "pop"
    /\ active' = active \ {j}
    /\ GoTo(j, "discard")
    /\ UNCHANGED <<dbVars, txRun, bar, cancelRequested, req, cancels, envVars, heeded>>

run_discard(j) ==
    /\ worker[j] = "discard"
    /\ cancelRequested' = cancelRequested \ {j}
    /\ GoTo(j, "done")
    /\ UNCHANGED <<dbVars, txRun, bar, active, req, cancels, envVars, heeded>>

-----------------------------------------------------------------------------
(* API requests.  Each runs in a thread of the server's pool: a SELECT, a  *)
(* decision on what it returned, an UPDATE by key.                         *)

\* A step of request thread c that touches only its own state.
Reply(c, r) ==
    /\ up
    /\ req' = [req EXCEPT ![c] = r]
    /\ UNCHANGED <<dbVars, workerVars, memoryVars, envVars, heeded>>

get_backtest_run_job_select(c, j) ==
    /\ req[c].pc = "idle"
    /\ row[j].status # "absent"
    /\ Reply(c, [pc |-> "get_check", job |-> j, snap |-> row[j]])
    /\ UNCHANGED cancels

\* thread.is_alive() of the registered thread: not before start(), not after
\* its target has returned.
WorkerIsAlive(j) == j \in active /\ worker[j] \in ThreadPcs

\* Slip: a job with a pending cancel is not considered.
ShouldBeMarkedStale_QueuedOrRunning(j, snap) ==
    /\ snap.status \in {"queued", "running"}
    /\ ~WorkerIsAlive(j)
    /\ ~snap.fresh

\* _job_should_be_marked_stale
ShouldBeMarkedStale(j, snap) ==
    /\ snap.status \in ActiveStatuses
    /\ ~WorkerIsAlive(j)
    /\ ~snap.fresh

get_backtest_run_job_check(c) ==
    /\ req[c].pc = "get_check"
    /\ Reply(c, IF ShouldBeMarkedStale(req[c].job, req[c].snap)
                THEN [req[c] EXCEPT !.pc = "get_update"]
                ELSE Idle)
    /\ UNCHANGED cancels

get_backtest_run_job_update(c) ==
    /\ up
    /\ req[c].pc = "get_update"
    /\ row' = [row EXCEPT ![req[c].job] = StaleRow(req[c].snap)]
    /\ req' = [req EXCEPT ![c] = Idle]
    /\ UNCHANGED <<run, workerVars, memoryVars, cancels, envVars, heeded>>

\* A terminal job, or an unknown one, is answered without a write.
cancel_backtest_run_job_select(c, j) ==
    /\ req[c].pc = "idle"
    /\ cancels < MaxCancels
    /\ cancels' = cancels + 1
    /\ row[j].status \in ActiveStatuses
    /\ Reply(c, [pc |-> "cancel_update", job |-> j, snap |-> row[j]])

cancel_backtest_run_job_update(c) ==
    /\ up
    /\ req[c].pc = "cancel_update"
    /\ row' = [row EXCEPT ![req[c].job] = CancelRow(req[c].snap)]
    /\ req' = [req EXCEPT ![c].pc = "cancel_flag"]
    /\ UNCHANGED <<run, workerVars, memoryVars, cancels, envVars, heeded>>

\* The worker has an in-memory check of its cancel flag still ahead of it.
CheckAhead(j) ==
    \/ worker[j] \in {"inserted", "registered", "check_fast", "cb_fast", "cb_fast_again"}
    \/ /\ worker[j] \in {"check_db", "mark_running", "build", "bar", "cb_db", "cb_write"}
       /\ bar[j] < NBars

cancel_backtest_run_job_flag(c) ==
    /\ up
    /\ req[c].pc = "cancel_flag"
    /\ LET j == req[c].job IN
         /\ cancelRequested' = cancelRequested \union {j}
         /\ heeded' = IF CheckAhead(j) THEN heeded \union {j} ELSE heeded
    /\ req' = [req EXCEPT ![c] = Idle]
    /\ UNCHANGED <<dbVars, workerVars, active, cancels, envVars>>

\* A database error: transaction_scope rolls back and the request fails.
request_fails(c) ==
    /\ req[c].pc \in {"get_update", "cancel_update"}
    /\ Reply(c, Idle)
    /\ UNCHANGED cancels

-----------------------------------------------------------------------------
(* Time and the server process *)

Older(q) == [q EXCEPT !.snap.fresh = FALSE]

\* STALE_JOB_THRESHOLD passes since the row's heartbeat_at.  A snapshot is
\* never younger than the row it was read from, so it ages too.
HeartbeatAges(j) ==
    /\ row[j].fresh
    /\ row' = [row EXCEPT ![j].fresh = FALSE]
    /\ req' = [c \in Clients |-> IF req[c].job = j THEN Older(req[c]) ELSE req[c]]
    /\ UNCHANGED <<run, workerVars, memoryVars, cancels, envVars, heeded>>

\* ... or since the heartbeat_at of a snapshot the row has since left behind.
SnapshotAges(c) ==
    /\ req[c].snap.fresh
    /\ Reply(c, Older(req[c]))
    /\ UNCHANGED cancels

\* The process dies: daemon threads and memory go, open transactions are
\* rolled back by the database, committed rows stay.
Crash ==
    /\ up
    /\ crashes < MaxCrashes
    /\ crashes' = crashes + 1
    /\ up' = FALSE
    /\ worker' = [j \in Jobs |-> IF worker[j] \in {"unborn", "done"} THEN worker[j] ELSE "dead"]
    /\ txRun' = [j \in Jobs |-> "none"]
    /\ active' = {}
    /\ cancelRequested' = {}
    /\ req' = [c \in Clients |-> Idle]
    /\ UNCHANGED <<dbVars, bar, cancels, heeded>>

Restart ==
    /\ ~up
    /\ up' = TRUE
    /\ UNCHANGED <<dbVars, workerVars, memoryVars, req, cancels, crashes, heeded>>

-----------------------------------------------------------------------------
(* Specification *)

Start(j) ==
    \/ start_backtest_run_job_insert(j)
    \/ start_backtest_run_job_register(j)
    \/ start_backtest_run_job_start(j)

\* What the worker thread does when nothing goes wrong.
WorkerStep(j) ==
    \/ run_check_fast(j)
    \/ run_check_db(j)
    \/ run_mark_running(j)
    \/ run_begin(j)
    \/ run_bar(j)
    \/ report_progress_fast(j)
    \/ report_progress_fast_again(j)
    \/ report_progress_db(j)
    \/ report_progress_write(j)
    \/ run_exhausted(j)
    \/ run_complete(j)
    \/ run_finalize_canceled(j)
    \/ run_rollback(j)
    \/ run_mark_canceled(j)
    \/ run_mark_failed(j)
    \/ run_pop(j)
    \/ run_discard(j)

WorkerError(j) == run_raises(j) \/ run_mark_raises(j)

\* The rest of a request that has been accepted.
RequestStep(c) ==
    \/ get_backtest_run_job_check(c)
    \/ get_backtest_run_job_update(c)
    \/ cancel_backtest_run_job_update(c)
    \/ cancel_backtest_run_job_flag(c)

Next ==
    \/ \E j \in Jobs : Start(j) \/ WorkerStep(j) \/ WorkerError(j) \/ HeartbeatAges(j)
    \/ \E c \in Clients : RequestStep(c) \/ request_fails(c) \/ SnapshotAges(c)
    \/ \E c \in Clients, j \in Jobs :
          get_backtest_run_job_select(c, j) \/ cancel_backtest_run_job_select(c, j)
    \/ Crash
    \/ Restart

Spec == Init /\ [][Next]_vars

\* Threads are scheduled, accepted requests are served, time passes and a dead
\* server is restarted.  The monitoring console polls a job it launched every
\* second, so some poll of each job keeps getting a thread (strong, because
\* the threads are shared), and the database does not refuse the write of every
\* one of those polls (strong again).  Nothing obliges a user to cancel, the
\* worker to fail or the process to die.
Fairness ==
    /\ \A j \in Jobs : WF_vars(start_backtest_run_job_register(j) \/ start_backtest_run_job_start(j))
    /\ \A j \in Jobs : WF_vars(WorkerStep(j))
    /\ \A j \in Jobs : WF_vars(HeartbeatAges(j))
    /\ \A c \in Clients : WF_vars(RequestStep(c))
    /\ \A j \in Jobs : SF_vars(\E c \in Clients : get_backtest_run_job_select(c, j))
    /\ \A j \in Jobs : SF_vars(\E c \in Clients :
                                req[c].job = j /\ get_backtest_run_job_update(c))
    /\ WF_vars(Restart)

FairSpec == Spec /\ Fairness

-----------------------------------------------------------------------------
(* Properties *)

\* A job row that names a run, or says completed, is about a run that is
\* committed and finished: the worker writes both in one transaction, and no
\* request that read the row earlier can put a run_id where there is no run.
RunIdTruthful ==
    \A j \in Jobs : row[j].runId \/ row[j].status = "completed" => run[j] = "finished"

\* A job reported failed or canceled leaves no finished run behind, whatever
\* the requests, the crash and the failed writes around it did to the row.
FailureLeavesNoRun ==
    \A j \in Jobs : row[j].status \in {"failed", "canceled"} => run[j] # "finished"

\* A cancel request that reached _CANCEL_REQUESTED_JOB_IDS while the worker
\* still had a check ahead is never lost: the worker's own progress writes
\* erase the request from the row, and still the run is not committed.
HeededCancelNeverCommits ==
    \A j \in heeded : run[j] # "finished"

\* Where a worker still means to produce a run.
OpenPcs == StartPcs \union BeforeRunPcs \union LoopPcs \union {"finalize"}

\* What became of a job, as its callers may count on it.
OutcomeOf(j) ==
    IF run[j] = "finished" THEN "persisted"
    ELSE IF worker[j] = "unborn" THEN "none"
    ELSE IF worker[j] \in OpenPcs THEN "open"
    ELSE "abandoned"

Contract == INSTANCE BacktestJobContract WITH
    outcome <- [j \in Jobs |-> OutcomeOf(j)],
    report <- [j \in Jobs |-> row[j].status]

\* The service implements BacktestJobContract: it settles each job once, and
\* every status it publishes is one the contract allows at that moment.
KeepsContract == Contract!Spec

\* Every accepted job is eventually reported in a terminal status for good,
\* through failures, a crash, and cancels that overwrite a terminal row:
\* get_backtest_run_job turns what no worker will settle into stale.
EventuallySettled ==
    \A j \in Jobs :
        row[j].status # "absent" ~> [](row[j].status \in TerminalStatuses)

\* docs/agent-memory/DECISION_LOG.md: stale is for orphaned jobs, ones that
\* remained queued or running with no worker.  So a stale job has no run.
StaleMeansOrphan ==
    \A j \in Jobs : row[j].status = "stale" => run[j] # "finished"

\* docs/job-orchestration-spec.md: canceled jobs must persist cancellation
\* metadata.  A canceled job that a caller canceled says who asked.
CanceledKeepsRequest ==
    \A j \in Jobs : row[j].status = "canceled" => row[j].cancelBy

\* docs/agent-memory/DECISION_LOG.md: if persistence had already begun, the
\* run row finalizes as canceled.
CanceledRunIsFinalized ==
    \A j \in Jobs : row[j].status = "canceled" /\ bar[j] > 0 => run[j] = "canceled"

=============================================================================
