---------------------- MODULE BacktestJobControlProofs ----------------------
(***************************************************************************)
(* Proofs about the asynchronous backtest job service, for any set of jobs *)
(* and request threads, any number of bars, cancels and crashes.           *)
(***************************************************************************)
EXTENDS BacktestJobControl, TLAPS

\* Where a worker has given up its run, or has nothing left to do with it.
SettlingPcs == {"pop", "discard", "done", "dead"}
QuitPcs == SettlingPcs \union
    {"finalize_canceled", "rollback_canceled", "rollback_failed", "mark_canceled", "mark_failed"}

\* A run is committed by the last step before the finally block.
CommittedIsLate == \A j \in Jobs : run[j] = "finished" => worker[j] \in SettlingPcs

\* Only a completed row names a run, and so does every snapshot of one.
RunIdMeansCompleted ==
    /\ \A j \in Jobs : row[j].runId => row[j].status = "completed"
    /\ \A c \in Clients : req[c].snap.runId => req[c].snap.status = "completed"

\* A request about to write read an active row of a job that exists.
WritersReadActive ==
    \A c \in Clients : req[c].pc \in {"get_update", "cancel_update"}
                          => req[c].snap.status \in ActiveStatuses

\* A row, and a request about it, exist only once the job was accepted.
AcceptedOnly ==
    /\ \A j \in Jobs : row[j].status # "absent" => worker[j] # "unborn"
    /\ \A c \in Clients : req[c].pc # "idle" => worker[req[c].job] # "unborn"
    /\ \A c \in Clients : req[c].pc = "idle" => req[c] = Idle

\* A heeded cancel is still flagged in front of a check, or was obeyed.
HeededIsPending ==
    \A j \in heeded :
        /\ run[j] # "finished"
        /\ worker[j] \in QuitPcs \/ (j \in cancelRequested /\ CheckAhead(j))

IInv ==
    /\ TypeOK
    /\ CommittedIsLate
    /\ RunIdMeansCompleted
    /\ WritersReadActive
    /\ AcceptedOnly
    /\ HeededIsPending
    /\ RunIdTruthful
    /\ FailureLeavesNoRun

-----------------------------------------------------------------------------
(* Types *)

LEMMA RowShapes ==
    /\ NoRow \in JobRow
    /\ \A status \in Statuses : BuiltRow(status) \in JobRow
    /\ \A r \in JobRow : CancelRow(r) \in JobRow /\ StaleRow(r) \in JobRow
    /\ Idle \in Request
BY DEF NoRow, BuiltRow, CancelRow, StaleRow, JobRow, Statuses, ActiveStatuses,
       TerminalStatuses, Idle, Request, RequestPcs

\* Time changes nothing in a request but the age of its snapshot.
LEMMA OlderShapes ==
    ASSUME NEW q \in Request
    PROVE  /\ Older(q) \in Request
           /\ Older(q).pc = q.pc
           /\ Older(q).job = q.job
           /\ Older(q).snap.status = q.snap.status
           /\ Older(q).snap.runId = q.snap.runId
           /\ ~Older(q).snap.fresh
BY DEF Older, Request, JobRow

\* What the two row writes of a request keep of the snapshot they start from.
LEMMA RequestWrites ==
    ASSUME NEW r \in JobRow
    PROVE  /\ StaleRow(r) \in JobRow /\ StaleRow(r).status = "stale" /\ StaleRow(r).runId = r.runId
           /\ CancelRow(r) \in JobRow /\ CancelRow(r).status = "cancel_requested"
           /\ CancelRow(r).runId = r.runId
BY DEF StaleRow, CancelRow, JobRow, Statuses, ActiveStatuses, TerminalStatuses

LEMMA PcShapes ==
    /\ StartPcs \subseteq WorkerPcs
    /\ ThreadPcs \subseteq WorkerPcs
    /\ QuitPcs \subseteq WorkerPcs
BY DEF StartPcs, BeforeRunPcs, LoopPcs, CleanupPcs, ThreadPcs, WorkerPcs, QuitPcs, SettlingPcs

LEMMA TypeInit == Init => TypeOK
BY RowShapes, NBarsAssumption DEF Init, TypeOK, RunStates, WorkerPcs, Idle

LEMMA TypeStep == TypeOK /\ [Next]_vars => TypeOK'
<1> SUFFICES ASSUME TypeOK, [Next]_vars PROVE TypeOK'
  OBVIOUS
<1> USE RowShapes DEF TypeOK, RunStates, WorkerPcs, StartPcs, ThreadPcs, BeforeRunPcs, LoopPcs,
        CleanupPcs, dbVars, workerVars, memoryVars, envVars
<1>1. ASSUME NEW j \in Jobs, start_backtest_run_job_insert(j) PROVE TypeOK'
  BY <1>1 DEF start_backtest_run_job_insert, GoTo, Statuses, ActiveStatuses, TerminalStatuses
<1>2. ASSUME NEW j \in Jobs, start_backtest_run_job_register(j) PROVE TypeOK'
  BY <1>2 DEF start_backtest_run_job_register, GoTo
<1>3. ASSUME NEW j \in Jobs, start_backtest_run_job_start(j) PROVE TypeOK'
  BY <1>3 DEF start_backtest_run_job_start, GoTo
<1>4. ASSUME NEW j \in Jobs, run_check_fast(j) PROVE TypeOK'
  BY <1>4 DEF run_check_fast, Step, GoTo
<1>5. ASSUME NEW j \in Jobs, run_check_db(j) PROVE TypeOK'
  BY <1>5 DEF run_check_db, Step, GoTo
<1>6. ASSUME NEW j \in Jobs, run_mark_running(j) PROVE TypeOK'
  BY <1>6 DEF run_mark_running, Write, GoTo, Statuses, ActiveStatuses, TerminalStatuses
<1>7. ASSUME NEW j \in Jobs, run_begin(j) PROVE TypeOK'
  BY <1>7 DEF run_begin, GoTo
<1>8. ASSUME NEW j \in Jobs, run_bar(j) PROVE TypeOK'
  BY <1>8, NBarsAssumption DEF run_bar, MoreBars, GoTo
<1>9. ASSUME NEW j \in Jobs, report_progress_fast(j) PROVE TypeOK'
  BY <1>9 DEF report_progress_fast, Step, GoTo
<1>10. ASSUME NEW j \in Jobs, report_progress_fast_again(j) PROVE TypeOK'
  BY <1>10 DEF report_progress_fast_again, Step, GoTo
<1>11. ASSUME NEW j \in Jobs, report_progress_db(j) PROVE TypeOK'
  BY <1>11 DEF report_progress_db, Step, GoTo
<1>12. ASSUME NEW j \in Jobs, report_progress_write(j) PROVE TypeOK'
  BY <1>12 DEF report_progress_write, Write, GoTo, Statuses, ActiveStatuses, TerminalStatuses
<1>13. ASSUME NEW j \in Jobs, run_exhausted(j) PROVE TypeOK'
  BY <1>13 DEF run_exhausted, Step, GoTo
<1>14. ASSUME NEW j \in Jobs, run_complete(j) PROVE TypeOK'
  BY <1>14 DEF run_complete, GoTo, Statuses, ActiveStatuses, TerminalStatuses
<1>15. ASSUME NEW j \in Jobs, run_finalize_canceled(j) PROVE TypeOK'
  BY <1>15 DEF run_finalize_canceled, GoTo
<1>16. ASSUME NEW j \in Jobs, run_rollback(j) PROVE TypeOK'
  BY <1>16 DEF run_rollback, GoTo
<1>17. ASSUME NEW j \in Jobs, run_mark_canceled(j) PROVE TypeOK'
  BY <1>17 DEF run_mark_canceled, Write, GoTo, Statuses, ActiveStatuses, TerminalStatuses
<1>18. ASSUME NEW j \in Jobs, run_mark_failed(j) PROVE TypeOK'
  BY <1>18 DEF run_mark_failed, Write, GoTo, Statuses, ActiveStatuses, TerminalStatuses
<1>19. ASSUME NEW j \in Jobs, run_pop(j) PROVE TypeOK'
  BY <1>19 DEF run_pop, GoTo
<1>20. ASSUME NEW j \in Jobs, run_discard(j) PROVE TypeOK'
  BY <1>20 DEF run_discard, GoTo
<1>21. ASSUME NEW j \in Jobs, run_raises(j) PROVE TypeOK'
  BY <1>21 DEF run_raises, Step, GoTo
<1>22. ASSUME NEW j \in Jobs, run_mark_raises(j) PROVE TypeOK'
  BY <1>22 DEF run_mark_raises, Step, GoTo
<1>23. ASSUME NEW j \in Jobs, HeartbeatAges(j) PROVE TypeOK'
  <2> DEFINE r == [row[j] EXCEPT !.fresh = FALSE]
  <2>0. r \in JobRow
    BY DEF JobRow
  <2>1. row' \in [Jobs -> JobRow]
    <3>1. row' = [row EXCEPT ![j] = r]
      BY <1>23 DEF HeartbeatAges
    <3> HIDE DEF r
    <3>2. QED
      BY <2>0, <3>1
  <2>2. req' \in [Clients -> Request] /\ \A c \in Clients : req'[c].pc = req[c].pc /\ req'[c].job = req[c].job
    BY <1>23, OlderShapes DEF HeartbeatAges
  <2>3. QED
    BY <1>23, <2>1, <2>2 DEF HeartbeatAges
<1>24. ASSUME NEW c \in Clients, get_backtest_run_job_check(c) PROVE TypeOK'
  BY <1>24 DEF get_backtest_run_job_check, Reply, Request, RequestPcs, Idle
<1>25. ASSUME NEW c \in Clients, get_backtest_run_job_update(c) PROVE TypeOK'
  BY <1>25 DEF get_backtest_run_job_update, Request, Idle
<1>26. ASSUME NEW c \in Clients, cancel_backtest_run_job_update(c) PROVE TypeOK'
  BY <1>26 DEF cancel_backtest_run_job_update, Request, RequestPcs
<1>27. ASSUME NEW c \in Clients, cancel_backtest_run_job_flag(c) PROVE TypeOK'
  BY <1>27 DEF cancel_backtest_run_job_flag, Request, Idle
<1>28. ASSUME NEW c \in Clients, request_fails(c) PROVE TypeOK'
  BY <1>28 DEF request_fails, Reply, Idle
<1>29. ASSUME NEW c \in Clients, SnapshotAges(c) PROVE TypeOK'
  BY <1>29, OlderShapes DEF SnapshotAges, Reply
<1>30. ASSUME NEW c \in Clients, NEW j \in Jobs, get_backtest_run_job_select(c, j) PROVE TypeOK'
  BY <1>30 DEF get_backtest_run_job_select, Reply, Request, RequestPcs
<1>31. ASSUME NEW c \in Clients, NEW j \in Jobs, cancel_backtest_run_job_select(c, j) PROVE TypeOK'
  BY <1>31 DEF cancel_backtest_run_job_select, Reply, Request, RequestPcs
<1>32. CASE Crash
  <2>1. worker' \in [Jobs -> WorkerPcs]
    BY <1>32 DEF Crash
  <2>2. req' \in [Clients -> Request] /\ \A c \in Clients : req'[c].pc = "idle"
    BY <1>32 DEF Crash, Idle
  <2>3. txRun' \in [Jobs -> RunStates] /\ active' \in SUBSET Jobs /\ cancelRequested' \in SUBSET Jobs
    BY <1>32 DEF Crash
  <2>4. crashes' = crashes + 1 /\ up' = FALSE /\ UNCHANGED <<row, run, bar, cancels, heeded>>
    BY <1>32, Zenon DEF Crash
  <2>5. crashes' \in Nat
    BY <2>4
  <2>6. QED
    BY <2>1, <2>2, <2>3, <2>4, <2>5
<1>33. CASE Restart
  BY <1>33 DEF Restart
<1>34. CASE UNCHANGED vars
  BY <1>34 DEF vars
<1>35. QED
  BY <1>1, <1>2, <1>3, <1>4, <1>5, <1>6, <1>7, <1>8, <1>9, <1>10, <1>11, <1>12, <1>13, <1>14, <1>15, <1>16, <1>17, <1>18, <1>19, <1>20, <1>21, <1>22, <1>23, <1>24, <1>25, <1>26, <1>27, <1>28, <1>29, <1>30, <1>31, <1>32, <1>33, <1>34 DEF Next, Start, WorkerStep, WorkerError, RequestStep

-----------------------------------------------------------------------------
(* Safety *)

LEMMA SafetyStep == IInv /\ TypeOK' /\ [Next]_vars => IInv'
<1> SUFFICES ASSUME IInv, TypeOK', [Next]_vars PROVE IInv'
  OBVIOUS
<1> USE DEF IInv, CommittedIsLate, RunIdMeansCompleted, WritersReadActive, AcceptedOnly,
        HeededIsPending, RunIdTruthful, FailureLeavesNoRun, SettlingPcs, QuitPcs, CheckAhead,
        dbVars, workerVars, memoryVars, envVars
<1>t. TypeOK
  OBVIOUS
<1>1. ASSUME NEW j \in Jobs, start_backtest_run_job_insert(j) PROVE IInv'
  BY <1>t, <1>1 DEF TypeOK, start_backtest_run_job_insert, GoTo, BuiltRow
<1>2. ASSUME NEW j \in Jobs, start_backtest_run_job_register(j) PROVE IInv'
  BY <1>t, <1>2 DEF TypeOK, start_backtest_run_job_register, GoTo
<1>3. ASSUME NEW j \in Jobs, start_backtest_run_job_start(j) PROVE IInv'
  BY <1>t, <1>3 DEF TypeOK, start_backtest_run_job_start, GoTo
<1>4. ASSUME NEW j \in Jobs, run_check_fast(j) PROVE IInv'
  BY <1>t, <1>4 DEF TypeOK, run_check_fast, Step, GoTo, CancelIsRequestedFast, BeforeRunPcs
<1>5. ASSUME NEW j \in Jobs, run_check_db(j) PROVE IInv'
  BY <1>t, <1>5 DEF TypeOK, run_check_db, Step, GoTo, CancelIsRequestedFast, BeforeRunPcs
<1>6. ASSUME NEW j \in Jobs, run_mark_running(j) PROVE IInv'
  BY <1>t, <1>6 DEF TypeOK, run_mark_running, Write, GoTo, BuiltRow
<1>7. ASSUME NEW j \in Jobs, run_begin(j) PROVE IInv'
  BY <1>t, <1>7 DEF TypeOK, run_begin, GoTo
<1>8. ASSUME NEW j \in Jobs, run_bar(j) PROVE IInv'
  BY <1>t, <1>8 DEF TypeOK, run_bar, MoreBars, GoTo
<1>9. ASSUME NEW j \in Jobs, report_progress_fast(j) PROVE IInv'
  BY <1>t, <1>9 DEF TypeOK, report_progress_fast, Step, GoTo, CancelIsRequestedFast, BeforeRunPcs
<1>10. ASSUME NEW j \in Jobs, report_progress_fast_again(j) PROVE IInv'
  BY <1>t, <1>10 DEF TypeOK, report_progress_fast_again, Step, GoTo, CancelIsRequestedFast, BeforeRunPcs
<1>11. ASSUME NEW j \in Jobs, report_progress_db(j) PROVE IInv'
  BY <1>t, <1>11 DEF TypeOK, report_progress_db, Step, GoTo, CancelIsRequestedFast, BeforeRunPcs
<1>12. ASSUME NEW j \in Jobs, report_progress_write(j) PROVE IInv'
  BY <1>t, <1>12 DEF TypeOK, report_progress_write, Write, GoTo, BuiltRow
<1>13. ASSUME NEW j \in Jobs, run_exhausted(j) PROVE IInv'
  BY <1>t, <1>13 DEF TypeOK, run_exhausted, Step, GoTo, CancelIsRequestedFast, BeforeRunPcs
<1>14. ASSUME NEW j \in Jobs, run_complete(j) PROVE IInv'
  BY <1>t, <1>14 DEF TypeOK, run_complete, GoTo, BuiltRow
<1>15. ASSUME NEW j \in Jobs, run_finalize_canceled(j) PROVE IInv'
  BY <1>t, <1>15 DEF TypeOK, run_finalize_canceled, GoTo
<1>16. ASSUME NEW j \in Jobs, run_rollback(j) PROVE IInv'
  BY <1>t, <1>16 DEF TypeOK, run_rollback, GoTo
<1>17. ASSUME NEW j \in Jobs, run_mark_canceled(j) PROVE IInv'
  BY <1>t, <1>17 DEF TypeOK, run_mark_canceled, Write, GoTo, BuiltRow
<1>18. ASSUME NEW j \in Jobs, run_mark_failed(j) PROVE IInv'
  BY <1>t, <1>18 DEF TypeOK, run_mark_failed, Write, GoTo, BuiltRow
<1>19. ASSUME NEW j \in Jobs, run_pop(j) PROVE IInv'
  BY <1>t, <1>19 DEF TypeOK, run_pop, GoTo
<1>20. ASSUME NEW j \in Jobs, run_discard(j) PROVE IInv'
  BY <1>t, <1>20 DEF TypeOK, run_discard, GoTo
<1>21. ASSUME NEW j \in Jobs, run_raises(j) PROVE IInv'
  BY <1>t, <1>21 DEF TypeOK, run_raises, Step, GoTo, CancelIsRequestedFast, BeforeRunPcs
<1>22. ASSUME NEW j \in Jobs, run_mark_raises(j) PROVE IInv'
  BY <1>t, <1>22 DEF TypeOK, run_mark_raises, Step, GoTo, CancelIsRequestedFast, BeforeRunPcs
<1>23. ASSUME NEW j \in Jobs, HeartbeatAges(j) PROVE IInv'
  <2>1. \A i \in Jobs : row'[i].status = row[i].status /\ row'[i].runId = row[i].runId
    BY <1>t, <1>23 DEF TypeOK, HeartbeatAges, JobRow
  <2>2. ASSUME NEW c \in Clients
        PROVE  /\ req'[c].pc = req[c].pc /\ req'[c].job = req[c].job
               /\ req'[c].snap.status = req[c].snap.status
               /\ req'[c].snap.runId = req[c].snap.runId
               /\ req[c].pc = "idle" => req'[c] = Idle
    BY <1>t, <1>23, OlderShapes, NoJobAssumption DEF TypeOK, HeartbeatAges, Idle
  <2>3. UNCHANGED <<run, txRun, worker, bar, active, cancelRequested, heeded>>
    BY <1>23 DEF HeartbeatAges
  <2>4. QED
    BY <2>1, <2>2, <2>3
<1>24. ASSUME NEW c \in Clients, get_backtest_run_job_check(c) PROVE IInv'
  <2>1. \/ req'[c] = Idle
        \/ /\ req'[c].pc = "get_update" /\ req'[c].snap = req[c].snap /\ req'[c].job = req[c].job
           /\ req[c].snap.status \in ActiveStatuses
    BY <1>t, <1>24 DEF TypeOK, get_backtest_run_job_check, Reply, ShouldBeMarkedStale, Request
  <2>2. \A d \in Clients \ {c} : req'[d] = req[d]
    BY <1>t, <1>24 DEF TypeOK, get_backtest_run_job_check, Reply
  <2>3. UNCHANGED <<row, run, txRun, worker, bar, active, cancelRequested, heeded>>
    BY <1>24 DEF get_backtest_run_job_check, Reply
  <2>4. req[c].pc = "get_check"
    BY <1>24 DEF get_backtest_run_job_check
  <2>5. RunIdMeansCompleted' /\ WritersReadActive'
    <3>1. Idle.pc = "idle" /\ ~Idle.snap.runId
      BY DEF Idle, NoRow
    <3>2. QED
      BY <2>1, <2>2, <2>3, <2>4, <3>1
  <2>6. AcceptedOnly'
    <3>1. Idle.pc = "idle"
      BY DEF Idle
    <3>2. QED
      BY <2>1, <2>2, <2>3, <2>4, <3>1
  <2>7. QED
    BY <2>3, <2>5, <2>6
<1>25. ASSUME NEW c \in Clients, get_backtest_run_job_update(c) PROVE IInv'
  <2>1. req[c].snap \in JobRow /\ req[c].job \in Jobs
    BY <1>t, <1>25 DEF TypeOK, get_backtest_run_job_update, Request
  <2>2. ~req[c].snap.runId /\ worker[req[c].job] # "unborn"
    BY <1>25, <2>1 DEF get_backtest_run_job_update, ActiveStatuses
  <2>3. /\ row'[req[c].job].status = "stale" /\ ~row'[req[c].job].runId
        /\ \A i \in Jobs \ {req[c].job} : row'[i] = row[i]
    BY <1>t, <1>25, <2>1, <2>2, RequestWrites DEF TypeOK, get_backtest_run_job_update
  <2>4. req'[c] = Idle /\ \A d \in Clients \ {c} : req'[d] = req[d]
    BY <1>t, <1>25 DEF TypeOK, get_backtest_run_job_update
  <2>5. UNCHANGED <<run, txRun, worker, bar, active, cancelRequested, heeded>>
    BY <1>25 DEF get_backtest_run_job_update
  <2>6. Idle.pc = "idle" /\ ~Idle.snap.runId
    BY DEF Idle, NoRow
  <2>7. QED
    BY <2>1, <2>2, <2>3, <2>4, <2>5, <2>6
<1>26. ASSUME NEW c \in Clients, cancel_backtest_run_job_update(c) PROVE IInv'
  <2>1. req[c].snap \in JobRow /\ req[c].job \in Jobs
    BY <1>t, <1>26 DEF TypeOK, cancel_backtest_run_job_update, Request
  <2>2. QED
    BY <1>t, <1>26, <2>1, RequestWrites
       DEF TypeOK, cancel_backtest_run_job_update, ActiveStatuses, Request
<1>27. ASSUME NEW c \in Clients, cancel_backtest_run_job_flag(c) PROVE IInv'
  BY <1>t, <1>27 DEF TypeOK, cancel_backtest_run_job_flag, Idle, NoRow
<1>28. ASSUME NEW c \in Clients, request_fails(c) PROVE IInv'
  BY <1>t, <1>28 DEF TypeOK, request_fails, Reply, Idle, NoRow
<1>29. ASSUME NEW c \in Clients, SnapshotAges(c) PROVE IInv'
  <2>1. req[c].pc # "idle"
    BY <1>t, <1>29 DEF SnapshotAges, Idle, NoRow
  <2>2. /\ req'[c].pc = req[c].pc /\ req'[c].job = req[c].job
        /\ req'[c].snap.status = req[c].snap.status
        /\ req'[c].snap.runId = req[c].snap.runId
    BY <1>t, <1>29, OlderShapes DEF TypeOK, SnapshotAges, Reply
  <2>3. \A d \in Clients \ {c} : req'[d] = req[d]
    BY <1>t, <1>29 DEF TypeOK, SnapshotAges, Reply
  <2>4. UNCHANGED <<row, run, txRun, worker, bar, active, cancelRequested, heeded>>
    BY <1>29 DEF SnapshotAges, Reply
  <2>5. QED
    BY <2>1, <2>2, <2>3, <2>4
<1>30. ASSUME NEW c \in Clients, NEW j \in Jobs, get_backtest_run_job_select(c, j) PROVE IInv'
  BY <1>t, <1>30 DEF TypeOK, get_backtest_run_job_select, Reply, ActiveStatuses
<1>31. ASSUME NEW c \in Clients, NEW j \in Jobs, cancel_backtest_run_job_select(c, j) PROVE IInv'
  BY <1>t, <1>31 DEF TypeOK, cancel_backtest_run_job_select, Reply, ActiveStatuses
<1>32. CASE Crash
  BY <1>t, <1>32 DEF TypeOK, Crash, Idle, NoRow
<1>33. CASE Restart
  BY <1>t, <1>33 DEF Restart
<1>34. CASE UNCHANGED vars
  BY <1>t, <1>34 DEF vars
<1>35. QED
  BY <1>1, <1>2, <1>3, <1>4, <1>5, <1>6, <1>7, <1>8, <1>9, <1>10, <1>11, <1>12, <1>13, <1>14, <1>15, <1>16, <1>17, <1>18, <1>19, <1>20, <1>21, <1>22, <1>23, <1>24, <1>25, <1>26, <1>27, <1>28, <1>29, <1>30, <1>31, <1>32, <1>33, <1>34 DEF Next, Start, WorkerStep, WorkerError, RequestStep

LEMMA InvariantInit == Init => IInv
<1> SUFFICES ASSUME Init PROVE IInv
  OBVIOUS
<1>1. TypeOK
  BY TypeInit
<1>2. QED
  BY <1>1 DEF Init, IInv, CommittedIsLate, RunIdMeansCompleted, WritersReadActive, AcceptedOnly,
              HeededIsPending, RunIdTruthful, FailureLeavesNoRun, Idle, NoRow

LEMMA InvariantStep == IInv /\ [Next]_vars => IInv'
BY TypeStep, SafetyStep DEF IInv

\* Every reachable state satisfies the inductive invariant.
LEMMA InductiveInvariant == Spec => []IInv
BY InvariantInit, InvariantStep, PTL DEF Spec

\* Every variable keeps its type: in particular a worker never evaluates more
\* bars than were loaded and a request in flight always names a job.
THEOREM TypeCorrect == Spec => []TypeOK
<1>1. IInv => TypeOK
  BY DEF IInv
<1>2. QED
  BY <1>1, InductiveInvariant, PTL

\* A row that names a run or says completed is about a committed run, for any
\* number of concurrent requests writing back snapshots they read earlier.
THEOREM RunIdIsTruthful == Spec => []RunIdTruthful
<1>1. IInv => RunIdTruthful
  BY DEF IInv
<1>2. QED
  BY <1>1, InductiveInvariant, PTL

\* A job reported failed or canceled has no finished run.
THEOREM FailureIsClean == Spec => []FailureLeavesNoRun
<1>1. IInv => FailureLeavesNoRun
  BY DEF IInv
<1>2. QED
  BY <1>1, InductiveInvariant, PTL

\* A cancel flagged in front of one of the worker's checks is never lost.
THEOREM HeededCancelIsKept == Spec => []HeededCancelNeverCommits
<1>1. IInv => HeededCancelNeverCommits
  BY DEF IInv, HeededIsPending, HeededCancelNeverCommits
<1>2. QED
  BY <1>1, InductiveInvariant, PTL

-----------------------------------------------------------------------------
(* Refinement: every step of the service is a step of the contract, or     *)
(* changes nothing that the contract shows.                                *)

Settles(j, from, to) ==
    /\ OutcomeOf(j) = from
    /\ OutcomeOf(j)' = to
    /\ \A i \in Jobs \ {j} : OutcomeOf(i)' = OutcomeOf(i)

Publishes(j, status) ==
    \A i \in Jobs : row'[i].status = IF i = j THEN status ELSE row[i].status

SameOutcomes == \A i \in Jobs : OutcomeOf(i)' = OutcomeOf(i)
SameReports == \A i \in Jobs : row'[i].status = row[i].status

ContractStep == Contract!Next \/ UNCHANGED Contract!vars

LEMMA SilentStep == SameOutcomes /\ SameReports => ContractStep
BY DEF SameOutcomes, SameReports, ContractStep, Contract!vars

LEMMA AcceptStep ==
    ASSUME NEW j \in Jobs, Settles(j, "none", "open"), Publishes(j, "queued")
    PROVE  ContractStep
BY DEF Settles, Publishes, ContractStep, Contract!Next, Contract!Accept

LEMMA PersistStep ==
    ASSUME NEW j \in Jobs, Settles(j, "open", "persisted"), Publishes(j, "completed")
    PROVE  ContractStep
BY DEF Settles, Publishes, ContractStep, Contract!Next, Contract!Persist

LEMMA AbandonAllStep ==
    ASSUME NEW S \in SUBSET Jobs, S # {}, SameReports,
           \A i \in S : OutcomeOf(i) = "open",
           \A i \in Jobs : OutcomeOf(i)' = IF i \in S THEN "abandoned" ELSE OutcomeOf(i)
    PROVE  ContractStep
<1>1. Contract!Abandon(S)
  BY DEF SameReports, Contract!Abandon
<1>2. QED
  BY <1>1 DEF ContractStep, Contract!Next

LEMMA AbandonStep ==
    ASSUME NEW j \in Jobs, Settles(j, "open", "abandoned"), SameReports
    PROVE  ContractStep
<1>1. {j} \in SUBSET Jobs /\ {j} # {} /\ \A i \in {j} : OutcomeOf(i) = "open"
  BY DEF Settles
<1>2. \A i \in Jobs : OutcomeOf(i)' = IF i \in {j} THEN "abandoned" ELSE OutcomeOf(i)
  BY DEF Settles
<1>3. QED
  BY <1>1, <1>2, AbandonAllStep

LEMMA RunningStep ==
    ASSUME NEW j \in Jobs, OutcomeOf(j) = "open", SameOutcomes, Publishes(j, "running")
    PROVE  ContractStep
BY DEF SameOutcomes, Publishes, ContractStep, Contract!Next, Contract!ReportRunning, Contract!Report

LEMMA AbandonedStep ==
    ASSUME NEW j \in Jobs, OutcomeOf(j) = "abandoned", SameOutcomes,
           Publishes(j, "failed") \/ Publishes(j, "canceled")
    PROVE  ContractStep
BY DEF SameOutcomes, Publishes, ContractStep, Contract!Next, Contract!ReportAbandoned, Contract!Report

LEMMA UncertainStep ==
    ASSUME NEW j \in Jobs, OutcomeOf(j) # "none", SameOutcomes,
           Publishes(j, "cancel_requested") \/ Publishes(j, "stale")
    PROVE  ContractStep
BY DEF SameOutcomes, Publishes, ContractStep, Contract!Next, Contract!ReportUncertain, Contract!Report

LEMMA RefinementInit == Init => Contract!Init
BY DEF Init, Contract!Init, OutcomeOf, NoRow

LEMMA RefinementStep == IInv /\ [Next]_vars => ContractStep
<1> SUFFICES ASSUME IInv, [Next]_vars PROVE ContractStep
  OBVIOUS
<1>t. TypeOK /\ CommittedIsLate
  BY DEF IInv
<1> USE DEF OutcomeOf, OpenPcs, StartPcs, BeforeRunPcs, LoopPcs, SettlingPcs, CommittedIsLate,
        dbVars, workerVars, memoryVars, envVars
<1>1. ASSUME NEW j \in Jobs, start_backtest_run_job_insert(j) PROVE ContractStep
  <2>1. Settles(j, "none", "open")
    BY <1>t, <1>1 DEF TypeOK, start_backtest_run_job_insert, Settles
  <2>2. Publishes(j, "queued")
    BY <1>t, <1>1 DEF TypeOK, start_backtest_run_job_insert, Publishes, BuiltRow
  <2>3. QED
    BY <2>1, <2>2, AcceptStep
<1>2. ASSUME NEW j \in Jobs, start_backtest_run_job_register(j) PROVE ContractStep
  <2>1. SameOutcomes
    BY <1>t, <1>2 DEF TypeOK, start_backtest_run_job_register, Step, GoTo, SameOutcomes
  <2>2. SameReports
    BY <1>t, <1>2 DEF TypeOK, start_backtest_run_job_register, Step, SameReports
  <2>3. QED
    BY <2>1, <2>2, SilentStep
<1>3. ASSUME NEW j \in Jobs, start_backtest_run_job_start(j) PROVE ContractStep
  <2>1. SameOutcomes
    BY <1>t, <1>3 DEF TypeOK, start_backtest_run_job_start, Step, GoTo, SameOutcomes
  <2>2. SameReports
    BY <1>t, <1>3 DEF TypeOK, start_backtest_run_job_start, Step, SameReports
  <2>3. QED
    BY <2>1, <2>2, SilentStep
<1>4. ASSUME NEW j \in Jobs, run_check_fast(j) PROVE ContractStep
  <2>1. SameOutcomes \/ Settles(j, "open", "abandoned")
    BY <1>t, <1>4 DEF TypeOK, run_check_fast, Step, GoTo, SameOutcomes, Settles
  <2>2. SameReports
    BY <1>t, <1>4 DEF TypeOK, run_check_fast, Step, SameReports
  <2>3. QED
    BY <2>1, <2>2, SilentStep, AbandonStep
<1>5. ASSUME NEW j \in Jobs, run_check_db(j) PROVE ContractStep
  <2>1. SameOutcomes \/ Settles(j, "open", "abandoned")
    BY <1>t, <1>5 DEF TypeOK, run_check_db, Step, GoTo, SameOutcomes, Settles
  <2>2. SameReports
    BY <1>t, <1>5 DEF TypeOK, run_check_db, Step, SameReports
  <2>3. QED
    BY <2>1, <2>2, SilentStep, AbandonStep
<1>6. ASSUME NEW j \in Jobs, run_mark_running(j) PROVE ContractStep
  <2>1. OutcomeOf(j) = "open" /\ SameOutcomes
    BY <1>t, <1>6 DEF TypeOK, run_mark_running, Write, GoTo, SameOutcomes
  <2>2. Publishes(j, "running")
    BY <1>t, <1>6 DEF TypeOK, run_mark_running, Write, Publishes, BuiltRow
  <2>3. QED
    BY <2>1, <2>2, RunningStep
<1>7. ASSUME NEW j \in Jobs, run_begin(j) PROVE ContractStep
  <2>1. SameOutcomes
    BY <1>t, <1>7 DEF TypeOK, run_begin, Step, GoTo, SameOutcomes
  <2>2. SameReports
    BY <1>t, <1>7 DEF TypeOK, run_begin, Step, SameReports
  <2>3. QED
    BY <2>1, <2>2, SilentStep
<1>8. ASSUME NEW j \in Jobs, run_bar(j) PROVE ContractStep
  <2>1. SameOutcomes
    BY <1>t, <1>8 DEF TypeOK, run_bar, Step, GoTo, SameOutcomes
  <2>2. SameReports
    BY <1>t, <1>8 DEF TypeOK, run_bar, Step, SameReports
  <2>3. QED
    BY <2>1, <2>2, SilentStep
<1>9. ASSUME NEW j \in Jobs, report_progress_fast(j) PROVE ContractStep
  <2>1. SameOutcomes \/ Settles(j, "open", "abandoned")
    BY <1>t, <1>9 DEF TypeOK, report_progress_fast, Step, GoTo, SameOutcomes, Settles
  <2>2. SameReports
    BY <1>t, <1>9 DEF TypeOK, report_progress_fast, Step, SameReports
  <2>3. QED
    BY <2>1, <2>2, SilentStep, AbandonStep
<1>10. ASSUME NEW j \in Jobs, report_progress_fast_again(j) PROVE ContractStep
  <2>1. SameOutcomes \/ Settles(j, "open", "abandoned")
    BY <1>t, <1>10 DEF TypeOK, report_progress_fast_again, Step, GoTo, SameOutcomes, Settles
  <2>2. SameReports
    BY <1>t, <1>10 DEF TypeOK, report_progress_fast_again, Step, SameReports
  <2>3. QED
    BY <2>1, <2>2, SilentStep, AbandonStep
<1>11. ASSUME NEW j \in Jobs, report_progress_db(j) PROVE ContractStep
  <2>1. SameOutcomes \/ Settles(j, "open", "abandoned")
    BY <1>t, <1>11 DEF TypeOK, report_progress_db, Step, GoTo, SameOutcomes, Settles
  <2>2. SameReports
    BY <1>t, <1>11 DEF TypeOK, report_progress_db, Step, SameReports
  <2>3. QED
    BY <2>1, <2>2, SilentStep, AbandonStep
<1>12. ASSUME NEW j \in Jobs, report_progress_write(j) PROVE ContractStep
  <2>1. OutcomeOf(j) = "open" /\ SameOutcomes
    BY <1>t, <1>12 DEF TypeOK, report_progress_write, Write, GoTo, SameOutcomes
  <2>2. Publishes(j, "running")
    BY <1>t, <1>12 DEF TypeOK, report_progress_write, Write, Publishes, BuiltRow
  <2>3. QED
    BY <2>1, <2>2, RunningStep
<1>13. ASSUME NEW j \in Jobs, run_exhausted(j) PROVE ContractStep
  <2>1. SameOutcomes
    BY <1>t, <1>13 DEF TypeOK, run_exhausted, Step, GoTo, SameOutcomes
  <2>2. SameReports
    BY <1>t, <1>13 DEF TypeOK, run_exhausted, Step, SameReports
  <2>3. QED
    BY <2>1, <2>2, SilentStep
<1>14. ASSUME NEW j \in Jobs, run_complete(j) PROVE ContractStep
  <2>1. Settles(j, "open", "persisted")
    BY <1>t, <1>14 DEF TypeOK, run_complete, Settles, GoTo
  <2>2. Publishes(j, "completed")
    BY <1>t, <1>14 DEF TypeOK, run_complete, Publishes, BuiltRow
  <2>3. QED
    BY <2>1, <2>2, PersistStep
<1>15. ASSUME NEW j \in Jobs, run_finalize_canceled(j) PROVE ContractStep
  <2>1. SameOutcomes
    BY <1>t, <1>15 DEF TypeOK, run_finalize_canceled, Step, GoTo, SameOutcomes
  <2>2. SameReports
    BY <1>t, <1>15 DEF TypeOK, run_finalize_canceled, Step, SameReports
  <2>3. QED
    BY <2>1, <2>2, SilentStep
<1>16. ASSUME NEW j \in Jobs, run_rollback(j) PROVE ContractStep
  <2>1. SameOutcomes
    BY <1>t, <1>16 DEF TypeOK, run_rollback, Step, GoTo, SameOutcomes
  <2>2. SameReports
    BY <1>t, <1>16 DEF TypeOK, run_rollback, Step, SameReports
  <2>3. QED
    BY <2>1, <2>2, SilentStep
<1>17. ASSUME NEW j \in Jobs, run_mark_canceled(j) PROVE ContractStep
  <2>1. OutcomeOf(j) = "abandoned" /\ SameOutcomes
    BY <1>t, <1>17 DEF TypeOK, run_mark_canceled, Write, GoTo, SameOutcomes
  <2>2. Publishes(j, "canceled")
    BY <1>t, <1>17 DEF TypeOK, run_mark_canceled, Write, Publishes, BuiltRow
  <2>3. QED
    BY <2>1, <2>2, AbandonedStep
<1>18. ASSUME NEW j \in Jobs, run_mark_failed(j) PROVE ContractStep
  <2>1. OutcomeOf(j) = "abandoned" /\ SameOutcomes
    BY <1>t, <1>18 DEF TypeOK, run_mark_failed, Write, GoTo, SameOutcomes
  <2>2. Publishes(j, "failed")
    BY <1>t, <1>18 DEF TypeOK, run_mark_failed, Write, Publishes, BuiltRow
  <2>3. QED
    BY <2>1, <2>2, AbandonedStep
<1>19. ASSUME NEW j \in Jobs, run_pop(j) PROVE ContractStep
  <2>1. SameOutcomes
    BY <1>t, <1>19 DEF TypeOK, run_pop, Step, GoTo, SameOutcomes
  <2>2. SameReports
    BY <1>t, <1>19 DEF TypeOK, run_pop, Step, SameReports
  <2>3. QED
    BY <2>1, <2>2, SilentStep
<1>20. ASSUME NEW j \in Jobs, run_discard(j) PROVE ContractStep
  <2>1. SameOutcomes
    BY <1>t, <1>20 DEF TypeOK, run_discard, Step, GoTo, SameOutcomes
  <2>2. SameReports
    BY <1>t, <1>20 DEF TypeOK, run_discard, Step, SameReports
  <2>3. QED
    BY <2>1, <2>2, SilentStep
<1>21. ASSUME NEW j \in Jobs, run_raises(j) PROVE ContractStep
  <2>1. SameOutcomes \/ Settles(j, "open", "abandoned")
    BY <1>t, <1>21 DEF TypeOK, run_raises, Step, GoTo, SameOutcomes, Settles
  <2>2. SameReports
    BY <1>t, <1>21 DEF TypeOK, run_raises, Step, SameReports
  <2>3. QED
    BY <2>1, <2>2, SilentStep, AbandonStep
<1>22. ASSUME NEW j \in Jobs, run_mark_raises(j) PROVE ContractStep
  <2>1. SameOutcomes
    BY <1>t, <1>22 DEF TypeOK, run_mark_raises, Step, GoTo, SameOutcomes
  <2>2. SameReports
    BY <1>t, <1>22 DEF TypeOK, run_mark_raises, Step, SameReports
  <2>3. QED
    BY <2>1, <2>2, SilentStep
<1>23. ASSUME NEW j \in Jobs, HeartbeatAges(j) PROVE ContractStep
  <2>1. SameOutcomes
    BY <1>t, <1>23 DEF TypeOK, HeartbeatAges, SameOutcomes
  <2>2. SameReports
    BY <1>t, <1>23 DEF TypeOK, HeartbeatAges, SameReports, JobRow
  <2>3. QED
    BY <2>1, <2>2, SilentStep
<1>24. ASSUME NEW c \in Clients, get_backtest_run_job_check(c) PROVE ContractStep
  BY <1>24, SilentStep DEF get_backtest_run_job_check, Reply, SameOutcomes, SameReports
<1>25. ASSUME NEW c \in Clients, get_backtest_run_job_update(c) PROVE ContractStep
  <2>1. req[c].snap \in JobRow /\ req[c].job \in Jobs /\ OutcomeOf(req[c].job) # "none"
    BY <1>t, <1>25 DEF IInv, AcceptedOnly, TypeOK, get_backtest_run_job_update, Request
  <2>2. SameOutcomes
    BY <1>25 DEF get_backtest_run_job_update, SameOutcomes
  <2>3. Publishes(req[c].job, "stale")
    BY <1>t, <1>25, <2>1, RequestWrites DEF TypeOK, get_backtest_run_job_update, Publishes
  <2>4. QED
    BY <2>1, <2>2, <2>3, UncertainStep
<1>26. ASSUME NEW c \in Clients, cancel_backtest_run_job_update(c) PROVE ContractStep
  <2>1. req[c].snap \in JobRow /\ req[c].job \in Jobs /\ OutcomeOf(req[c].job) # "none"
    BY <1>t, <1>26 DEF IInv, AcceptedOnly, TypeOK, cancel_backtest_run_job_update, Request
  <2>2. SameOutcomes
    BY <1>26 DEF cancel_backtest_run_job_update, SameOutcomes
  <2>3. Publishes(req[c].job, "cancel_requested")
    BY <1>t, <1>26, <2>1, RequestWrites DEF TypeOK, cancel_backtest_run_job_update, Publishes
  <2>4. QED
    BY <2>1, <2>2, <2>3, UncertainStep
<1>27. ASSUME NEW c \in Clients, cancel_backtest_run_job_flag(c) PROVE ContractStep
  BY <1>27, SilentStep DEF cancel_backtest_run_job_flag, Reply, SameOutcomes, SameReports
<1>28. ASSUME NEW c \in Clients, request_fails(c) PROVE ContractStep
  BY <1>28, SilentStep DEF request_fails, Reply, SameOutcomes, SameReports
<1>29. ASSUME NEW c \in Clients, SnapshotAges(c) PROVE ContractStep
  BY <1>29, SilentStep DEF SnapshotAges, Reply, SameOutcomes, SameReports
<1>30. ASSUME NEW c \in Clients, NEW j \in Jobs, get_backtest_run_job_select(c, j) PROVE ContractStep
  BY <1>30, SilentStep DEF get_backtest_run_job_select, Reply, SameOutcomes, SameReports
<1>31. ASSUME NEW c \in Clients, NEW j \in Jobs, cancel_backtest_run_job_select(c, j) PROVE ContractStep
  BY <1>31, SilentStep DEF cancel_backtest_run_job_select, Reply, SameOutcomes, SameReports
<1>32. CASE Crash
  <2> DEFINE S == {i \in Jobs : OutcomeOf(i) = "open"}
  <2>1. SameReports
    BY <1>32 DEF Crash, SameReports
  <2>2. \A i \in Jobs : OutcomeOf(i)' = IF i \in S THEN "abandoned" ELSE OutcomeOf(i)
    BY <1>t, <1>32 DEF TypeOK, Crash, WorkerPcs, ThreadPcs, CleanupPcs
  <2>3. CASE S = {}
    BY <2>1, <2>2, <2>3, SilentStep DEF SameOutcomes
  <2>4. CASE S # {}
    <3>1. S \in SUBSET Jobs /\ \A i \in S : OutcomeOf(i) = "open"
      OBVIOUS
    <3> HIDE DEF S
    <3>2. QED
      BY <2>1, <2>2, <2>4, <3>1, AbandonAllStep
  <2>5. QED
    BY <2>3, <2>4
<1>33. CASE Restart
  BY <1>33, SilentStep DEF Restart, SameOutcomes, SameReports
<1>34. CASE UNCHANGED vars
  BY <1>34, SilentStep DEF vars, SameOutcomes, SameReports
<1>35. QED
  BY <1>1, <1>2, <1>3, <1>4, <1>5, <1>6, <1>7, <1>8, <1>9, <1>10, <1>11, <1>12, <1>13, <1>14, <1>15, <1>16, <1>17, <1>18, <1>19, <1>20, <1>21, <1>22, <1>23, <1>24, <1>25, <1>26, <1>27, <1>28, <1>29, <1>30, <1>31, <1>32, <1>33, <1>34 DEF Next, Start, WorkerStep, WorkerError, RequestStep

\* The service keeps the contract: completed is published in the very step
\* that persists the run, failed and canceled only after the job gave up, and
\* a job never changes its outcome once it has one.
THEOREM ServiceKeepsContract == Spec => KeepsContract
<1>1. IInv /\ [Next]_vars => [Contract!Next]_(Contract!vars)
  BY RefinementStep DEF ContractStep
<1>2. QED
  BY <1>1, RefinementInit, InductiveInvariant, PTL DEF Spec, KeepsContract, Contract!Spec

=============================================================================
