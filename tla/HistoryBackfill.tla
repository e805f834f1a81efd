---------------------------- MODULE HistoryBackfill ----------------------------
(***************************************************************************)
(* The history backfill, src/scripts/binance_btc_history_backfill.py, and  *)
(* the API's control of it, src/src/services/btc_backfill_control.py.      *)
(*                                                                         *)
(* A backfill is a process of its own.  It plans tasks, runs them one by   *)
(* one and reports in a JSON status file, which it writes to a temporary   *)
(* file and moves over the old one.  All processes use the same two names. *)
(* The API reads the file to show the state and to decide whether to start *)
(* another process; an operator starts processes from a shell.             *)
(***************************************************************************)
EXTENDS SnapshotPlans

CONSTANTS
    BarDatasets,     \* bars_1m of the spot and of the perpetual instrument
    DatasetOrder,    \* the incremental data sets in the order of their specs
    SnapshotKey,     \* the bootstrap's one spec for all snapshot data sets
    Month,           \* ticks of a chunk (months are taken to be equally long)
    FundingInterval, \* ticks of eight hours
    Torn,            \* content that is not JSON
    NoFile,          \* content of a name that does not exist
    Clients,         \* API threads
    Venue,           \* [data set -> the times it ever has rows for]
    StoredRows,      \* possible contents of the tables at the start
    Selections,      \* values of --dataset, {} for none
    StartTime,       \* bound: time at the start
    EndTime,         \* bound: time at the end
    MaxLaunches,     \* bound: processes
    MaxTroubles      \* bound: failures, kills and API restarts

Pids == 1..MaxLaunches
HistorySets == Range(DatasetOrder)

\* The contents of a status file, as initial_status_payload makes them.
Reports == [state : {"running", "finished", "failed"}, mode : {"bootstrap", "incremental"},
            pid : Pids, lo : Nat, hi : Nat, total : Nat, completed : Nat,
            keys : SUBSET (HistorySets \union {SnapshotKey})]

ASSUME HistoryConstantsAssumption ==
    /\ HistorySets = BarDatasets \union Datasets
    /\ {Month, FundingInterval} \subseteq Nat \ {0}
    /\ StartTime \in Nat /\ EndTime \in Nat /\ StartTime <= EndTime
    /\ MaxLaunches \in Nat /\ MaxTroubles \in Nat
    /\ DatasetOrder \in Seq(HistorySets)
    /\ SnapshotKey \notin HistorySets
    /\ Torn # NoFile
    /\ Torn \notin Reports /\ NoFile \notin Reports
    /\ Venue \in [HistorySets -> SUBSET Nat]
    /\ StoredRows \subseteq [HistorySets -> SUBSET (0..EndTime)]
    /\ Selections \subseteq SUBSET HistorySets

\* The venue settles funding once per interval, and no other rows were stored:
\* planned_gap_windows looks for intervals without a row.
ASSUME FundingAssumption ==
    \A d \in FundingDatasets :
        /\ \A s, t \in Venue[d] :
               s - (s % FundingInterval) = t - (t % FundingInterval) => s = t
        /\ \A stored \in StoredRows : stored[d] \subseteq Venue[d]

VARIABLES
    now,     \* the clock
    rows,    \* [data set -> the times with a row]
    file,    \* what the status file's name holds
    temp,    \* what the temporary name holds
    proc,    \* the processes, by process id
    api,     \* [API thread -> the one selection it is about to start, or none]
    launches, troubles,
    ran,     \* history: [bootstrap key -> ticks that its finished tasks covered]
    crowded  \* history: two backfills were alive at once

vars == <<now, rows, file, temp, proc, api, launches, troubles, ran, crowded>>

-----------------------------------------------------------------------------
(* Planning *)

Task(key, w) == [key |-> key, lo |-> w.lo, hi |-> w.hi]
TasksOf(key, windows) == [i \in DOMAIN windows |-> Task(key, windows[i])]
MonthWindows(w) == ChunkWindows(w.lo, w.hi, Month)

\* Some of the data sets, in the order of the specs.
Ordered(ds) ==
    FlattenSeq([i \in DOMAIN DatasetOrder |->
                   IF DatasetOrder[i] \in ds THEN <<DatasetOrder[i]>> ELSE <<>>])
BootstrapKeys == Append(Ordered(BarDatasets), SnapshotKey)

\* build_chunk_tasks: spec after spec, month after month.
BootstrapTasks(w) ==
    LET windows == MonthWindows(w)
        n       == Len(windows)
    IN  [i \in 1..(n * Len(BootstrapKeys)) |->
            Task(BootstrapKeys[(i - 1) \div n + 1], windows[((i - 1) % n) + 1])]

\* planning_interval_seconds.
PlanningStep(d) ==
    IF d \in FundingDatasets THEN FundingInterval
    ELSE IF d \in RetainedDatasets THEN Period ELSE 1

\* open_interest_available_from and sentiment_ratio_available_from.
AvailableFrom(d, from, t) ==
    IF d \in RetainedDatasets /\ RetentionFloor(t) > from THEN RetentionFloor(t) ELSE from

\* Slip: a row between the points of the grid stands for the one before it.
Buckets_All(d, times, w) == Within({FloorTo(t, PlanningStep(d)) : t \in times}, w)

\* The rows that count: those on the grid, for funding the intervals they are in.
Buckets(d, times, w) ==
    Within(IF d \in FundingDatasets THEN {FloorTo(t, FundingInterval) : t \in times}
           ELSE {t \in times : t % PlanningStep(d) = 0}, w)

\* planned_gap_windows: the missing head, holes and tail, or all of the window.
GapWindows(d, times, w, t) ==
    LET step    == PlanningStep(d)
        aligned == AlignWindow(Window(AvailableFrom(d, w.lo, t), w.hi), step)
        stored  == Buckets(d, times, aligned)
        head    == Window(aligned.lo, Min(stored) - step)
        holes   == {Window(s.lo, s.hi) : s \in InternalSegments(stored, step)}
        tail    == Window(Max(stored) + step, aligned.hi)
    IN  IF aligned.hi < aligned.lo THEN <<>>
        ELSE IF stored = {} THEN <<aligned>>
        ELSE SortedWindows({g \in {head, tail} \union holes : g.lo <= g.hi})

\* filter_incremental_dataset_specs keeps the order of the specs.
Selected(names) == Ordered(IF names = {} THEN HistorySets ELSE names)

\* build_incremental_tasks.
GapTasks(d, gaps) ==
    FlattenSeq([i \in DOMAIN gaps |-> TasksOf(d, MonthWindows(gaps[i]))])
IncrementalTasks(names, contents, w, t) ==
    LET ds == Selected(names)
    IN  FlattenSeq([i \in DOMAIN ds |-> GapTasks(ds[i], GapWindows(ds[i], contents[ds[i]], w, t))])

\* What a task consists of, each part with the data sets it fetches together.
Part(ds, lo, hi) == [sets |-> ds, lo |-> lo, hi |-> hi]

\* execute_task: bars and single data sets; funding_fetch_window goes on for an
\* interval.  run_perp_snapshot_window has four parts.
PartsOf(task) ==
    IF task.key = SnapshotKey
    THEN <<Part(FundingDatasets, task.lo, task.hi), Part(InterestDatasets, task.lo, task.hi),
           Part(PriceDatasets, task.lo, task.hi), Part(RatioDatasets, task.lo, task.hi)>>
    ELSE IF task.key \in FundingDatasets
    THEN <<Part({task.key}, task.lo, task.hi + FundingInterval)>>
    ELSE <<Part({task.key}, task.lo, task.hi)>>

\* run_open_interest_history_window and run_sentiment_ratio_history_window go
\* day by day from the availability floor on; the other parts are one call.
CallsOf(part, t) ==
    LET windows == IF part.sets \subseteq RetainedDatasets
                   THEN DayWindows(IF RetentionFloor(t) > part.lo THEN RetentionFloor(t)
                                   ELSE part.lo, part.hi)
                   ELSE <<Window(part.lo, part.hi)>>
    IN  [i \in DOMAIN windows |-> Part(part.sets, windows[i].lo, windows[i].hi)]

\* The next part that needs a call (a retained one may be all before the floor);
\* the last one when none does.
NextPart(parts, t) ==
    LET needed == {i \in DOMAIN parts : parts[i].sets # {} /\ CallsOf(parts[i], t) # <<>>}
    IN  IF needed = {} THEN Len(parts) ELSE Min(needed)

-----------------------------------------------------------------------------
(* Processes and files *)

\* `number` tasks are behind the process.  `after` is what follows a write of
\* the status; `inode` is where the temporary file it opened is now.
NoProcess == [life |-> "none", parent |-> "shell", mode |-> "bootstrap", names |-> {},
              pc |-> "plan", after |-> "loop", inode |-> "none", status |-> NoFile,
              tasks |-> <<>>, number |-> 0, parts |-> <<>>, calls |-> <<>>]

Alive == {p \in Pids : proc[p].life = "alive"}

\* initial_status_payload.
Status(p, mode, w, tasks, keys) ==
    [state |-> "running", mode |-> mode, pid |-> p, lo |-> w.lo, hi |-> w.hi,
     total |-> Len(tasks), completed |-> 0, keys |-> keys]

TypeOK ==
    /\ now \in StartTime..EndTime
    /\ rows \in [HistorySets -> SUBSET (0..EndTime)]
    /\ {file, temp} \subseteq Reports \union {Torn, NoFile}
    /\ \A p \in Pids :
           /\ proc[p].life \in {"none", "alive", "zombie", "gone"}
           /\ proc[p].pc \in {"plan", "fill", "replace", "loop", "execute"}
           /\ proc[p].after \in {"first", "loop", "execute", "exit"}
           /\ proc[p].inode \in {"none", "temp", "file", "lost"}
           /\ proc[p].number \in 0..Len(proc[p].tasks)
    /\ api \in [Clients -> SUBSET Selections]
    /\ launches \in 0..MaxLaunches /\ troubles \in 0..MaxTroubles
    /\ crowded \in BOOLEAN

Init ==
    /\ now = StartTime
    /\ rows \in StoredRows
    /\ file = NoFile /\ temp = NoFile
    /\ proc = [p \in Pids |-> NoProcess]
    /\ api = [c \in Clients |-> {}]
    /\ launches = 0 /\ troubles = 0
    /\ ran = [key \in Range(BootstrapKeys) |-> {}]
    /\ crowded = FALSE

\* A process that ended is a zombie until its parent waits for it.  A shell
\* does; the API does when it starts another process (subprocess._cleanup).
Ended(p) == [NoProcess EXCEPT !.life = IF proc[p].parent = "api" THEN "zombie" ELSE "gone"]
Reap(processes) ==
    [p \in Pids |-> IF processes[p].life = "zombie"
                    THEN [processes[p] EXCEPT !.life = "gone"] ELSE processes[p]]

\* _process_is_running: signal 0 reaches a zombie too.
ProcessIsRunning(p) == proc[p].life \in {"alive", "zombie"}

\* load_binance_btc_backfill_status: the state it shows.
ShownState ==
    IF file = NoFile THEN "not_started"
    ELSE IF file = Torn THEN "status_unreadable"
    ELSE IF file.state = "running" /\ ~ProcessIsRunning(file.pid) THEN "stale"
    ELSE file.state

-----------------------------------------------------------------------------
(* Starting a process *)

Launch(parent, mode, names) ==
    /\ launches < MaxLaunches
    /\ launches' = launches + 1
    /\ proc' = [(IF parent = "api" THEN Reap(proc) ELSE proc) EXCEPT
                    ![launches + 1] = [NoProcess EXCEPT !.life = "alive", !.parent = parent,
                                                        !.mode = mode, !.names = names]]
    /\ crowded' = (crowded \/ Alive # {})

\* trigger_binance_btc_incremental_backfill reads the status and answers
\* already_running, or goes on to start a process.
ApiChecks(c) ==
    /\ api[c] = {}
    /\ ShownState # "running"
    /\ \E names \in Selections : api' = [api EXCEPT ![c] = {names}]
    /\ UNCHANGED <<now, rows, file, temp, proc, launches, troubles, ran, crowded>>
ApiStarts(c) ==
    /\ \E names \in api[c] : Launch("api", "incremental", names)
    /\ api' = [api EXCEPT ![c] = {}]
    /\ UNCHANGED <<now, rows, file, temp, troubles, ran>>

OperatorStarts ==
    /\ \E mode \in {"bootstrap", "resume"} : Launch("shell", mode, {})
    /\ UNCHANGED <<now, rows, file, temp, api, troubles, ran>>

-----------------------------------------------------------------------------
(* main *)

Update(p, record) == proc' = [proc EXCEPT ![p] = record]

\* write_status begins: write_text opens the temporary file, which empties it.
Write(p, record, after) ==
    /\ temp' = Torn
    /\ Update(p, [record EXCEPT !.pc = "fill", !.after = after, !.inode = "temp"])
WriteFailed(p, record) == Write(p, [record EXCEPT !.status.state = "failed"], "exit")

\* Without --end-date a plan ends now.  A resumed run plans the bootstrap's
\* tasks again, to the present end, and skips as many as the file counts.
PlanBootstrap(p) ==
    LET tasks == BootstrapTasks(Window(0, now))
    IN  /\ proc[p].mode = "bootstrap"
        /\ Write(p, [proc[p] EXCEPT
               !.tasks = tasks,
               !.status = Status(p, "bootstrap", Window(0, now), tasks, Range(BootstrapKeys))],
               "first")
PlanIncremental(p) ==
    LET tasks == IncrementalTasks(proc[p].names, rows, Window(0, now), now)
    IN  /\ proc[p].mode = "incremental"
        /\ Write(p, [proc[p] EXCEPT
               !.tasks = tasks,
               !.status = Status(p, "incremental", Window(0, now), tasks,
                                 Range(Selected(proc[p].names)))], "first")
\* Slip: the task that was running counts as done.
Resumed_Next(completed, tasks) ==
    IF completed + 1 < Len(tasks) THEN completed + 1 ELSE Len(tasks)

Resumed(completed, tasks) == IF completed < Len(tasks) THEN completed ELSE Len(tasks)
\* Slip: the file keeps the process id of the run that it resumes.
PlanResume_OldPid(p) ==
    LET tasks == BootstrapTasks(Window(0, now))
    IN  /\ proc[p].mode = "resume"
        /\ IF file \in {NoFile, Torn}
           THEN Update(p, Ended(p)) /\ UNCHANGED temp
           ELSE Write(p, [proc[p] EXCEPT
                    !.tasks = tasks, !.number = Resumed(file.completed, tasks),
                    !.status = [file EXCEPT !.state = "running"]], "first")
PlanResume(p) ==
    LET tasks == BootstrapTasks(Window(0, now))
    IN  /\ proc[p].mode = "resume"
        /\ IF file \in {NoFile, Torn}
           THEN Update(p, Ended(p)) /\ UNCHANGED temp
           ELSE Write(p, [proc[p] EXCEPT
                    !.tasks = tasks, !.number = Resumed(file.completed, tasks),
                    !.status = [file EXCEPT !.state = "running", !.pid = p]], "first")
PlanTasks(p) ==
    /\ p \in Alive /\ proc[p].pc = "plan"
    /\ PlanBootstrap(p) \/ PlanIncremental(p) \/ PlanResume(p)
    /\ UNCHANGED <<now, rows, file, api, launches, troubles, ran, crowded>>

\* Slip: the temporary file is moved before its content is flushed.
Fill_MovedFirst(p) ==
    /\ p \in Alive /\ proc[p].pc = "fill"
    /\ file' = IF proc[p].inode = "temp" THEN temp ELSE file
    /\ temp' = IF proc[p].inode = "temp" THEN proc[p].status ELSE temp
    /\ Update(p, [proc[p] EXCEPT !.pc = "replace", !.inode = "none"])
    /\ UNCHANGED <<now, rows, api, launches, troubles, ran, crowded>>

\* The rest of write_status: the file is filled and moved over the status file.
\* Two processes may have the same file open, and one move it while the other
\* writes.
Fill(p) ==
    /\ p \in Alive /\ proc[p].pc = "fill"
    /\ temp' = IF proc[p].inode = "temp" THEN proc[p].status ELSE temp
    /\ file' = IF proc[p].inode = "file" THEN proc[p].status ELSE file
    /\ Update(p, [proc[p] EXCEPT !.pc = "replace", !.inode = "none"])
    /\ UNCHANGED <<now, rows, api, launches, troubles, ran, crowded>>

\* A moved file stays open: its writers now write to the status file, and the
\* writers of the old status file to a file without a name.
Moved(inode) == CASE inode = "temp" -> "file" [] inode = "file" -> "lost" [] OTHER -> inode

\* A part's floor is read when the part before it is done.
WithNextPart(record, parts) ==
    LET i == NextPart(parts, now)
    IN  IF parts = <<>> THEN [record EXCEPT !.parts = <<>>, !.calls = <<>>]
        ELSE [record EXCEPT !.parts = SubSeq(parts, i + 1, Len(parts)),
                            !.calls = CallsOf(parts[i], now)]

Replaced(p) ==
    CASE proc[p].after = "exit"    -> Ended(p)
      [] proc[p].after = "execute" ->
             WithNextPart([proc[p] EXCEPT !.pc = "execute"],
                          PartsOf(proc[p].tasks[proc[p].number + 1]))
      [] OTHER                     -> [proc[p] EXCEPT !.pc = "loop"]

Replace(p) ==
    /\ p \in Alive /\ proc[p].pc = "replace"
    /\ temp # NoFile
    /\ file' = temp /\ temp' = NoFile
    /\ proc' = [q \in Pids |-> IF q = p THEN Replaced(p)
                               ELSE [proc[q] EXCEPT !.inode = Moved(@)]]
    /\ UNCHANGED <<now, rows, api, launches, troubles, ran, crowded>>

\* FileNotFoundError: another process moved the file.  The try statement starts
\* after the first write, and the except branch writes too.
ReplaceFails(p) ==
    /\ p \in Alive /\ proc[p].pc = "replace"
    /\ temp = NoFile
    /\ IF proc[p].after = "first" \/ proc[p].status.state = "failed"
       THEN Update(p, Ended(p)) /\ UNCHANGED temp
       ELSE WriteFailed(p, proc[p])
    /\ UNCHANGED <<now, rows, file, api, launches, troubles, ran, crowded>>

\* The loop: the file names the current task before it is executed.
StartTask(p) ==
    /\ p \in Alive /\ proc[p].pc = "loop"
    /\ proc[p].number < Len(proc[p].tasks)
    /\ Write(p, proc[p], "execute")
    /\ UNCHANGED <<now, rows, file, api, launches, troubles, ran, crowded>>

\* run_bar_backfill or run_market_snapshot_refresh of a window, in a transaction.
Available(d, t) ==
    {s \in Venue[d] : s <= t /\ (d \in RetainedDatasets => s >= t - Retention)}
RunCall(p) ==
    LET call == Head(proc[p].calls)
    IN  /\ p \in Alive /\ proc[p].pc = "execute"
        /\ proc[p].calls # <<>>
        /\ rows' = [d \in HistorySets |->
                       IF d \in call.sets
                       THEN rows[d] \union Within(Available(d, now), Window(call.lo, call.hi))
                       ELSE rows[d]]
        /\ Update(p, IF Len(proc[p].calls) > 1 THEN [proc[p] EXCEPT !.calls = Tail(@)]
                     ELSE WithNextPart(proc[p], proc[p].parts))
        /\ UNCHANGED <<now, file, temp, api, launches, troubles, ran, crowded>>

\* tasks_completed is set before update_dataset_status looks up the key of the
\* data set, which a resumed incremental file may lack (KeyError).
Counted(record) ==
    [record EXCEPT !.number = @ + 1, !.status.completed = record.number + 1]
FinishTask(p) ==
    LET task == proc[p].tasks[proc[p].number + 1]
    IN  /\ p \in Alive /\ proc[p].pc = "execute"
        /\ proc[p].calls = <<>>
        /\ IF task.key \in proc[p].status.keys THEN Write(p, Counted(proc[p]), "loop")
           ELSE WriteFailed(p, Counted(proc[p]))
        /\ ran' = IF proc[p].mode = "incremental" THEN ran
                  ELSE [ran EXCEPT ![task.key] = @ \union task.lo..task.hi]
        /\ UNCHANGED <<now, rows, file, api, launches, troubles, crowded>>

Finish(p) ==
    /\ p \in Alive /\ proc[p].pc = "loop"
    /\ proc[p].number = Len(proc[p].tasks)
    /\ Write(p, [proc[p] EXCEPT !.status.state = "finished"], "exit")
    /\ UNCHANGED <<now, rows, file, api, launches, troubles, ran, crowded>>

\* The except branch: a request, a statement or the coverage summary failed.
Raises(p) ==
    /\ p \in Alive /\ troubles < MaxTroubles
    /\ proc[p].pc \in {"execute", "loop"}
    /\ troubles' = troubles + 1
    /\ WriteFailed(p, proc[p])
    /\ UNCHANGED <<now, rows, file, api, launches, ran, crowded>>

\* A kill or a crash, or planning raises: nothing more is written.
Killed(p) ==
    /\ p \in Alive /\ troubles < MaxTroubles
    /\ troubles' = troubles + 1
    /\ Update(p, Ended(p))
    /\ UNCHANGED <<now, rows, file, temp, api, launches, ran, crowded>>

\* The API restarts; its processes have sessions of their own and go on, as
\* children of init, which waits for them.
ApiRestarts ==
    /\ troubles < MaxTroubles
    /\ troubles' = troubles + 1
    /\ api' = [c \in Clients |-> {}]
    /\ proc' = [p \in Pids |-> [Reap(proc)[p] EXCEPT !.parent = "shell"]]
    /\ UNCHANGED <<now, rows, file, temp, launches, ran, crowded>>

Tick ==
    /\ now < EndTime
    /\ now' = now + 1
    /\ UNCHANGED <<rows, file, temp, proc, api, launches, troubles, ran, crowded>>

-----------------------------------------------------------------------------

Step(p) ==
    \/ PlanTasks(p) \/ Fill(p) \/ Replace(p) \/ ReplaceFails(p)
    \/ StartTask(p) \/ RunCall(p) \/ FinishTask(p) \/ Finish(p)

Next ==
    \/ \E c \in Clients : ApiChecks(c) \/ ApiStarts(c)
    \/ OperatorStarts
    \/ \E p \in Pids : Step(p) \/ Raises(p) \/ Killed(p)
    \/ ApiRestarts
    \/ Tick

Spec == Init /\ [][Next]_vars

-----------------------------------------------------------------------------
(* Properties *)

\* Whoever reads the status file finds a whole report (a process that is killed
\* while it writes leaves the old one) as long as no two backfills ran at once.
StatusIsReadable == ~crowded => file # Torn

\* A bootstrap that a resumed run finished covered all of the window it reports,
\* however often it failed, although tasks are skipped by their count alone and
\* the plan has grown with the time that has passed.
FinishedCoversWindow ==
    (file \notin {NoFile, Torn} /\ file.mode = "bootstrap" /\ file.state = "finished") =>
        \A key \in Range(BootstrapKeys) : file.lo..file.hi \subseteq ran[key]

\* When an incremental run reports that it finished, its data sets have every
\* row that the venue has in the window, gridded and up to its last boundary.
RowsOwed(d, w) ==
    {t \in Available(d, now) :
        /\ w.lo <= t /\ t <= FloorTo(w.hi, PlanningStep(d))
        /\ t % PlanningStep(d) = 0}
IncrementalLeavesNoHoles ==
    [][\A p \in Pids : Finish(p) /\ proc[p].mode = "incremental" =>
           \A d \in Range(Selected(proc[p].names)) :
               RowsOwed(d, Window(proc[p].status.lo, proc[p].status.hi)) \subseteq rows[d]]_vars

\* While a backfill that runs alone executes tasks, the file says so, names its
\* process (which is what keeps the API from starting another, and a reader from
\* taking it for stale) and counts neither more nor fewer tasks than are done (a
\* file that counts more than there are to do when it is resumed is left at that).
ReportIsCurrent ==
    ~crowded => \A p \in Alive : proc[p].pc \in {"loop", "execute"} =>
                    /\ ShownState = "running"
                    /\ file.pid = p
                    /\ \/ file.completed = proc[p].number
                       \/ /\ proc[p].number = Len(proc[p].tasks)
                          /\ file.completed > proc[p].number

\* "returns already_running=true when an active BTC backfill process already
\* exists" (docs/ui-api-spec.md:717): the API starts no second process.  VIOLATED:
\* the file names a process only once it has planned its tasks.
OneBackfillAtATime == Cardinality({p \in Alive : proc[p].parent = "api"}) <= 1
=============================================================================
