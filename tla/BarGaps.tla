------------------------------- MODULE BarGaps -------------------------------
(***************************************************************************)
(* One-minute bars, the gap rows about them and the jobs that fill them:   *)
(*   run_bar_gap_checks, validate_dataset_integrity  jobs/data_quality.py  *)
(*   run_bar_backfill                                jobs/backfill_bars.py *)
(*   run_startup_gap_remediation   services/startup_remediation.py         *)
(*   repair_bars_integrity_windows services/integrity_repair_control.py    *)
(*                                                                         *)
(* Any number of workers (API threads, a starting server, a script) run    *)
(* them at once over the same tables at READ COMMITTED.  A SELECT and a    *)
(* later write of the same transaction are two steps; what a transaction   *)
(* wrote appears at its commit.  An UPDATE affects the rows that matched   *)
(* at its snapshot and match still when it commits.                        *)
(*                                                                         *)
(* Time is in half minutes: minutes are the even ticks.                    *)
(***************************************************************************)
EXTENDS DataQuality, RestPagination

CONSTANTS
    Workers,       \* threads and processes that run the operations
    LastMinute,    \* the last minute anything asks about
    VenueMinutes,  \* minutes the venue has (or will have) a kline for
    StoredAtStart, \* possible states of md.bars_1m at the start
    Windows,       \* windows users ask for, in ticks
    Lookback,      \* ticks that the startup remediation looks back
    PageLimit,     \* klines per page
    ListLimit,     \* gap rows that the remediation lists
    DetectLimit,   \* segments and examples a report keeps
    StartTime,     \* bound: time at the start
    EndTime,       \* bound: time at the end
    MaxTasks,      \* bound: operations started
    MaxTroubles    \* bound: failed fetches, failed statements and crashes

Minutes == {t \in 0..LastMinute : t % 2 = 0}

ASSUME ConstantsAssumption ==
    /\ LastMinute \in Nat /\ StartTime \in Nat /\ EndTime \in Nat /\ StartTime <= EndTime
    /\ PageLimit \in Nat \ {0} /\ {ListLimit, DetectLimit, Lookback} \subseteq Nat
    /\ MaxTasks \in Nat /\ MaxTroubles \in Nat
    /\ Windows \subseteq [lo : Nat, hi : 0..LastMinute]
    /\ VenueMinutes \subseteq Minutes
    /\ StoredAtStart \subseteq [Minutes -> {"none", "partial", "final", "bad"}]
    /\ Absent \notin Int

VARIABLES
    now,     \* the clock
    bars,    \* md.bars_1m: a minute's row is none, partial (fetched before the
             \* minute was over), final, or bad (breaks corrupt_where)
    gaps,    \* ops.data_gaps, oldest first
    jobs,    \* committed bar_backfill rows of ops.ingestion_jobs
    task,    \* what each worker is doing
    started, \* operations started so far (bounded by MaxTasks)
    troubles,\* failures and crashes so far (bounded by MaxTroubles)
    failed,  \* history: backfills whose except branch ran
    deleted, \* history: minutes whose rows a repair deleted
    repaired \* history: past minutes that a finished repair had detected

dbVars == <<bars, gaps, jobs>>
histVars == <<failed, deleted, repaired>>
boundVars == <<started, troubles>>
vars == <<now, dbVars, task, boundVars, histVars>>

-----------------------------------------------------------------------------
(* Rows *)

MinutesOf(w) == Within(Minutes, w)
Stored == {m \in Minutes : bars[m] # "none"}
OpenGaps == {i \in DOMAIN gaps : gaps[i].status = "open"}
Listed == UNION {MinutesOf(gaps[i]) : i \in OpenGaps}

OpenGap(segment) == [lo |-> segment.lo, hi |-> segment.hi, status |-> "open", job |-> 0]

\* Slip: the gap names itself.
ResolveBy_Itself(rows, id, job) ==
    [rows EXCEPT ![id].status = "resolved", ![id].job = id]

\* resolve_overlapping_open_gaps and resolve_gap at their commit.
ResolveAll(rows, ids) ==
    [i \in DOMAIN rows |-> IF i \in ids /\ rows[i].status = "open"
                           THEN [rows[i] EXCEPT !.status = "resolved"] ELSE rows[i]]
ResolveBy(rows, id, job) ==
    [rows EXCEPT ![id].status = "resolved", ![id].job = job]

-----------------------------------------------------------------------------
(* Workers *)

Kinds == {"none", "recheck", "validate", "remediate", "backfill", "repair"}
\* `began` is the operation's observed_at, `at` the time of its latest fetch.
Idle == [kind |-> "none", pc |-> "idle", win |-> Window(0, 0), began |-> 0, at |-> 0,
         seen |-> {}, match |-> {}, todo |-> <<>>, fetched |-> {}]

TypeOK ==
    /\ now \in StartTime..EndTime
    /\ bars \in [Minutes -> {"none", "partial", "final", "bad"}]
    /\ gaps \in Seq([lo : Int, hi : Int, status : {"open", "resolved"}, job : 0..Len(jobs)])
    /\ jobs \in Seq([lo : Int, hi : Int, at : Int])
    /\ \A p \in Workers :
           /\ task[p].kind \in Kinds
           /\ task[p].pc \in {"idle", "match", "write", "list", "fetch", "store", "resolve"}
           /\ task[p].seen \subseteq Minutes
           /\ task[p].match \subseteq DOMAIN gaps
    /\ started \in 0..MaxTasks /\ troubles \in 0..MaxTroubles
    /\ failed \in 0..MaxTroubles
    /\ deleted \subseteq Minutes /\ repaired \subseteq Minutes

Init ==
    /\ now = StartTime
    /\ bars \in StoredAtStart
    /\ gaps = <<>>
    /\ jobs = <<>>
    /\ task = [p \in Workers |-> Idle]
    /\ started = 0 /\ troubles = 0
    /\ failed = 0 /\ deleted = {} /\ repaired = {}

Begin(p, record) ==
    /\ task[p] = Idle
    /\ started < MaxTasks
    /\ started' = started + 1
    /\ task' = [task EXCEPT ![p] = record]

-----------------------------------------------------------------------------
(* Checks: SELECT the bars, UPDATE the open gaps, INSERT the segments *)

\* Both checks align the window to minutes and read the bars in it.  The gap
\* check resolves over the window as asked, the validation over the aligned one.
StartCheck(p, kind, w) ==
    LET aligned == AlignWindow(w, 2)
    IN  /\ Begin(p, [Idle EXCEPT !.kind = kind, !.pc = "match", !.began = now,
                                 !.win = IF kind = "validate" THEN aligned ELSE w,
                                 !.seen = Within(Stored, aligned)])
        /\ UNCHANGED <<now, dbVars, troubles, histVars>>

StartRecheck(p) == \E w \in Windows : StartCheck(p, "recheck", w)
StartValidate(p) == \E w \in Windows : StartCheck(p, "validate", w)
StartRemediation(p) == StartCheck(p, "remediate", Window(now - Lookback, now))

MatchOpenGaps(p) ==
    /\ task[p].pc = "match"
    /\ task' = [task EXCEPT ![p].pc = "write",
                            ![p].match = {i \in OpenGaps : Overlaps(gaps[i], task[p].win)}]
    /\ UNCHANGED <<now, dbVars, boundVars, histVars>>

\* Slip: the gap check takes the segments between bars, as the validation does.
SegmentsFound_Internal(t) ==
    SortedWindows(Profile({m \in t.seen : m <= t.began}, t.win, 2).segments)

\* The gap check makes segments of every missing minute of its window, the
\* validation only of those between bars not after observed_at.
SegmentsFound(t) ==
    IF t.kind = "validate"
    THEN SortedWindows(Profile({m \in t.seen : m <= t.began}, t.win, 2).segments)
    ELSE MissingSegments(ExpectedTimes(AlignWindow(t.win, 2), 2) \ t.seen, 2)

WriteGaps(p) ==
    /\ task[p].pc = "write"
    /\ gaps' = ResolveAll(gaps, task[p].match)
               \o [i \in DOMAIN SegmentsFound(task[p]) |-> OpenGap(SegmentsFound(task[p])[i])]
    /\ task' = [task EXCEPT ![p] = IF task[p].kind = "remediate"
                                   THEN [task[p] EXCEPT !.pc = "list"] ELSE Idle]
    /\ UNCHANGED <<now, bars, jobs, boundVars, histVars>>

-----------------------------------------------------------------------------
(* Windows to backfill *)

\* _find_open_bar_gaps: the newest rows first, up to the limit.
NewestOpenGaps ==
    LET ids == Reverse(Sorted(OpenGaps))
    IN  SubSeq(ids, 1, IF Len(ids) < ListLimit THEN Len(ids) ELSE ListLimit)

Job(w, id) == [lo |-> w.lo, hi |-> w.hi, gap |-> id]

\* The worker goes on with the next window, or is done.
NextWindow(t) ==
    IF Len(t.todo) > 1 THEN [t EXCEPT !.pc = "fetch", !.todo = Tail(@), !.fetched = {}] ELSE Idle

ListGaps(p) ==
    /\ task[p].pc = "list"
    /\ task' = [task EXCEPT ![p] =
                   IF OpenGaps = {} \/ ListLimit = 0 THEN Idle
                   ELSE [@ EXCEPT !.pc = "fetch",
                         !.todo = [i \in DOMAIN NewestOpenGaps |->
                                      Job(gaps[NewestOpenGaps[i]], NewestOpenGaps[i])]]]
    /\ UNCHANGED <<now, dbVars, boundVars, histVars>>

\* trigger_bar_backfill, and the repair of windows that a user names.
StartBackfill(p) ==
    \E w \in Windows :
        /\ Begin(p, [Idle EXCEPT !.kind = "backfill", !.pc = "fetch", !.todo = <<Job(w, 0)>>])
        /\ UNCHANGED <<now, dbVars, troubles, histVars>>

\* Slip: a window that joins another does not extend it.
MergeWindows_KeepsEnd(windows) ==
    FoldLeft(LAMBDA merged, w :
                 IF merged # <<>> /\ w.lo <= Last(merged).hi + 1 THEN merged
                 ELSE Append(merged, Window(w.lo, w.hi)),
             <<>>, SortedWindows(windows))

\* _merge_windows: sorted by start; a window joins the one before it when they
\* touch or overlap.
MergeWindows(windows) ==
    FoldLeft(LAMBDA merged, w :
                 IF merged # <<>> /\ w.lo <= Last(merged).hi + 1
                 THEN Append(Front(merged),
                             Window(Last(merged).lo,
                                    IF w.hi > Last(merged).hi THEN w.hi ELSE Last(merged).hi))
                 ELSE Append(merged, Window(w.lo, w.hi)),
             <<>>, SortedWindows(windows))

FirstOf(S, n) == {x \in S : Cardinality({y \in S : y < x}) < n}

\* The minutes of a report's samples: the first internal segments, the first
\* corrupt rows and the first future rows.
DetectedMinutes(window) ==
    LET w        == AlignWindow(window, 2)
        segments == Profile({m \in Within(Stored, w) : m <= now}, w, 2).segments
        kept     == FirstOf({s.lo : s \in segments}, DetectLimit)
    IN  (UNION {MinutesOf(s) : s \in {x \in segments : x.lo \in kept}})
        \union FirstOf({m \in Within(Stored, w) : bars[m] = "bad"}, DetectLimit)
        \union FirstOf({m \in Stored : m > now}, DetectLimit)

\* _build_detected_windows: one window per sample, of whole minutes, merged.
DetectedWindows(w) == MergeWindows({Window(m, m + 1) : m \in DetectedMinutes(w)})

\* The script reads the report of its window, which ends now if the user names
\* none, and repair_bars_integrity_windows goes through the windows.
StartRepair(p) ==
    \E w \in Windows \union {Window(0, now)} :
        /\ DetectedWindows(w) # <<>>
        /\ Begin(p, [Idle EXCEPT !.kind = "repair", !.pc = "fetch", !.began = now,
                                 !.seen = DetectedMinutes(w),
                                 !.todo = [i \in DOMAIN DetectedWindows(w) |->
                                              Job(DetectedWindows(w)[i], 0)]])
        /\ UNCHANGED <<now, dbVars, troubles, histVars>>

\* _delete_bar_rows_in_window: for a window after the time the repair began.
ToDelete(t) == t.kind = "repair" /\ Head(t.todo).lo > t.began

\* The past minutes of a repair whose last window is done.
RepairedBy(t) == IF t.kind = "repair" /\ Len(t.todo) = 1
                 THEN {m \in t.seen : m <= t.began} ELSE {}

DeleteFutureRows(p) ==
    /\ task[p].pc = "fetch"
    /\ ToDelete(task[p])
    /\ bars' = [m \in Minutes |-> IF m \in MinutesOf(Head(task[p].todo)) THEN "none" ELSE bars[m]]
    /\ deleted' = deleted \union (Stored \intersect MinutesOf(Head(task[p].todo)))
    /\ repaired' = repaired \union RepairedBy(task[p])
    /\ task' = [task EXCEPT ![p] = NextWindow(task[p])]
    /\ UNCHANGED <<now, gaps, jobs, boundVars, failed>>

-----------------------------------------------------------------------------
(* One backfill job: a single transaction around the fetch *)

\* Klines exist from the first moment of their minute; the last one is still
\* moving when it is fetched.
Begun == {m \in VenueMinutes : m <= now}

FetchWindow(p) ==
    /\ task[p].pc = "fetch"
    /\ ~ ToDelete(task[p])
    /\ LET rows == ToSet(FetchKlines(Begun, Head(task[p].todo), PageLimit, 2))
       IN  task' = [task EXCEPT ![p].pc = "store", ![p].at = now,
                        ![p].fetched = {<<m, IF m + 2 <= now THEN "final" ELSE "partial">> : m \in rows}]
    /\ UNCHANGED <<now, dbVars, boundVars, histVars>>

\* BarRepository.upsert for each row, finish_job and the commit.
Upserted(fetched) ==
    [m \in Minutes |-> IF \E pair \in fetched : pair[1] = m
                       THEN (CHOOSE pair \in fetched : pair[1] = m)[2] ELSE bars[m]]

StoreWindow(p) ==
    LET t == task[p]
    IN  /\ t.pc = "store"
        /\ bars' = Upserted(t.fetched)
        /\ jobs' = Append(jobs, [lo |-> Head(t.todo).lo, hi |-> Head(t.todo).hi, at |-> t.at])
        /\ repaired' = repaired \union RepairedBy(t)
        \* the task remembers the job's id for _resolve_gap
        /\ task' = [task EXCEPT ![p] = IF Head(t.todo).gap # 0
                                       THEN [t EXCEPT !.pc = "resolve", !.at = Len(jobs) + 1]
                                       ELSE NextWindow(t)]
        /\ UNCHANGED <<now, gaps, boundVars, failed, deleted>>

\* The except branch writes failed_terminal and raises: the transaction is
\* rolled back with what it wrote, and the operation ends with the exception.
BackfillFails(p) ==
    /\ task[p].pc \in {"fetch", "store"}
    /\ ~ (task[p].pc = "fetch" /\ ToDelete(task[p]))
    /\ troubles < MaxTroubles
    /\ troubles' = troubles + 1
    /\ failed' = failed + 1
    /\ task' = [task EXCEPT ![p] = Idle]
    /\ UNCHANGED <<now, dbVars, started, deleted, repaired>>

\* _resolve_gap, once the backfill has returned "succeeded".
ResolveGap(p) ==
    /\ task[p].pc = "resolve"
    /\ gaps' = ResolveBy(gaps, Head(task[p].todo).gap, task[p].at)
    /\ task' = [task EXCEPT ![p] = NextWindow(task[p])]
    /\ UNCHANGED <<now, bars, jobs, boundVars, histVars>>

-----------------------------------------------------------------------------
\* The process dies or a statement fails: an open transaction is rolled back.
Abort(p) ==
    /\ task[p] # Idle
    /\ troubles < MaxTroubles
    /\ troubles' = troubles + 1
    /\ task' = [task EXCEPT ![p] = Idle]
    /\ UNCHANGED <<now, dbVars, started, histVars>>

Tick ==
    /\ now < EndTime
    /\ now' = now + 1
    /\ UNCHANGED <<dbVars, task, boundVars, histVars>>

Next ==
    \/ \E p \in Workers :
           \/ StartRecheck(p) \/ StartValidate(p) \/ StartRemediation(p)
           \/ MatchOpenGaps(p) \/ WriteGaps(p) \/ ListGaps(p)
           \/ StartBackfill(p) \/ StartRepair(p) \/ DeleteFutureRows(p)
           \/ FetchWindow(p) \/ StoreWindow(p) \/ BackfillFails(p) \/ ResolveGap(p)
           \/ Abort(p)
    \/ Tick

Spec == Init /\ [][Next]_vars

-----------------------------------------------------------------------------
(* Properties *)

\* A gap that names a backfill job was filled by it: the job's window is the
\* gap's, and every minute of it that the venue had when the job fetched has a
\* row, unless a repair deleted it (startup_remediation.py:88-100).
ResolvedGapsAreFilled ==
    \A i \in DOMAIN gaps :
        gaps[i].job # 0 =>
            /\ gaps[i].lo = jobs[gaps[i].job].lo /\ gaps[i].hi = jobs[gaps[i].job].hi
            /\ \A m \in MinutesOf(gaps[i]) \ deleted :
                   m \in VenueMinutes /\ m <= jobs[gaps[i].job].at => bars[m] # "none"

\* A gap check that commits takes no missing minute of its own window from the
\* list of open gaps, whatever ran between its SELECT and its commit; rows that
\* a repair deleted meanwhile excepted (data_quality.py:1189-1312).
ChecksKeepTheirWindow ==
    [][\A p \in Workers :
           WriteGaps(p) /\ task[p].kind # "validate" =>
               \A m \in (Listed \ deleted) \intersect MinutesOf(task[p].win) :
                   bars[m] = "none" => m \in Listed']_vars

\* The past minutes that a finished repair had found missing or corrupt are no
\* longer so where the venue has them, unless another repair deleted the row
\* (integrity_repair_control.py:40-88).
RepairsTakeEffect ==
    \A m \in (repaired \intersect VenueMinutes) \ deleted : bars[m] \in {"partial", "final"}

\* A validation report counts what is there, however the rows came about: as
\* missing the minutes of the aligned window without a row that is not of the
\* future, as gaps the maximal runs of them between rows, and it passes a window
\* only if nothing is missing or corrupt in it and no row anywhere is of the
\* future (data_quality.py:292-429, 757-960).
BarSpec == [step |-> 2, alignedOnly |-> FALSE, retention |-> Absent]
BarRows == [m \in Stored |-> Row(m, m, bars[m] = "bad")]

\* The minutes that a report goes by.
SafeMinutes(w) == {m \in Within(Stored, w) : m <= now}
MissingMinutes(w) == MinutesOf(w) \ SafeMinutes(w)
InnerMinutes(w) ==
    {m \in MissingMinutes(w) : \E a, b \in SafeMinutes(w) : a < m /\ m < b}

ReportTellsTheRows ==
    \A window \in Windows :
        LET report == DatasetReport(BarRows, BarSpec, window, now, 1)
            w      == AlignWindow(window, 2)
        IN  /\ report.missing = Cardinality(MissingMinutes(w))
            /\ WindowsOf(report.profile.segments) = MaximalRuns(InnerMinutes(w), 2)
            /\ report.status = "pass" <=>
                   /\ MissingMinutes(w) = {}
                   /\ \A m \in MinutesOf(w) : bars[m] # "bad"
                   /\ \A m \in Stored : m <= now

\* What the documents say of a recheck: it resolves stale gaps, and missing
\* intervals stay visible in ops.data_gaps.  A check resolves a gap only when
\* each of its minutes has a row or is listed again.
ResolvesOnlyStaleGaps ==
    [][\A p \in Workers : WriteGaps(p) =>
           \A i \in DOMAIN gaps :
               gaps[i].status = "open" /\ gaps'[i].status = "resolved" =>
                   \A m \in MinutesOf(gaps[i]) : bars[m] # "none" \/ m \in Listed']_vars
=============================================================================
