----------------------------- MODULE SnapshotJobs -----------------------------
(***************************************************************************)
(* The jobs that keep the snapshot tables, and the scheduler that runs     *)
(* them inside the API process:                                            *)
(*   run_market_snapshot_refresh      jobs/refresh_market_snapshots.py     *)
(*   run_market_snapshot_remediation  jobs/remediate_market_snapshots.py   *)
(*   run_instrument_sync              jobs/sync_instruments.py             *)
(*   start_builtin_scheduler          services/builtin_scheduler.py        *)
(*                                                                         *)
(* A loop of the event loop sleeps, hands its job to a thread and waits    *)
(* for it; stopping the scheduler ends the loops, not the threads.  API    *)
(* calls run the same jobs in threads of their own.                        *)
(***************************************************************************)
EXTENDS SnapshotPlans

CONSTANTS
    Loops,         \* the scheduled definitions: [loop -> the job type]
    NamedSets,     \* sets of data sets that clients ask a remediation for
    Clients,       \* API threads that run a job on request
    Venue,         \* [data set -> the times it ever has rows for]
    StoredRows,    \* possible contents of the tables at the start
    StartTime,     \* bound: time at the start, a retention after time 0 or later
    EndTime,       \* bound: time at the end
    MaxRequests,   \* bound: jobs that clients ask for
    MaxTroubles    \* bound: failed fetches and statements, shutdowns and crashes

Workers == DOMAIN Loops \union Clients

ASSUME JobConstantsAssumption ==
    /\ \A l \in DOMAIN Loops : Loops[l] \in {"sync", "refresh", "remediation"}
    /\ DOMAIN Loops \intersect Clients = {}
    /\ NamedSets \subseteq SUBSET Datasets
    /\ Venue \in [Datasets -> SUBSET Nat]
    /\ StartTime \in Nat /\ EndTime \in Nat /\ StartTime <= EndTime /\ Retention <= StartTime
    /\ StoredRows \subseteq [Datasets -> SUBSET (0..EndTime)]
    /\ MaxRequests \in Nat /\ MaxTroubles \in Nat

VARIABLES
    now,     \* the clock
    rows,    \* [data set -> the times with a row]
    server,  \* the API process: up, stopping (its loops are gone), down
    loops,   \* [loop -> sleeping, waiting (for its thread), ended]
    work,    \* [worker -> what its thread is doing]
    row,     \* [worker -> status of the remediation row it last inserted]
    orphans, \* history: workers whose row was left by a death or a failed write
    requests, troubles

vars == <<now, rows, server, loops, work, row, orphans, requests, troubles>>
boundVars == <<requests, troubles>>

NoWork == [job |-> "none", pc |-> "none", began |-> 0, plans |-> [d \in Datasets |-> Absent],
           asked |-> {}, calls |-> <<>>, fetched |-> <<>>]

\* The rows the venue gives for a data set at a time: a retained series only as
\* far back as it is kept.
Available(d, t) ==
    {s \in Venue[d] : s <= t /\ (d \in RetainedDatasets => s >= t - Retention)}
VenueNow == [d \in Datasets |-> Available(d, now)]

Pcs == {"none", "insert", "fetch", "commit", "plan", "raise", "returned", "raised"}
RowStates == {"none", "running", "succeeded", "failed_terminal"}

TypeOK ==
    /\ now \in StartTime..EndTime
    /\ \A d \in Datasets : rows[d] \subseteq 0..EndTime
    /\ server \in {"up", "stopping", "down"}
    /\ loops \in [DOMAIN Loops -> {"sleeping", "waiting", "ended"}]
    /\ \A w \in Workers :
           /\ work[w].job \in {"none", "sync", "refresh", "remediation"}
           /\ work[w].pc \in Pcs
           /\ work[w].began \in 0..EndTime
           /\ work[w].asked \subseteq Datasets
    /\ row \in [Workers -> RowStates]
    /\ orphans \subseteq Workers
    /\ requests \in 0..MaxRequests /\ troubles \in 0..MaxTroubles

Init ==
    /\ now = StartTime
    /\ rows \in StoredRows
    /\ server = "up"
    /\ loops = [l \in DOMAIN Loops |-> "sleeping"]
    /\ work = [w \in Workers |-> NoWork]
    /\ row = [w \in Workers |-> "none"]
    /\ orphans = {}
    /\ requests = 0 /\ troubles = 0

-----------------------------------------------------------------------------
(* The scheduler and the requests *)

Started(kind, calls, asked) ==
    [NoWork EXCEPT !.job = kind, !.pc = IF kind = "remediation" THEN "plan" ELSE "fetch",
                   !.began = now, !.calls = calls, !.asked = asked]

\* phase3_schedule_plan and phase4_schedule_plan: the refresh takes everything,
\* the retained series from their recent history; the remediation every set.
Definition(kind) ==
    CASE kind = "sync"        -> Started(kind, <<Call(<<>>, {}, Absent, FALSE)>>, {})
      [] kind = "refresh"     -> Started(kind, <<Call([d \in FundingDatasets |-> Absent],
                                                      PriceDatasets \union RetainedDatasets,
                                                      Absent, TRUE)>>, {})
      [] kind = "remediation" -> Started(kind, <<>>, Datasets)

\* _run_definition_loop: the sleep ends (when the trigger says so, which the
\* clock decides) and the runner starts in a thread.
LoopWakes(l) ==
    /\ server = "up" /\ loops[l] = "sleeping"
    /\ work[l] = NoWork
    /\ loops' = [loops EXCEPT ![l] = "waiting"]
    /\ work' = [work EXCEPT ![l] = Definition(Loops[l])]
    /\ UNCHANGED <<now, rows, server, row, orphans, boundVars>>

\* Slip: the exception of a job ends its loop.
LoopSleeps_Returned(l) ==
    /\ loops[l] = "waiting"
    /\ work[l].pc = "returned"
    /\ loops' = [loops EXCEPT ![l] = "sleeping"]
    /\ work' = [work EXCEPT ![l] = NoWork]
    /\ UNCHANGED <<now, rows, server, row, orphans, boundVars>>

\* The thread is done: the loop sleeps again, after an exception too.
LoopSleeps(l) ==
    /\ loops[l] = "waiting"
    /\ work[l].pc \in {"returned", "raised"}
    /\ loops' = [loops EXCEPT ![l] = "sleeping"]
    /\ work' = [work EXCEPT ![l] = NoWork]
    /\ UNCHANGED <<now, rows, server, row, orphans, boundVars>>

\* trigger_market_snapshot_refresh (of the present values by default) and
\* trigger_market_snapshot_remediation (of all sets, or of those it names).
ClientAsks(c) ==
    /\ server = "up"
    /\ work[c] = NoWork
    /\ requests < MaxRequests
    /\ requests' = requests + 1
    /\ \/ \E recent \in BOOLEAN :
              work' = [work EXCEPT ![c] = Started("refresh",
                           <<Call([d \in FundingDatasets |-> Absent],
                                  PriceDatasets \union InterestDatasets, Absent, recent)>>, {})]
       \/ \E named \in NamedSets :
              work' = [work EXCEPT ![c] = Started("remediation", <<>>, RequestedDatasets(named))]
    /\ UNCHANGED <<now, rows, server, loops, row, orphans, troubles>>

\* A thread that no loop waits for.
ThreadEnds(w) ==
    /\ work[w].pc \in {"returned", "raised"}
    /\ w \in DOMAIN Loops => loops[w] = "ended"
    /\ work' = [work EXCEPT ![w] = NoWork]
    /\ UNCHANGED <<now, rows, server, loops, row, orphans, boundVars>>

\* BuiltinSchedulerHandle.stop cancels the tasks and waits for them, not for
\* the threads that asyncio.to_thread started; the process ends after those.
StopScheduler ==
    /\ server = "up"
    /\ troubles < MaxTroubles
    /\ troubles' = troubles + 1
    /\ server' = "stopping"
    /\ loops' = [l \in DOMAIN Loops |-> "ended"]
    /\ UNCHANGED <<now, rows, work, row, orphans, requests>>

ProcessExits ==
    /\ server = "stopping"
    /\ \A w \in Workers : work[w] = NoWork
    /\ server' = "down"
    /\ UNCHANGED <<now, rows, loops, work, row, orphans, boundVars>>

\* start_builtin_scheduler.
StartScheduler ==
    /\ server = "down"
    /\ server' = "up"
    /\ loops' = [l \in DOMAIN Loops |-> "sleeping"]
    /\ UNCHANGED <<now, rows, work, row, orphans, boundVars>>

-----------------------------------------------------------------------------
(* The jobs *)

\* build_market_snapshot_remediation_plan reads one data set after the other.
PlanDataset(w) ==
    LET left == {d \in work[w].asked : work[w].plans[d] = Absent}
        d    == CHOOSE x \in left : TRUE
    IN  /\ work[w].pc = "plan"
        /\ work' = [work EXCEPT ![w].plans[d] = PlanFor(d, rows[d], work[w].began),
                                ![w].pc = IF Cardinality(left) > 1 THEN "plan" ELSE "insert"]
        /\ UNCHANGED <<now, rows, server, loops, row, orphans, boundVars>>

\* The row of the job, in a transaction of its own, before the calls.
InsertRow(w) ==
    /\ work[w].pc = "insert"
    /\ row' = [row EXCEPT ![w] = "running"]
    /\ orphans' = orphans \ {w}
    /\ work' = [work EXCEPT ![w].calls = CallsFor(work[w].plans), ![w].pc = "fetch"]
    /\ UNCHANGED <<now, rows, server, loops, boundVars>>

\* One call of run_market_snapshot_refresh, or the sync, is one transaction:
\* the requests to the venue, then the upserts, its row and the commit.
Fetch(w) ==
    /\ work[w].pc = "fetch" /\ work[w].calls # <<>>
    /\ work' = [work EXCEPT ![w].pc = "commit",
                   ![w].fetched = CallRows(Head(work[w].calls), VenueNow, work[w].began, now)]
    /\ UNCHANGED <<now, rows, server, loops, row, orphans, boundVars>>

Commit(w) ==
    /\ work[w].pc = "commit"
    /\ rows' = [d \in Datasets |-> rows[d] \union work[w].fetched[d]]
    /\ work' = [work EXCEPT ![w].fetched = <<>>,
                            ![w].calls = Tail(@),
                            ![w].pc = IF work[w].job = "remediation" THEN "fetch" ELSE "returned"]
    /\ UNCHANGED <<now, server, loops, row, orphans, boundVars>>

FinishRow(w) ==
    /\ work[w].pc = "fetch" /\ work[w].calls = <<>>
    /\ row' = [row EXCEPT ![w] = "succeeded"]
    /\ work' = [work EXCEPT ![w].pc = "returned"]
    /\ UNCHANGED <<now, rows, server, loops, orphans, boundVars>>

\* Slip: a failing call leaves the job without the row of the failure.
Raises_Bare(w) ==
    /\ work[w].pc \in {"plan", "insert", "fetch", "commit", "raise"}
    /\ troubles < MaxTroubles
    /\ troubles' = troubles + 1
    /\ work' = [work EXCEPT ![w].fetched = <<>>, ![w].pc = "raised"]
    /\ orphans' = IF work[w].pc = "raise" THEN orphans \union {w} ELSE orphans
    /\ UNCHANGED <<now, rows, server, loops, row, requests>>

\* An exception: the open transaction is rolled back.  In the remediation's try
\* block it leads to the row of the failure, elsewhere it leaves the job.
Raises(w) ==
    /\ work[w].pc \in {"plan", "insert", "fetch", "commit", "raise"}
    /\ troubles < MaxTroubles
    /\ troubles' = troubles + 1
    /\ work' = [work EXCEPT ![w].fetched = <<>>,
                            ![w].pc = IF /\ work[w].job = "remediation"
                                         /\ work[w].pc \in {"fetch", "commit"}
                                      THEN "raise" ELSE "raised"]
    \* the write of the failure may fail as well
    /\ orphans' = IF work[w].pc = "raise" THEN orphans \union {w} ELSE orphans
    /\ UNCHANGED <<now, rows, server, loops, row, requests>>

\* Slip: the job's code for the status is another.
FailRow_Failed(w) ==
    /\ work[w].pc = "raise"
    /\ row' = [row EXCEPT ![w] = "failed"]
    /\ work' = [work EXCEPT ![w].pc = "raised"]
    /\ UNCHANGED <<now, rows, server, loops, orphans, boundVars>>

FailRow(w) ==
    /\ work[w].pc = "raise"
    /\ row' = [row EXCEPT ![w] = "failed_terminal"]
    /\ work' = [work EXCEPT ![w].pc = "raised"]
    /\ UNCHANGED <<now, rows, server, loops, orphans, boundVars>>

-----------------------------------------------------------------------------
\* The process dies with its loops and threads.
Dies ==
    /\ server # "down"
    /\ troubles < MaxTroubles
    /\ troubles' = troubles + 1
    /\ server' = "down"
    /\ loops' = [l \in DOMAIN Loops |-> "ended"]
    /\ work' = [w \in Workers |-> NoWork]
    /\ orphans' = orphans \union {w \in Workers : row[w] = "running"}
    /\ UNCHANGED <<now, rows, row, requests>>

Tick ==
    /\ now < EndTime
    /\ now' = now + 1
    /\ UNCHANGED <<rows, server, loops, work, row, orphans, boundVars>>

\* What the event loop and a thread do for a worker of their own accord.
Step(w) ==
    \/ PlanDataset(w) \/ InsertRow(w) \/ Fetch(w) \/ Commit(w)
    \/ FinishRow(w) \/ FailRow(w) \/ ThreadEnds(w)
    \/ w \in DOMAIN Loops /\ (LoopWakes(w) \/ LoopSleeps(w))

Next ==
    \/ \E w \in Workers : Step(w) \/ Raises(w)
    \/ \E c \in Clients : ClientAsks(c)
    \/ StopScheduler \/ ProcessExits \/ StartScheduler
    \/ Dies
    \/ Tick

\* The event loop and the thread pool run what is ready, one step of a worker
\* after the other; the clock, the users and the troubles owe nothing.
Fairness == \A w \in Workers : WF_vars(Step(w))

Spec == Init /\ [][Next]_vars /\ Fairness

-----------------------------------------------------------------------------
(* Properties *)

\* A remediation that succeeds leaves no hole it could have filled: each
\* retained series it was asked for has every period that the venue still had,
\* back to the floor, and the other sets have every row of their planned
\* windows.  What another job or an earlier call did in between does not matter
\* (remediate_market_snapshots.py:165-342, 500-595).
RemediationLeavesNoHoles ==
    [][\A w \in Workers : FinishRow(w) =>
           \A d \in work[w].asked :
               LET had == Available(d, work[w].began) \intersect Available(d, now)
               IN  IF d \in RetainedDatasets THEN {t \in had : t % Period = 0} \subseteq rows[d]
                   ELSE work[w].plans[d].required =>
                            Within(had, Window(work[w].plans[d].lo, work[w].plans[d].hi))
                                \subseteq rows[d]]_vars

\* The row of a remediation says "running" only while a thread works on it,
\* unless the process died or the write of its end failed.
RunningRowsAreWorkedOn ==
    \A w \in Workers : row[w] = "running" =>
        \/ w \in orphans
        \/ work[w].job = "remediation" /\ work[w].pc \in {"fetch", "commit", "raise"}

\* The remediation and the quality checks judge the same rows by code of their
\* own and agree: a retained series needs a plan exactly if the integrity check
\* counts a period missing, a break of continuity is a hole of more than one
\* period in it, and a price needs one exactly if it is not fresh
\* (remediate_market_snapshots.py:165-235, 343-417; data_quality.py:757-1188,
\* 1313-1412, 1615-1718).
RetainedSpec == [step |-> Period, alignedOnly |-> TRUE, retention |-> Retention]
AuditRows(d) == [t \in rows[d] |-> Row(t, t, FALSE)]

PlansAgreeWithAudits ==
    /\ \A d \in RetainedDatasets :
           LET report == DatasetReport(AuditRows(d), RetainedSpec, Window(0, now), now, Day)
           IN  /\ PlanFor(d, rows[d], now).required <=> report.missing > 0
               /\ ContinuityStatus(AuditRows(d), RetainedSpec, Window(0, now), Day) = "fail" <=>
                      \E s \in report.profile.segments : s.count > 1
    /\ \A d \in PriceDatasets :
           PlanFor(d, rows[d], now).required <=>
               FreshnessStatus(AuditRows(d), now, PriceSla) = "fail"

\* While the server stays up, a loop whose job raised sleeps and runs again as
\* one whose job returned does (builtin_scheduler.py:127-138).
LoopsGoOn ==
    \A l \in DOMAIN Loops :
        loops[l] = "waiting" ~> loops[l] = "sleeping" \/ server # "up"

\* While the server stays up, there are times again and again at which no period
\* is missing that the venue has at that moment, whatever a run found when it
\* planned and whatever it was overtaken by.
PeriodsAreStored ==
    []<>(\/ server # "up"
         \/ \A d \in RetainedDatasets : Available(d, now) \subseteq rows[d])
=============================================================================
