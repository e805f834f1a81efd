---------------------------- MODULE SnapshotPlans ----------------------------
(***************************************************************************)
(* What the snapshot jobs decide to fetch, from what is stored:            *)
(* src/src/jobs/remediate_market_snapshots.py and the windows of           *)
(* src/src/jobs/refresh_market_snapshots.py.                               *)
(***************************************************************************)
EXTENDS DataQuality, RestPagination

CONSTANTS
    FundingDatasets,  \* funding_rates: one row per settlement
    PriceDatasets,    \* mark_prices, index_prices: one row per minute
    InterestDatasets, \* open_interest: one row per period, kept for a while
    RatioDatasets,    \* the four sentiment ratios: likewise
    Period,           \* ticks of open_interest_period and sentiment_ratio_period
    Day,              \* ticks of a day
    Retention,        \* ticks for which the venue keeps a retained series
    PriceSla,         \* MARK_PRICE_FRESHNESS_SLA
    FundingSla,       \* FUNDING_FRESHNESS_SLA
    PlanLookback,     \* lookback_hours
    RecentLookback,   \* retention_history_lookback_minutes
    RestLimit         \* rows per page

RetainedDatasets == InterestDatasets \union RatioDatasets
Datasets == FundingDatasets \union PriceDatasets \union RetainedDatasets

\* The reasons that a plan gives.
PlanReasons == {"fresh", "missing", "stale", "coverage_shortfall", "continuity_gap",
                "tail_shortfall"}

ASSUME PlanConstantsAssumption ==
    /\ {Period, Day, RestLimit} \subseteq Nat \ {0}
    /\ {Retention, PriceSla, FundingSla, PlanLookback, RecentLookback} \subseteq Nat
    /\ Day % Period = 0
    /\ IsFiniteSet(Datasets)
    /\ FundingDatasets \intersect (PriceDatasets \union RetainedDatasets) = {}
    /\ PriceDatasets \intersect RetainedDatasets = {}
    /\ InterestDatasets \intersect RatioDatasets = {}
    /\ Absent \notin Int /\ Absent \notin [lo : Int, hi : Int]
    /\ Absent \notin [required : BOOLEAN, reason : PlanReasons,
                      lo : Int \union {Absent}, hi : Int \union {Absent}]

\* _normalize_datasets: all of them when none is named; an unknown one raises.
RequestedDatasets(named) == IF named = {} THEN Datasets ELSE named

FreshnessSla(d) == IF d \in FundingDatasets THEN FundingSla ELSE PriceSla

NoPlan == [required |-> FALSE, reason |-> "fresh", lo |-> Absent, hi |-> Absent]
Plan(reason, lo, hi) == [required |-> TRUE, reason |-> reason, lo |-> lo, hi |-> hi]

\* Series that the venue does not forget: only the latest row is looked at.
StalePlan(d, times, now) ==
    LET lookbackStart == now - PlanLookback
    IN  IF times = {} THEN Plan("missing", lookbackStart, now)
        ELSE IF now - Max(times) > FreshnessSla(d)
        THEN Plan("stale", IF Max(times) > lookbackStart THEN Max(times) ELSE lookbackStart, now)
        ELSE NoPlan

\* _open_interest_availability_floor, _sentiment_ratio_availability_floor.
RetentionFloor(now) == FloorTo(now - Retention, Day)

\* Slip: holes between rows are not looked for.
RetainedPlan_NoHole(times, now) ==
    LET floor == RetentionFloor(now)
        safe  == {t \in Within(times, Window(floor, now)) : t % Period = 0}
    IN  IF safe = {} THEN Plan("missing", floor, now)
        ELSE IF floor < Min(safe) THEN Plan("coverage_shortfall", floor, now)
        ELSE IF Max(safe) + Period <= now
        THEN Plan("tail_shortfall",
                  IF Max(safe) - Day > floor THEN Max(safe) - Day ELSE floor, now)
        ELSE NoPlan

\* _retention_limited_plan: rows on period boundaries from the floor on against
\* the periods up to now; the first of a missing head, a hole and a missing
\* tail decides (what Profile of IntervalCoverage counts as its three parts).
RetainedPlan(times, now) ==
    LET floor   == RetentionFloor(now)
        safe    == {t \in Within(times, Window(floor, now)) : t % Period = 0}
        missing == ExpectedTimes(Window(floor, FloorTo(now, Period)), Period) \ safe
    IN  IF missing = {} THEN NoPlan
        ELSE IF safe = {} THEN Plan("missing", floor, now)
        ELSE IF floor \in missing THEN Plan("coverage_shortfall", floor, now)
        ELSE IF \E m \in missing : m < Max(safe)
        THEN Plan("continuity_gap", Min(missing), now)
        ELSE Plan("tail_shortfall",
                  IF Max(safe) - Day > floor THEN Max(safe) - Day ELSE floor, now)

\* build_market_snapshot_remediation_plan for one data type.
PlanFor(d, times, now) ==
    IF d \in RetainedDatasets THEN RetainedPlan(times, now) ELSE StalePlan(d, times, now)

-----------------------------------------------------------------------------
(* Calls of run_market_snapshot_refresh *)

\* What a call includes: funding by its own window, the other data sets by the
\* history window; Absent windows ask for the present.
Call(funding, others, window, recent) ==
    [funding |-> funding, others |-> others, window |-> window, recent |-> recent]

\* Slip: a start at the end of a chunk gets none.
ChunkWindows_Short(lo, hi, size) ==
    [i \in 1..(IF lo > hi THEN 0 ELSE (hi - lo) \div size) |->
        LET from == lo + (i - 1) * size
        IN  Window(from, IF from + size - 1 < hi THEN from + size - 1 ELSE hi)]

\* _build_day_windows: from the start in chunks, the last one cut at the end; a
\* chunk ends one tick (a millisecond) before the next.
ChunkWindows(lo, hi, size) ==
    [i \in 1..(IF lo > hi THEN 0 ELSE (hi - lo) \div size + 1) |->
        LET from == lo + (i - 1) * size
        IN  Window(from, IF from + size - 1 < hi THEN from + size - 1 ELSE hi)]
DayWindows(lo, hi) == ChunkWindows(lo, hi, Day)

Required(plans, ds) == {d \in ds : plans[d] # Absent /\ plans[d].required}
Earliest(plans, ds) == Min({plans[d].lo : d \in ds})
Latest(plans, ds) == Max({plans[d].hi : d \in ds})

\* One call for the funding and the prices that need one, over the prices'
\* common window.
StandardCalls(plans) ==
    LET funding == Required(plans, FundingDatasets)
        prices  == Required(plans, PriceDatasets)
    IN  IF funding \union prices = {} THEN <<>>
        ELSE <<Call([d \in funding |-> Window(plans[d].lo, plans[d].hi)], prices,
                    IF prices = {} THEN Absent
                    ELSE Window(Earliest(plans, prices), Latest(plans, prices)), FALSE)>>

\* _run_open_interest_remediation_window and
\* _run_sentiment_ratio_remediation_window: a call per day of the common window
\* for all that need one.
ChunkCalls(plans, ds) ==
    LET needed  == Required(plans, ds)
        windows == DayWindows(Earliest(plans, needed), Latest(plans, needed))
    IN  IF needed = {} THEN <<>>
        ELSE [i \in DOMAIN windows |-> Call(<<>>, needed, windows[i], FALSE)]

CallsFor(plans) ==
    StandardCalls(plans) \o ChunkCalls(plans, InterestDatasets) \o ChunkCalls(plans, RatioDatasets)

\* _recent_retention_history_window.
RecentWindow(now) == Window(FloorTo(now, Period) - RecentLookback, FloorTo(now, Period))

-----------------------------------------------------------------------------
(* What a call fetches when the venue has `venue` for a data set: the rows of *)
(* its window, which is what the paged fetches of RestPagination amount to    *)
(* (CoverageChecks has PagesAreTheWindow)                                      *)

\* fetch_funding_rate_history: without a window, the newest rows (external).
NewestRows(venue) == {t \in venue : Cardinality({u \in venue : u > t}) < RestLimit}
FundingRows(venue, w) == IF w = Absent THEN NewestRows(venue) ELSE Within(venue, w)

\* Neither is set: a single row of the moment (a price at the venue's time, the
\* open interest at observed_at), or the last hour of a retained series; a ratio
\* has no row of the moment.
PresentRows(d, venue, recent, observedAt, now) ==
    IF d \in RetainedDatasets /\ recent
    THEN Within(venue, RecentWindow(observedAt))
    ELSE IF d \in RatioDatasets THEN {}
    ELSE IF d \in PriceDatasets THEN {now} ELSE {observedAt}

\* The rows of each data set that a call upserts.
CallRows(call, venue, observedAt, now) ==
    [d \in Datasets |->
        IF d \in DOMAIN call.funding THEN FundingRows(venue[d], call.funding[d])
        ELSE IF d \notin call.others THEN {}
        ELSE IF call.window # Absent THEN Within(venue[d], call.window)
        ELSE PresentRows(d, venue[d], call.recent, observedAt, now)]
=============================================================================
