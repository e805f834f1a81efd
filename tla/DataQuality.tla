----------------------------- MODULE DataQuality -----------------------------
(***************************************************************************)
(* The checks of src/src/jobs/data_quality.py over the rows of a dataset.  *)
(* A row is its time, its duplicate key and whether its columns break the  *)
(* dataset's corrupt_where; a dataset is a function on the ids of its      *)
(* rows, for a key that is no primary key may come twice.                  *)
(***************************************************************************)
EXTENDS IntervalCoverage

CONSTANT Absent   \* no time, no interval, no floor, no period

Row(ts, key, bad) == [ts |-> ts, key |-> key, bad |-> bad]
RowTimes(rows) == {rows[i].ts : i \in DOMAIN rows}
RowsIn(rows, w) ==
    Restrict(rows, {i \in DOMAIN rows : w.lo <= rows[i].ts /\ rows[i].ts <= w.hi})

\* _query_corrupt_profile and _query_future_row_profile: rows of the window that
\* break corrupt_where or are after observed_at, and rows after it at any time.
CorruptRows(rows, observedAt) == {i \in DOMAIN rows : rows[i].bad \/ rows[i].ts > observedAt}
FutureRows(rows, observedAt) == {i \in DOMAIN rows : rows[i].ts > observedAt}

\* INTEGRITY_DATASET_SPECS by what the checks tell apart: the interval, whether
\* only rows on its boundaries are profiled, and whether the venue forgets rows
\* older than a retention (OPEN_INTEREST_RETENTION_DAYS and its like).
DatasetSpec == [step : Int, alignedOnly : BOOLEAN, retention : Int] \union
               [step : {Absent}, alignedOnly : {FALSE}, retention : {Absent}]

DatasetWindow(spec, w) == IF spec.step = Absent THEN w ELSE AlignWindow(w, spec.step)

\* _dataset_availability_floor: the start of the day, retention before now.
AvailabilityFloor(spec, observedAt, day) ==
    IF spec.retention = Absent THEN Absent ELSE FloorTo(observedAt - spec.retention, day)

StatusForCount(count) == IF count > 0 THEN "fail" ELSE "pass"
WarningForCount(count) == IF count > 0 THEN "warning" ELSE "pass"
WorstStatus(statuses) ==
    IF "fail" \in statuses THEN "fail"
    ELSE IF "warning" \in statuses THEN "warning" ELSE "pass"

\* _query_duplicate_profile: rows beyond the first of each key in the window.
\* An empty source message id is no key (Absent here).
DuplicateCount(rows) ==
    LET keyed == {i \in DOMAIN rows : rows[i].key # Absent}
    IN  Cardinality(keyed) - Cardinality({rows[i].key : i \in keyed})

\* The times a profile may rely on: on a boundary where that matters, not
\* before the venue's memory and not after the observation.
SafeTimes(rows, spec, from, observedAt) ==
    {t \in RowTimes(rows) : /\ spec.alignedOnly => t % spec.step = 0
                            /\ from <= t
                            /\ t <= observedAt}

\* One dataset of validate_dataset_integrity.  A row after observed_at and in
\* the window counts twice in `corrupt`: as corrupt and as future.
DatasetReport(rows, spec, window, observedAt, day) ==
    LET w       == DatasetWindow(spec, window)
        seen    == RowsIn(rows, w)
        floor   == AvailabilityFloor(spec, observedAt, day)
        from    == IF floor = Absent \/ floor < w.lo THEN w.lo ELSE floor
        profile == IF spec.step = Absent
                   THEN [shortfall |-> 0, internal |-> 0, tail |-> 0, segments |-> {}]
                   ELSE Profile(SafeTimes(seen, spec, from, observedAt),
                                Window(from, w.hi), spec.step)
        missing == IF spec.step = Absent
                   THEN (IF DOMAIN seen = {} THEN 1 ELSE 0) ELSE MissingCount(profile)
        future  == Cardinality(FutureRows(rows, observedAt))
        corrupt == Cardinality(CorruptRows(seen, observedAt)) + future
        gaps    == Cardinality(profile.segments)
        duplicates == DuplicateCount(seen)
    IN  [missing |-> missing, profile |-> profile, duplicates |-> duplicates,
         corrupt |-> corrupt, future |-> future,
         status |-> WorstStatus(
             (IF spec.step = Absent THEN {WarningForCount(missing)}
              ELSE {StatusForCount(gaps), WarningForCount(profile.shortfall),
                    WarningForCount(profile.tail)})
             \union {StatusForCount(duplicates), StatusForCount(corrupt)})]

\* run_freshness_checks: the latest row, whatever its time, against the SLA.
FreshnessStatus(rows, now, sla) ==
    IF DOMAIN rows # {} /\ now - Max(RowTimes(rows)) <= sla THEN "pass" ELSE "fail"

\* run_duplicate_checks: keys, over all time, that come more than once.
DuplicateStatus(rows) ==
    LET again == {i \in DOMAIN rows :
                     /\ rows[i].key # Absent
                     /\ \E j \in DOMAIN rows \ {i} : rows[j].key = rows[i].key}
    IN  StatusForCount(Cardinality({rows[i].key : i \in again}))

\* run_snapshot_continuity_checks: neighbours more than two intervals apart.
ContinuityBreaks(rows, spec, window, day) ==
    LET w     == DatasetWindow(spec, window)
        floor == AvailabilityFloor(spec, window.hi, day)
        from  == IF floor = Absent \/ floor < w.lo THEN w.lo ELSE floor
        times == {t \in RowTimes(RowsIn(rows, w)) :
                     /\ spec.alignedOnly => t % spec.step = 0
                     /\ floor # Absent => from <= t}
    IN  {p \in Neighbours(times) : p[2] - p[1] > 2 * spec.step}
ContinuityStatus(rows, spec, window, day) ==
    StatusForCount(Cardinality(ContinuityBreaks(rows, spec, window, day)))

\* run_phase4_quality_suite's sum over the four checks of one dataset, and the
\* summary of validate_dataset_integrity: datasets by status.
DatasetsWithStatus(reports, status) == Cardinality({d \in DOMAIN reports : reports[d].status = status})
=============================================================================
