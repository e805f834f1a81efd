---------------------------- MODULE CoverageChecks ----------------------------
(***************************************************************************)
(* What the loops over times of IntervalCoverage, RestPagination and       *)
(* DataQuality compute, against definitions, for all small inputs.         *)
(***************************************************************************)
EXTENDS DataQuality, RestPagination

LOCAL Grid == {0, 2, 4, 6, 8}
LOCAL Ticks == 0..4

\* The segments of run_bar_gap_checks are the maximal runs of missing points.
ASSUME SegmentsAreMaximalRuns ==
    \A missing \in SUBSET Grid :
        WindowsOf(ToSet(MissingSegments(missing, 2))) = MaximalRuns(missing, 2)

\* The three counts of a profile add up to the missing points of its window.
ASSUME ProfileCountsMissing ==
    \A times \in SUBSET Grid : \A lo, hi \in Grid :
        LET w == Window(lo, hi)
        IN  MissingCount(Profile(Within(times, w), w, 2)) =
                Cardinality(ExpectedTimes(w, 2) \ times)

\* Whatever the page size, the pages of a window have each of its rows once and
\* in order; klines on the grid follow each other by the interval.
ASSUME PagesAreTheWindow ==
    \A limit \in 1..3 :
        /\ \A venue \in SUBSET Ticks : \A lo, hi \in Ticks :
               LET w == Window(lo, hi)
               IN  /\ FetchFunding(venue, w, limit) = Sorted(Within(venue, w))
                   /\ FetchSeries(venue, w, limit, 1) = Sorted(Within(venue, w))
        /\ \A venue \in SUBSET Grid : \A lo, hi \in Grid :
               LET w == Window(lo, hi)
               IN  FetchPriceKlines(venue, w, limit, 2) = Sorted(Within(venue, w))

\* The duplicate check of the suite fails exactly where the integrity check of
\* a window of everything counts a duplicate.
ASSUME DuplicateChecksAgree ==
    \A keys \in [1..4 -> {1, 2, Absent}] :
        LET rows == [i \in 1..4 |-> Row(i, keys[i], FALSE)]
        IN  DuplicateStatus(rows) = StatusForCount(DuplicateCount(rows))
=============================================================================
