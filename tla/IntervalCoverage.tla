--------------------------- MODULE IntervalCoverage ---------------------------
(***************************************************************************)
(* Times of a series of fixed cadence against a window: alignment, missing *)
(* segments and coverage, as src/src/jobs/data_quality.py computes them.   *)
(* Times and steps are integers in a common tick; a window is closed.      *)
(***************************************************************************)
EXTENDS Integers, FiniteSetsExt, SequencesExt

Window(lo, hi) == [lo |-> lo, hi |-> hi]

Within(times, w) == {t \in times : w.lo <= t /\ t <= w.hi}

\* The SQL of an overlap: gap_start <= end and gap_end >= start.
Overlaps(a, b) == a.lo <= b.hi /\ a.hi >= b.lo

FloorTo(t, step) == t - (t % step)
CeilTo(t, step) == IF t % step = 0 THEN t ELSE FloorTo(t, step) + step
AlignWindow(w, step) == Window(CeilTo(w.lo, step), FloorTo(w.hi, step))

ExpectedPoints(w, step) ==
    IF w.hi < w.lo THEN 0 ELSE (w.hi - w.lo) \div step + 1

\* The points that a loop from the window's start in steps visits.
ExpectedTimes(w, step) == {t \in w.lo..w.hi : (t - w.lo) % step = 0}

\* sorted(): of times, and of windows by their start and then their end.
Sorted(times) ==
    [i \in 1..Cardinality(times) |->
        CHOOSE t \in times : Cardinality({u \in times : u < t}) = i - 1]
SortedWindows(windows) ==
    [i \in 1..Cardinality(windows) |->
        CHOOSE w \in windows :
            Cardinality({v \in windows : v.lo < w.lo \/ (v.lo = w.lo /\ v.hi < w.hi)}) = i - 1]

\* The loop over sorted missing times of run_bar_gap_checks: the last segment
\* grows while the next time follows it at one step, else a new one begins.
MissingSegments(missing, step) ==
    FoldLeft(LAMBDA segments, t :
                 IF segments # <<>> /\ t = Last(segments).hi + step
                 THEN Append(Front(segments),
                             [Last(segments) EXCEPT !.hi = t, !.count = @ + 1])
                 ELSE Append(segments, [lo |-> t, hi |-> t, count |-> 1]),
             <<>>, Sorted(missing))

\* Neighbours in the sorted times: zip(timestamps, timestamps[1:]).
Neighbours(times) ==
    {p \in times \X times : p[1] < p[2] /\ ~ \E t \in times : p[1] < t /\ t < p[2]}

\* Slip: a hole of one point is none.
InternalSegments_Wide(times, step) ==
    {[lo |-> p[1] + step, hi |-> p[2] - step, count |-> (p[2] - p[1]) \div step - 1] :
        p \in {q \in Neighbours(times) : (q[2] - q[1]) \div step > 2}}

\* _profile_interval_timestamps: head, inside and tail of a window are counted
\* apart, and only the inside makes gap segments.
InternalSegments(times, step) ==
    {[lo |-> p[1] + step, hi |-> p[2] - step, count |-> (p[2] - p[1]) \div step - 1] :
        p \in {q \in Neighbours(times) : (q[2] - q[1]) \div step > 1}}

Profile(times, w, step) ==
    LET inside == InternalSegments(times, step)
    IN  IF w.hi < w.lo THEN [shortfall |-> 0, internal |-> 0, tail |-> 0, segments |-> {}]
        ELSE IF times = {}
        THEN [shortfall |-> ExpectedPoints(w, step), internal |-> 0, tail |-> 0, segments |-> {}]
        ELSE [shortfall |-> IF Min(times) > w.lo THEN (Min(times) - w.lo) \div step ELSE 0,
              internal  |-> MapThenSumSet(LAMBDA s : s.count, inside),
              tail      |-> IF Max(times) < w.hi THEN (w.hi - Max(times)) \div step ELSE 0,
              segments  |-> inside]

MissingCount(profile) == profile.shortfall + profile.internal + profile.tail

\* Definitions to compare with: the maximal runs of a set of points of a grid.
IsRun(lo, hi, points, step) ==
    /\ {lo, hi} \subseteq points
    /\ lo <= hi
    /\ (hi - lo) % step = 0
    /\ ExpectedTimes(Window(lo, hi), step) \subseteq points
IsMaximalRun(lo, hi, points, step) ==
    /\ IsRun(lo, hi, points, step)
    /\ lo - step \notin points
    /\ hi + step \notin points
WindowsOf(segments) == {Window(s.lo, s.hi) : s \in segments}
MaximalRuns(points, step) ==
    {r \in {Window(a, b) : a, b \in points} : IsMaximalRun(r.lo, r.hi, points, step)}
=============================================================================
