------------------------------ MODULE RunReports ------------------------------
(***************************************************************************)
(* What is computed from the rows of a backtest run: the performance       *)
(* summary, the diagnostics and the breakdown by period                    *)
(* (src/src/backtest/performance.py, diagnostics.py and periods.py).       *)
(*                                                                         *)
(* A drawdown is a ratio, a numerator over a positive denominator.         *)
(***************************************************************************)
EXTENDS Integers, FiniteSetsExt, SequencesExt

-----------------------------------------------------------------------------
(* performance.py *)

NoDrawdown == [num |-> 0, den |-> 1]
NotDeeper(a, b) == a.num * b.den <= b.num * a.den
Deeper(a, b) == IF NotDeeper(a, b) THEN b ELSE a

\* build_performance_point, of a peak that includes the point.
Drawdown(peak, equity) ==
    IF peak > 0 THEN [num |-> peak - equity, den |-> peak] ELSE NoDrawdown

\* summarize_performance of points: the last one, and the deepest drawdown.
SummaryOf(points, initialCash) ==
    IF points = <<>> THEN [finalEquity |-> initialCash, drawdown |-> NoDrawdown]
    ELSE [finalEquity |-> Last(points).equity,
          drawdown |-> FoldLeft(LAMBDA d, p : Deeper(d, p.drawdown),
                                points[1].drawdown, points)]

-----------------------------------------------------------------------------
(* diagnostics.py.  `run` is the row with its counts of the risk summary.  *)

\* _expected_timepoints: the minutes from start_time up to end_time.
ExpectedTimepoints(start, end) == IF end <= start THEN 0 ELSE end - start

MissingTimepoints(series, start, end) ==
    Max({ExpectedTimepoints(start, end) - Len(series), 0})

OrdersWith(orders, status) == {i \in DOMAIN orders : orders[i].status = status}

\* Signals are counted through the orders that name them.
LinkedSignals(orders) == {orders[i].signal : i \in DOMAIN orders}

\* _build_flags, without the ones per block code.
Flags(rows, start, end) ==
    {f \in {"missing_timepoints", "no_signals_generated", "no_fills_generated",
            "expired_orders_present", "risk_blocks_present"} :
        \/ f = "missing_timepoints" /\ MissingTimepoints(rows.series, start, end) > 0
        \/ f = "no_signals_generated" /\ LinkedSignals(rows.orders) = {}
        \/ f = "no_fills_generated" /\ rows.orders # <<>> /\ rows.fills = <<>>
        \/ f = "expired_orders_present" /\ OrdersWith(rows.orders, "expired") # {}
        \/ f = "risk_blocks_present" /\ rows.risk.blocked > 0}

\* _latest_blocked_trace and the anchors made of it: one for the run and one
\* for each code, if a trace row shows the block.
BlockedTraces(traces, code) == {i \in DOMAIN traces : code \in traces[i].blocked}
Anchors(rows, codes) ==
    IF rows.risk.blocked = 0 THEN {}
    ELSE {[code |-> c, step |-> rows.traces[Max(BlockedTraces(rows.traces, c))].step] :
             c \in {d \in codes : BlockedTraces(rows.traces, d) # {}}}

-----------------------------------------------------------------------------
(* periods.py.  `bucket` maps a time to its year, quarter or month.       *)

InBucket(records, bucket, b) == {i \in DOMAIN records : bucket[records[i].at] = b}

\* _build_entry: the local peak starts at the equity that the period starts with.
Entry(points, fills, signals, startEquity) ==
    LET Seen[i \in 0..Len(points)] ==
            IF i = 0 THEN [peak |-> startEquity, drawdown |-> NoDrawdown]
            ELSE LET peak == Max({Seen[i - 1].peak, points[i].equity})
                 IN  [peak |-> peak,
                      drawdown |-> Deeper(Seen[i - 1].drawdown, Drawdown(peak, points[i].equity))]
    IN  [start |-> startEquity, end |-> Last(points).equity, until |-> Last(points).ts,
         drawdown |-> Seen[Len(points)].drawdown,
         fills |-> Cardinality(fills), signals |-> Cardinality(signals)]

\* Slip: every period starts from the initial cash.
PeriodBreakdown_NoCarry(points, fills, signals, initialCash, bucket) ==
    LET starts == {i \in DOMAIN points : i = 1 \/ bucket[points[i].ts] # bucket[points[i - 1].ts]}
        EndOf(i) == Min({j \in starts : j > i} \union {Len(points) + 1}) - 1
        EntryAt(i) ==
            LET b == bucket[points[i].ts]
            IN  Entry(SubSeq(points, i, EndOf(i)), InBucket(fills, bucket, b),
                      InBucket(signals, bucket, b), initialCash)
    IN  [k \in 1..Cardinality(starts) |->
            EntryAt(CHOOSE i \in starts : Cardinality({j \in starts : j < i}) = k - 1)]

\* build_period_breakdown: the loop closes an entry where the bucket changes and
\* starts the next from the equity of the last point before.
PeriodBreakdown(points, fills, signals, initialCash, bucket) ==
    LET starts == {i \in DOMAIN points : i = 1 \/ bucket[points[i].ts] # bucket[points[i - 1].ts]}
        EndOf(i) == Min({j \in starts : j > i} \union {Len(points) + 1}) - 1
        EntryAt(i) ==
            LET b == bucket[points[i].ts]
            IN  Entry(SubSeq(points, i, EndOf(i)), InBucket(fills, bucket, b),
                      InBucket(signals, bucket, b),
                      IF i = 1 THEN initialCash ELSE points[i - 1].equity)
    IN  [k \in 1..Cardinality(starts) |->
            EntryAt(CHOOSE i \in starts : Cardinality({j \in starts : j < i}) = k - 1)]
=============================================================================
