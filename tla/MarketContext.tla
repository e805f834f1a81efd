----------------------------- MODULE MarketContext -----------------------------
(***************************************************************************)
(* What a strategy sees of a perpetual's market beside the bars: the       *)
(* series that are read before a run and the cursor that follows the bars  *)
(* through them (BacktestPerpContextLoader and BacktestPerpContextCursor,  *)
(* src/src/backtest/data.py), with bars_perp_breakout_context_v1.          *)
(*                                                                         *)
(* A table is a function from the times of its rows to their values.  The  *)
(* minutes to the next funding, a function of the time alone, are left out.*)
(***************************************************************************)
EXTENDS IntervalCoverage, Quantities

CONSTANT ContextWindow   \* BREAKOUT_CONTEXT_WINDOW

ASSUME ContextAssumption == ContextWindow \in Nat

\* PERP_CONTEXT_DATASET_SPECS; the sentiment ratios are treated as the funding
\* rate is.
ContextDatasets == {"funding_rate", "open_interest", "mark_price", "index_price"}

\* Slip: only the rows of the window.
LoadedTimes_Window(times, from, to) == Within(times, Window(from, to))

\* _load_series: the rows of the window and the last one before it.
LoadedTimes(times, from, to) ==
    LET before == {t \in times : t < from}
    IN  Within(times, Window(from, to)) \union (IF before = {} THEN {} ELSE {Max(before)})
LoadedSeries(table, from, to) ==
    LET times == Sorted(LoadedTimes(DOMAIN table, from, to))
    IN  [i \in DOMAIN times |-> [at |-> times[i], value |-> table[times[i]]]]

\* The loop of context_at: how many rows have been passed.
Passed(series, position, t) ==
    LET From[i \in position..Len(series)] ==
            IF i < Len(series) /\ series[i + 1].at <= t THEN From[i + 1] ELSE i
    IN  From[position]

\* _latest_row_before_or_at stops at the first later row.
LatestRow(series, t) ==
    LET later == {i \in DOMAIN series : series[i].at > t}
        last  == IF later = {} THEN Len(series) ELSE Min(later) - 1
    IN  IF last = 0 THEN <<>> ELSE <<series[last]>>

\* _percentage_change_over_window, as a ratio; none with an unknown or zero base.
ChangeBetween(prior, latest) ==
    IF prior = <<>> \/ latest = <<>> \/ (prior # <<>> /\ prior[1].value = 0) THEN <<>>
    ELSE <<[num |-> latest[1].value - prior[1].value, den |-> prior[1].value]>>
ChangeOverWindow(series, t) ==
    ChangeBetween(LatestRow(series, t - ContextWindow), LatestRow(series, t))

\* _build_derived_breakout_fields: the mark price, or else the index price.
PriceChange(mark, index) == IF mark # <<>> THEN mark ELSE index
WeakPricePush(interest, price) ==
    /\ interest # <<>> /\ price # <<>>
    /\ interest[1].num * price[1].den > Abs(price[1].num) * interest[1].den

\* context_at, once the positions have moved; none before the first row.
NoContext == [values |-> [d \in ContextDatasets |-> <<>>], interest |-> <<>>, price |-> <<>>,
              weak |-> FALSE]
ContextAt(series, passed, t) ==
    LET interest == ChangeOverWindow(series["open_interest"], t)
        price    == PriceChange(ChangeOverWindow(series["mark_price"], t),
                                ChangeOverWindow(series["index_price"], t))
    IN  IF \A d \in ContextDatasets : passed[d] = 0 THEN NoContext
        ELSE [values |-> [d \in ContextDatasets |->
                             IF passed[d] = 0 THEN <<>> ELSE <<series[d][passed[d]]>>],
              interest |-> interest, price |-> price, weak |-> WeakPricePush(interest, price)]

\* Definitions to compare with, over the whole table.
LatestIn(table, t) ==
    LET past == {u \in DOMAIN table : u <= t}
    IN  IF past = {} THEN <<>> ELSE <<[at |-> Max(past), value |-> table[Max(past)]]>>
ChangeIn(table, t) == ChangeBetween(LatestIn(table, t - ContextWindow), LatestIn(table, t))
=============================================================================
