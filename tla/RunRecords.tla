------------------------------ MODULE RunRecords ------------------------------
(***************************************************************************)
(* What a backtest run writes while its bars go by: load_run_and_persist   *)
(* of src/src/backtest/runner.py with the sinks it gives to run_bars, and  *)
(* the rows of src/src/storage/repositories/backtest.py.                   *)
(*                                                                         *)
(* The engine itself is the subject of BacktestEngine; here which pending  *)
(* orders a bar fills and what the strategy decides on it is anything.  A  *)
(* fill buys or sells one unit at price 1, so that cash, position and      *)
(* equity move.  The whole run is one transaction: its rows are seen by    *)
(* others when it has finished, and never if it is canceled or raises.     *)
(***************************************************************************)
EXTENDS DebugTraces, RunReports, MarketContext

CONSTANTS
    NSymbols,    \* symbols are 1..NSymbols, in sorted order
    NTimes,      \* bar times are 1..NTimes; those before StartTime are warm-up
    StartTime,   \* start_time of the run; end_time is NTimes
    InitialCash,
    Paths,       \* close prices: what bars[symbol][time] may be
    ContextTables, \* [perpetual symbol -> its context tables]; none for bars_only_v1
    Bucket,      \* the year, quarter or month of a time
    Decisions,   \* what a strategy may decide on a bar
    BlockCode,   \* the code of a guardrail that blocks an intent
    Options,     \* trace options a run may have
    ChunkSize,   \* 5000 points, 500 traces
    MaxOrders    \* bound: orders of a run

Symbols == 1..NSymbols
Sides == {-1, 1}

ASSUME RecordsAssumption ==
    /\ NSymbols \in Nat \ {0} /\ NTimes \in Nat \ {0} /\ ChunkSize \in Nat \ {0}
    /\ StartTime \in 1..NTimes /\ InitialCash \in Nat \ {0}
    /\ DOMAIN ContextTables \subseteq Symbols
    /\ \A s \in DOMAIN ContextTables : \A d \in ContextDatasets :
           DOMAIN ContextTables[s][d] \subseteq Int /\ IsFiniteSet(DOMAIN ContextTables[s][d])
    /\ Paths \subseteq [Symbols -> [1..NTimes -> Nat \ {0}]]
    /\ Bucket \in [1..NTimes -> Int]
    /\ \A t \in 1..NTimes, u \in 1..NTimes : t <= u => Bucket[t] <= Bucket[u]
    /\ Decisions \subseteq {"none", "buy", "sell", "blocked"}
    /\ Options \subseteq [compressed : BOOLEAN, stride : Nat \ {0}, activityOnly : BOOLEAN]

VARIABLES
    options, \* the run's trace options
    bars,    \* the close prices of the bars table
    phase,   \* running, finished, canceled or raised
    clock,   \* bar time, the last symbol whose bar came, and the step index
    cursors, \* [symbol -> [data set -> rows its context cursor has passed]]
    pending, \* pending_orders_by_symbol: ids of open orders, which grow along a list
    sides,   \* the orders created so far, by id: 1 to buy, -1 to sell
    money,   \* cash, quantities, latest closes, and the running peak and
             \* greatest drawdown of the performance points
    traced,  \* previous_trace_cash and previous_position_qty_by_symbol
    buffers, \* quiet_trace_span, debug_trace_buffer, performance_point_buffer
    counts,  \* signals inserted, intents blocked, traces emitted
    maps,    \* PersistedArtifactState
    rows,    \* the tables, as the run's transaction sees them
    steps    \* history: every step of the run

data == <<options, bars>>
vars == <<data, phase, clock, cursors, pending, sides, money, traced, buffers, counts, maps, rows, steps>>

NoRows == [orders |-> <<>>, fills |-> <<>>, series |-> <<>>, traces |-> <<>>,
           summary |-> <<>>, status |-> "none", risk |-> [blocked |-> 0, traces |-> 0]]

NoClock == [now |-> 1, last |-> 0, step |-> 0]
\* load_contexts: the series of each perpetual, read when the run starts.
Series == [s \in DOMAIN ContextTables |->
              [d \in ContextDatasets |-> LoadedSeries(ContextTables[s][d], StartTime, NTimes)]]
AtFirstRows == [s \in DOMAIN ContextTables |-> [d \in ContextDatasets |-> 0]]
NoPending == [s \in Symbols |-> {}]
NoBuffers == [span |-> <<>>, traces |-> <<>>, points |-> <<>>]
NoCounts == [signals |-> 0, blocked |-> 0, traces |-> 0]
NoMaps == [orders |-> <<>>, fills |-> <<>>]
Flat == [s \in Symbols |-> 0]
AtStart == [cash |-> InitialCash, qty |-> Flat, marks |-> Flat,
            peak |-> InitialCash, drawdown |-> NoDrawdown]
NotTraced == [cash |-> InitialCash, qty |-> Flat]

Init ==
    /\ options \in Options
    /\ bars \in Paths
    /\ phase = "running"
    /\ \E first \in 1..NTimes : clock = [NoClock EXCEPT !.now = first]
    /\ cursors = AtFirstRows
    /\ pending = NoPending
    /\ sides = <<>>
    /\ money = AtStart
    /\ traced = NotTraced
    /\ buffers = NoBuffers
    /\ counts = NoCounts
    /\ maps = NoMaps
    /\ rows = [NoRows EXCEPT !.status = "running"]
    /\ steps = <<>>

-----------------------------------------------------------------------------
(* The repository.  A row's id carries the name of its table.              *)

\* insert_orders and insert_fills, and the ids they return.
WithOrder(table, order) == Append(table, order)
IdOf(name, table) == <<name, Len(table)>>

\* Slip: only the first of the orders.
WithStatus_First(table, ids, orderRow, status) ==
    [i \in DOMAIN table |->
        IF ids # {} /\ orderRow[Min(ids)] = <<"order", i>>
        THEN [table[i] EXCEPT !.status = status] ELSE table[i]]

\* update_order_statuses: of the orders in the map.
WithStatus(table, ids, orderRow, status) ==
    [i \in DOMAIN table |->
        IF \E id \in ids : id \in DOMAIN orderRow /\ orderRow[id] = <<"order", i>>
        THEN [table[i] EXCEPT !.status = status] ELSE table[i]]

\* insert_fills: a fill of an order that is not in the map raises.
FillRows(ids, orderRow, at) ==
    [i \in DOMAIN ids |-> [order |-> orderRow[ids[i]], at |-> at]]

\* upsert_timeseries: one row per bar time.
RowsAt(table, positions) ==
    [i \in 1..Cardinality(positions) |-> table[Sorted(positions)[i]]]
WithPoints(table, points) ==
    RowsAt(table, {i \in DOMAIN table : \A j \in DOMAIN points : points[j].ts # table[i].ts})
    \o points

-----------------------------------------------------------------------------
(* A bar *)

Equity(m) == m.cash + MapThenSumSet(LAMBDA s : m.qty[s] * m.marks[s], Symbols)

SideSum(ids) == MapThenSumSet(LAMBDA id : sides[id], ids)

\* context_at(bar_time) moves the cursor of the bar's symbol; a spot has none.
MovedCursor(s) ==
    [d \in ContextDatasets |-> Passed(Series[s][d], cursors[s][d], clock.now)]
ContextNow(s) ==
    IF s \in DOMAIN Series THEN ContextAt(Series[s], MovedCursor(s), clock.now) ELSE NoContext

\* The bar's part of the loop: fills, statuses, decision, signal, orders, trace.
StepBar(s, filled, decision) ==
    LET close    == bars[s][clock.now]
        gone     == Sorted(filled)
        bought   == SideSum(filled)
        created  == decision \in {"buy", "sell"}
        newId    == Len(sides) + 1
        orders   == IF created
                    THEN Append(WithStatus(rows.orders, filled, maps.orders, "filled"),
                                [sym |-> s, at |-> clock.now, status |-> "submitted",
                                 signal |-> counts.signals + 1])
                    ELSE WithStatus(rows.orders, filled, maps.orders, "filled")
        orderRow == IF created THEN Append(maps.orders, IdOf("order", orders)) ELSE maps.orders
        fills    == rows.fills \o FillRows(gone, maps.orders, clock.now)
        fillRow  == [id \in DOMAIN maps.fills \union filled |->
                        IF id \in filled
                        THEN <<"fill", Len(rows.fills) +
                                       (CHOOSE i \in DOMAIN gone : gone[i] = id)>>
                        ELSE maps.fills[id]]
        cash     == money.cash - bought
        qty      == [money.qty EXCEPT ![s] = @ + bought]
        step     == [step |-> clock.step + 1, at |-> clock.now, sym |-> s, close |-> close,
                     context |-> ContextNow(s),
                     signals |-> IF decision = "none" THEN 0 ELSE 1,
                     orders |-> IF created THEN <<newId>> ELSE <<>>,
                     fills |-> gone,
                     blocked |-> IF decision = "blocked" THEN {BlockCode} ELSE {},
                     cashDelta |-> cash - traced.cash,
                     qtyDelta |-> qty[s] - traced.qty[s]]
        after    == AfterStep(options, buffers.span, step, IsActivity(step))
        emitted  == buffers.traces \o after.emitted
    IN  /\ phase = "running"
        /\ clock.last < s
        /\ filled \subseteq pending[s]
        /\ created => Len(sides) < MaxOrders
        /\ clock' = [clock EXCEPT !.last = s, !.step = @ + 1]
        /\ cursors' = [x \in DOMAIN Series |-> IF x = s THEN MovedCursor(s) ELSE cursors[x]]
        /\ pending' = [pending EXCEPT ![s] = (@ \ filled) \union IF created THEN {newId} ELSE {}]
        /\ sides' = IF created THEN Append(sides, IF decision = "buy" THEN 1 ELSE -1) ELSE sides
        /\ money' = [money EXCEPT !.cash = cash, !.qty = qty, !.marks[s] = close]
        /\ traced' = [cash |-> cash, qty |-> qty]
        /\ buffers' = [buffers EXCEPT !.span = after.span, !.traces = Kept(emitted, ChunkSize)]
        /\ counts' = [signals |-> counts.signals + step.signals,
                      blocked |-> counts.blocked + Cardinality(step.blocked),
                      traces |-> counts.traces + Len(after.emitted)]
        /\ maps' = [orders |-> orderRow, fills |-> fillRow]
        /\ \E written \in InsertedRows(Flushed(emitted, ChunkSize), orderRow, fillRow) :
               rows' = [rows EXCEPT !.orders = orders, !.fills = fills,
                                    !.traces = @ \o written]
        /\ steps' = Append(steps, step)
        /\ UNCHANGED <<data, phase>>

-----------------------------------------------------------------------------
(* The end of a group of bars of one time: mark, point, and the next time  *)
(* that any symbol has a bar for.                                          *)

NextTimes == (clock.now + 1)..(NTimes + 1)

PointNow ==
    [ts |-> clock.now, equity |-> Equity(money),
     drawdown |-> Drawdown(Max({money.peak, Equity(money)}), Equity(money))]

EndGroup(next) ==
    LET points == Append(buffers.points, PointNow)
        full   == Len(points) >= ChunkSize
    IN  /\ phase = "running"
        /\ clock.now <= NTimes /\ clock.last > 0
        /\ next \in NextTimes
        /\ clock' = [clock EXCEPT !.now = next, !.last = IF next > NTimes THEN NSymbols ELSE 0]
        /\ money' = [money EXCEPT !.peak = Max({@, Equity(money)}),
                                  !.drawdown = Deeper(@, PointNow.drawdown)]
        /\ buffers' = [buffers EXCEPT !.points = IF full THEN <<>> ELSE points]
        /\ rows' = [rows EXCEPT !.series = IF full THEN WithPoints(@, points) ELSE @]
        /\ UNCHANGED <<data, phase, cursors, pending, sides, traced, counts, maps, steps>>

\* After the last group: expire what is open, flush, finalize, summarize.  A run
\* without any bar has no point; every time of `clock` here had one.
Finish ==
    LET open    == UNION {pending[s] : s \in Symbols}
        emitted == buffers.traces \o SelectedRecords(buffers.span)
        series  == WithPoints(rows.series, buffers.points)
        total   == counts.traces + Len(SelectedRecords(buffers.span))
    IN  /\ phase = "running"
        /\ clock.now = NTimes + 1
        /\ phase' = "finished"
        /\ pending' = NoPending
        /\ buffers' = NoBuffers
        /\ counts' = [counts EXCEPT !.traces = total]
        /\ \E now \in InsertedRows(Flushed(emitted, ChunkSize), maps.orders, maps.fills) :
           \E last \in InsertedRows(Kept(emitted, ChunkSize), maps.orders, maps.fills) :
               rows' = [rows EXCEPT
                           !.orders = WithStatus(@, open, maps.orders, "expired"),
                           !.series = series,
                           !.traces = @ \o now \o last,
                           !.summary = <<[finalEquity |-> Equity(money),
                                          drawdown |-> money.drawdown]>>,
                           !.status = "finished",
                           !.risk = [blocked |-> counts.blocked, traces |-> total]]
        /\ UNCHANGED <<data, clock, cursors, sides, money, traced, maps, steps>>

\* The progress callback raises once a cancel was asked for, and anything the
\* loop calls may raise: the exception leaves the transaction, which is undone.
\* The canceled status that finalize_run wrote goes with it, and so does the
\* memory of the loop.
Undone(how) ==
    /\ phase = "running"
    /\ how = "canceled" => clock.last > 0
    /\ phase' = how
    /\ rows' = NoRows
    /\ clock' = NoClock /\ cursors' = AtFirstRows /\ pending' = NoPending /\ sides' = <<>> /\ money' = AtStart
    /\ traced' = NotTraced /\ buffers' = NoBuffers /\ counts' = NoCounts /\ maps' = NoMaps
    /\ steps' = <<>>
    /\ UNCHANGED data

Next ==
    \/ \E s \in Symbols, decision \in Decisions :
           \E filled \in SUBSET pending[s] : StepBar(s, filled, decision)
    \/ \E next \in NextTimes : EndGroup(next)
    \/ Finish
    \/ \E how \in {"canceled", "raised"} : Undone(how)

Spec == Init /\ [][Next]_vars
-----------------------------------------------------------------------------
Finished == phase = "finished"
Rising(keys) == \A i, j \in DOMAIN keys : i < j => keys[i] < keys[j]

\* The rows and counters of the run have their shape, and a run that was
\* canceled or raised has no row.
TypeOK ==
    /\ options \in Options /\ bars \in Paths
    /\ phase \in {"running", "finished", "canceled", "raised"}
    /\ \A s \in Symbols : pending[s] \subseteq DOMAIN sides
    /\ DOMAIN maps.orders = DOMAIN sides /\ DOMAIN maps.fills \subseteq DOMAIN sides
    /\ clock.now \in 1..(NTimes + 1) /\ clock.step = Len(steps)
    /\ Len(buffers.points) < ChunkSize /\ Len(buffers.traces) < ChunkSize
    /\ counts.traces = Len(rows.traces) + Len(buffers.traces)
    /\ phase \in {"canceled", "raised"} => rows = NoRows

\* Orders, their statuses and fills are written by three sinks that know each
\* other's rows through the ids kept in memory only: when the run has finished
\* every order is filled by exactly one fill or has expired without any, and
\* the fills of a symbol after the position it is left with.
RecordsSettle ==
    LET FillsOf(i) == {j \in DOMAIN rows.fills : rows.fills[j].order = <<"order", i>>}
    IN  Finished =>
            /\ Len(rows.orders) = Len(sides)
            /\ \A i \in DOMAIN rows.orders :
                   \/ rows.orders[i].status = "filled" /\ Cardinality(FillsOf(i)) = 1
                   \/ rows.orders[i].status = "expired" /\ FillsOf(i) = {}
            /\ \A s \in Symbols :
                   MapThenSumSet(LAMBDA i : IF rows.orders[i].sym = s /\ FillsOf(i) # {}
                                            THEN sides[i] ELSE 0, DOMAIN rows.orders)
                   = money.qty[s]

\* The steps from a to b are all the quiet steps between two that are not.
Quiet(k) == ~IsActivity(steps[k])
QuietSpans == {span \in (DOMAIN steps) \X (DOMAIN steps) :
                  /\ span[1] <= span[2] /\ \A k \in span[1]..span[2] : Quiet(k)
                  /\ span[1] > 1 => ~Quiet(span[1] - 1)
                  /\ span[2] < Len(steps) => ~Quiet(span[2] + 1)}

\* The trace rows of a finished run come in the order of the steps, though they
\* pass a quiet span and a buffer on the way.  Every step at which something
\* happened has one, and their cash deltas add up to the cash the run won or
\* lost, also where steps were left out.  Where quiet spans are compressed, and
\* quiet steps are wanted at all, the first and the last step and the extremes of
\* the close are kept.
TracesTellTheRun ==
    LET HasRow(k) == \E i \in DOMAIN rows.traces : rows.traces[i].step = k
        KeptOf(span) == {k \in span[1]..span[2] : HasRow(k)}
    IN  Finished =>
            /\ Rising([i \in DOMAIN rows.traces |-> rows.traces[i].step])
            /\ \A k \in DOMAIN steps : ~Quiet(k) => HasRow(k)
            /\ MapThenSumSet(LAMBDA i : rows.traces[i].cashDelta, DOMAIN rows.traces)
                   = money.cash - InitialCash
            /\ rows.risk.traces = Len(rows.traces)
            /\ (options.compressed /\ options.stride = 1 /\ ~options.activityOnly) =>
                   \A span \in QuietSpans :
                       /\ Cardinality(KeptOf(span)) <= 4
                       /\ HasRow(span[1]) /\ HasRow(span[2])
                       /\ \A k \in span[1]..span[2] :
                              /\ \E q \in KeptOf(span) : steps[q].close >= steps[k].close
                              /\ \E q \in KeptOf(span) : steps[q].close <= steps[k].close

\* The reports agree with each other: the points of a finished run are the
\* times of its bars, the summary that the loop kept is the one recomputed from
\* the points, and the periods hand their equity on from the initial cash to
\* the end, with every fill and linked signal in one of them and, as long as the
\* equity was never below zero, no drawdown that is deeper than the run's.  (A
\* loss beyond all equity is a greater part of the period's lower peak.)
ReportsAgree ==
    LET periods == PeriodBreakdown(rows.series, rows.fills, rows.orders, InitialCash, Bucket)
    IN  Finished =>
            /\ Rising([i \in DOMAIN rows.series |-> rows.series[i].ts])
            /\ {rows.series[i].ts : i \in DOMAIN rows.series} =
                   {steps[k].at : k \in DOMAIN steps}
            /\ rows.summary = <<SummaryOf(rows.series, InitialCash)>>
            /\ periods[1].start = InitialCash
            /\ \A k \in DOMAIN periods :
                   /\ k > 1 => periods[k].start = periods[k - 1].end
                   /\ (\A i \in DOMAIN rows.series : rows.series[i].equity >= 0) =>
                          NotDeeper(periods[k].drawdown, rows.summary[1].drawdown)
            /\ Last(periods).end = rows.summary[1].finalEquity
            /\ MapThenSumSet(LAMBDA k : periods[k].fills, DOMAIN periods) = Len(rows.fills)
            /\ MapThenSumSet(LAMBDA k : periods[k].signals, DOMAIN periods) = Len(rows.orders)

\* What the diagnostics claim of a finished run is so: bars are reported
\* missing only if that many are, and where intents were blocked the anchor is
\* the last step that was blocked, although traces are sampled.
DiagnosticsAreTrue ==
    LET had     == {steps[k].at : k \in DOMAIN steps}
        blocked == {k \in DOMAIN steps : steps[k].blocked # {}}
        flags   == Flags(rows, StartTime, NTimes)
    IN  Finished =>
            /\ MissingTimepoints(rows.series, StartTime, NTimes) <=
                   Cardinality((StartTime..NTimes) \ had)
            /\ Anchors(rows, {BlockCode}) =
                   IF blocked = {} THEN {} ELSE {[code |-> BlockCode, step |-> Max(blocked)]}
            /\ "risk_blocks_present" \in flags <=> blocked # {}
            /\ "no_fills_generated" \in flags =>
                   rows.orders # <<>> /\ \A i \in DOMAIN rows.orders :
                                             rows.orders[i].status = "expired"

\* What the strategy sees of the market at a step is what the tables say: never a row of
\* the future, the latest row of each data set from the start of the run on (in
\* the warm-up a row may be unknown), and changes over the window that are those
\* of the tables where they are given, and given once the window lies in the run
\* (data.py:86-190, 254-330).
ContextIsLatest ==
    LET step     == Last(steps)
        t        == step.at
        seen     == step.context
        table    == ContextTables[step.sym]
        interest == ChangeIn(table["open_interest"], t)
        mark     == ChangeIn(table["mark_price"], t)
        index    == ChangeIn(table["index_price"], t)
    IN  steps # <<>> /\ step.sym \in DOMAIN ContextTables =>
            /\ \A d \in ContextDatasets :
                   \/ seen.values[d] = LatestIn(table[d], t)
                   \/ t < StartTime /\ seen.values[d] = <<>>
            /\ seen.interest \in {interest, <<>>}
            /\ seen.price \in {mark, index, <<>>}
            /\ t - ContextWindow >= StartTime =>
                   /\ seen.interest = interest
                   /\ seen.price = PriceChange(mark, index)

\* The order and fill ids of a trace row are the rows of the orders that its
\* step created and of the fills that it applied.
TraceLinksAreTheSteps ==
    \A i \in DOMAIN rows.traces :
        LET step == steps[rows.traces[i].step]
        IN  /\ rows.traces[i].orderIds = RowIds(step.orders, maps.orders)
            /\ rows.traces[i].fillIds = RowIds(step.fills, maps.fills)
=============================================================================
