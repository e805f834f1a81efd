--------------------------- MODULE BacktestEngine ---------------------------
(***************************************************************************)
(* The bar loop of a backtest run, run_bars of src/src/backtest/runner.py, *)
(* over the portfolio, the fill model and the guardrails.                  *)
(*                                                                         *)
(* Bars come in groups of the same bar time, in symbol order within one.   *)
(* Each bar first meets the orders pending in its symbol's list, then the  *)
(* strategy decides on it and the guardrails turn what they allow into new *)
(* orders.  A group ends with a mark to market and the end of a cooldown   *)
(* bar; the run ends with the expiry of what is still open.                *)
(*                                                                         *)
(* Which bars arrive and what the strategy wants is anything: a symbol may *)
(* miss a bar, prices and targets come from small sets.                    *)
(***************************************************************************)
EXTENDS BacktestRisk, Sequences

CONSTANTS
    Universe,     \* the session's symbols as a sequence, in sorted order
    InitialCash,
    Bars,         \* the bars that may arrive: open, high, low, close
    Targets,      \* the target quantities a strategy may ask for
    Reach,        \* the symbols it may name when it is given a symbol's bar
    AllowFlip,    \* execution_policy.allow_position_flip
    NTimes,       \* bound: bar times in a run
    TradingDay    \* the local date of each bar time

Bar == [open : Nat \ {0}, high : Nat \ {0}, low : Nat \ {0}, close : Nat \ {0}]

ASSUME UniverseAssumption ==
    /\ Universe \in Seq(Symbols)
    /\ Symbols = {Universe[i] : i \in 1..Len(Universe)}
    /\ Symbols # {}
    /\ Reach \in [Symbols -> SUBSET Symbols]

ASSUME StrategyAssumption == Targets \subseteq Int /\ AllowFlip \in BOOLEAN

ASSUME CalendarAssumption ==
    /\ NTimes \in Nat
    /\ TradingDay \in [1..NTimes -> Nat \ {0}]
    /\ \A t, u \in 1..NTimes : t <= u => TradingDay[t] <= TradingDay[u]

ASSUME BarsAssumption ==
    /\ Bars \subseteq Bar
    /\ \A b \in Bars : \A x \in {b.open, b.close} : b.low <= x /\ x <= b.high
    /\ InitialCash \in Nat \ {0}

VARIABLES
    phase,     \* where run_bars stands
    now,       \* bar time, counted from 1
    todo,      \* symbols of the group whose bar is still to come
    symbol,    \* the symbol of the bar at hand
    bar,       \* the bar at hand
    queue,     \* current_pending: its orders that have not been looked at
    pending,   \* pending_orders_by_symbol
    orders,    \* every order created, by its id
    portfolio,
    marks,     \* latest_close_by_symbol
    session,   \* the guardrails' session state ...
    cooldown,  \* ... and its cooldown_bars_remaining
    perf,      \* running peak equity and the equity of the latest point
    seen,      \* history: the time of each symbol's latest bar
    lossAt,    \* history: the time of the latest losing close, 0 before any
    breached   \* history: whether the daily loss limit was met today

barVars == <<now, todo, symbol, bar, seen>>
riskVars == <<session, cooldown>>
vars == <<phase, now, todo, symbol, bar, queue, pending, orders, portfolio, marks, session,
          cooldown, perf, seen, lossAt, breached>>

Phases == {"between", "bars", "fill", "done", "raised"}

\* An order is known by the bar it was decided on and by the symbol it names,
\* for a strategy asks for one target per symbol.
OrderId == [born : 1..NTimes, at : Symbols, sym : Symbols]

NoBar == [open |-> 1, high |-> 1, low |-> 1, close |-> 1]

Init ==
    /\ phase = "between"
    /\ now = 0
    /\ todo = {}
    /\ symbol = Universe[1]
    /\ bar = NoBar
    /\ queue = {}
    /\ pending = [s \in Symbols |-> {}]
    /\ orders = [id \in {} |-> NoBar]
    /\ portfolio = EmptyPortfolio(InitialCash)
    /\ marks = [s \in Symbols |-> NoPrice]
    /\ session = NewSession
    /\ cooldown = 0
    /\ perf = [peak |-> InitialCash, equity |-> InitialCash]
    /\ seen = [s \in Symbols |-> 0]
    /\ lossAt = 0
    /\ breached = FALSE

-----------------------------------------------------------------------------
(* The bars of a time                                                      *)

\* groupby: the next bar time, with the symbols S that have a bar at it.
next_bar_time(S) ==
    /\ phase = "between"
    /\ now < NTimes
    /\ S # {}
    /\ now' = now + 1
    /\ todo' = S
    /\ phase' = "bars"
    /\ UNCHANGED <<symbol, bar, queue, pending, orders, portfolio, marks, riskVars, perf, seen,
                   lossAt, breached>>

IsNext(s) ==
    /\ s \in todo
    /\ \A i, k \in 1..Len(Universe) : Universe[i] = s /\ Universe[k] \in todo => i <= k

\* The bar b of symbol s comes up, with the orders pending for it.
begin_bar(s, b) ==
    /\ phase = "bars"
    /\ IsNext(s)
    /\ todo' = todo \ {s}
    /\ symbol' = s
    /\ bar' = b
    /\ queue' = pending[s]
    /\ pending' = [pending EXCEPT ![s] = {}]
    /\ seen' = [seen EXCEPT ![s] = now]
    /\ phase' = "fill"
    /\ UNCHANGED <<now, orders, portfolio, marks, riskVars, perf, lossAt, breached>>

\* The oldest of the orders not looked at yet: fill it, apply the fill and let
\* the guardrails observe it, or keep it pending.
process_open_order(id) ==
    /\ phase = "fill"
    /\ id \in queue
    /\ \A other \in queue : id.born <= other.born
    /\ queue' = queue \ {id}
    /\ LET fill == Fill(orders[id], bar)
           position == portfolio.pos[id.sym]
       IN \/ /\ IsFilledBy(orders[id], symbol, bar)
             /\ orders' = [orders EXCEPT ![id].status = "filled", ![id].filledAt = now]
             /\ portfolio' = apply_fill(portfolio, fill)
             /\ cooldown' = CooldownAfter(cooldown, position, fill)
             /\ lossAt' = IF ClosesAny(position, fill) /\ RealizedBy(position, fill) < 0
                            THEN now ELSE lossAt
             /\ UNCHANGED pending
          \/ /\ ~IsFilledBy(orders[id], symbol, bar)
             /\ pending' = [pending EXCEPT ![symbol] = @ \union {id}]
             /\ UNCHANGED <<orders, portfolio, cooldown, lossAt>>
    /\ UNCHANGED <<phase, barVars, marks, session, perf, breached>>

-----------------------------------------------------------------------------
(* The decision on a bar                                                   *)

\* A TargetPosition over some of the symbols in reach; over none, no decision.
Decisions == UNION {[D -> Targets] : D \in SUBSET Reach[symbol]}

\* plan_from_target_position
Planned(decision) ==
    {ExecutionIntent(s, portfolio.pos[s].qty, decision[s]) :
        s \in {x \in DOMAIN decision : decision[x] # portfolio.pos[x].qty}}

\* The position flip that it refuses.
Refused(decision) ==
    ~AllowFlip /\ \E s \in DOMAIN decision : FlipsPosition(portfolio.pos[s].qty, decision[s])

\* An order with what the properties say of it: whether it was meant to
\* expand the exposure, after which losing close and on which breached day.
Created(intent) ==
    LET order == SubmittedOrder(intent, bar)
    IN [sym |-> order.sym, qty |-> order.qty, target |-> order.target, limit |-> order.limit,
        status |-> order.status, filledAt |-> 0, expands |-> ExpandsExposure(intent),
        afterLoss |-> lossAt, afterBreach |-> breached /\ session.day = TradingDay[now]]

IdOf(intent) == [born |-> now, at |-> symbol, sym |-> intent.sym]

\* Slip: an order is listed under the symbol it names, whose bar of the same
\* time may still be to come.
ListOf_Named(id) == id.sym

\* The list of the bar's symbol, whatever symbol the order names.
ListOf(id) == id.at

\* evaluate_bar, filter_execution_intents and create_order: the guardrails see
\* the bar's close, and every intent is judged against the same portfolio.
evaluate_bar(decision) ==
    LET marked == [marks EXCEPT ![symbol] = bar.close]
        equity == Equity(portfolio, marked)
        today == TradingDay[now]
        refreshed == Refreshed(session, today, equity)
        allowed == {i \in Planned(decision) :
                        IsAllowed(i, refreshed, cooldown, bar, portfolio, marked, equity)}
        new == {IdOf(i) : i \in allowed}
    IN /\ phase = "fill"
       /\ queue = {}
       /\ ~Refused(decision)
       /\ marks' = marked
       /\ session' = refreshed
       /\ orders' = [id \in DOMAIN orders \union new |->
                        IF id \in new THEN Created(CHOOSE i \in allowed : IdOf(i) = id)
                        ELSE orders[id]]
       /\ pending' = [s \in Symbols |-> pending[s] \union {id \in new : ListOf(id) = s}]
       /\ breached' = (InDailyLoss(refreshed) \/ (breached /\ session.day = today))
       /\ phase' = "bars"
       /\ UNCHANGED <<barVars, queue, portfolio, cooldown, perf, lossAt>>

\* LifecyclePlanningError ends the run.
evaluate_bar_raises(decision) ==
    /\ phase = "fill"
    /\ queue = {}
    /\ Refused(decision)
    /\ phase' = "raised"
    /\ UNCHANGED <<barVars, queue, pending, orders, portfolio, marks, riskVars, perf, lossAt,
                   breached>>

-----------------------------------------------------------------------------
(* The end of a time, and of the run                                       *)

\* mark_to_market, build_performance_point and complete_bar.
close_bar_time ==
    /\ phase = "bars"
    /\ todo = {}
    /\ LET equity == Equity(portfolio, marks)
       IN perf' = [peak |-> Most(perf.peak, equity), equity |-> equity]
    /\ cooldown' = complete_bar(cooldown)
    /\ phase' = "between"
    /\ UNCHANGED <<barVars, queue, pending, orders, portfolio, marks, session, lossAt, breached>>

\* Slip: only the list of the latest bar's symbol is looked at.
StillOpen_LastList(id) == id \in pending[symbol]

StillOpen(id) == \E s \in Symbols : id \in pending[s]

\* The bars are used up: expire_open_order for what is still pending.
finish_run ==
    /\ phase = "between"
    /\ orders' = [id \in DOMAIN orders |->
                    IF StillOpen(id) THEN [orders[id] EXCEPT !.status = "expired"]
                    ELSE orders[id]]
    /\ phase' = "done"
    /\ UNCHANGED <<barVars, queue, pending, portfolio, marks, riskVars, perf, lossAt, breached>>

Next ==
    \/ \E S \in SUBSET Symbols : next_bar_time(S)
    \/ \E s \in Symbols, b \in Bars : begin_bar(s, b)
    \/ \E id \in queue : process_open_order(id)
    \/ \E decision \in Decisions : evaluate_bar(decision) \/ evaluate_bar_raises(decision)
    \/ close_bar_time
    \/ finish_run

Spec == Init /\ [][Next]_vars

-----------------------------------------------------------------------------
(* Properties *)

OrderRecord ==
    [sym : Symbols, qty : Int, target : Int, limit : Nat,
     status : {"submitted", "filled", "expired"}, filledAt : 0..NTimes,
     expands : BOOLEAN, afterLoss : 0..NTimes, afterBreach : BOOLEAN]

TypeOK ==
    /\ phase \in Phases
    /\ now \in 0..NTimes
    /\ todo \subseteq Symbols
    /\ symbol \in Symbols
    /\ bar \in Bar
    /\ DOMAIN orders \subseteq OrderId
    /\ orders \in [DOMAIN orders -> OrderRecord]
    /\ queue \subseteq DOMAIN orders
    /\ pending \in [Symbols -> SUBSET DOMAIN orders]
    /\ portfolio \in [cash : Int, pos : [Symbols -> [qty : Int, entry : Int]], realized : Int,
                      fees : Int, closes : Nat, wins : Nat]
    /\ marks \in [Symbols -> Nat]
    /\ session \in [day : Nat, dayStart : Int, peak : Int, last : Int]
    /\ cooldown \in Nat
    /\ perf \in [peak : Int, equity : Int]
    /\ seen \in [Symbols -> 0..NTimes]
    /\ lossAt \in 0..NTimes
    /\ breached \in BOOLEAN

Ids == DOMAIN orders

\* The equity of every performance point is explained by its parts: initial
\* cash, realized and unrealized profit, less fees.  It ties the cash that
\* fills move to the average-cost positions they leave, through every open,
\* addition, reduction, close and flip.
EquityExplained ==
    phase = "between" =>
        perf.equity = InitialCash + portfolio.realized + UnrealizedPnl(portfolio, marks)
                        - portfolio.fees

\* After a losing close, no order that expands exposure is created for the
\* configured number of bar evaluations, the one of the closing bar included.
CooldownHolds ==
    \A id \in Ids :
        Policy.cooldownBars # Off /\ orders[id].expands /\ orders[id].afterLoss # 0
            => id.born >= orders[id].afterLoss + Policy.cooldownBars

\* No fill uses a bar of the time an order was decided at or before, although a
\* decision on one symbol may order another whose bar of that time is to come.
NoLookAhead ==
    \A id \in Ids : orders[id].status = "filled" => orders[id].filledAt > id.born

\* An order is open exactly while it waits in a list or for its turn at the bar,
\* in one place only, and no order is open once the run is done.
OpenOrdersWait ==
    /\ phase # "done" =>
        {id \in Ids : orders[id].status = "submitted"} = queue \union UNION {pending[s] : s \in Symbols}
    /\ phase = "done" => \A id \in Ids : orders[id].status # "submitted"
    /\ \A s \in Symbols : queue \intersect pending[s] = {}
    /\ \A s, t \in Symbols : s # t => pending[s] \intersect pending[t] = {}

\* Positions are what the filled orders add up to.
PositionsAddUp ==
    \A s \in Symbols :
        portfolio.pos[s].qty =
            MapThenSumSet(LAMBDA id : orders[id].qty,
                          {id \in Ids : id.sym = s /\ orders[id].status = "filled"})

\* With market orders, a symbol has at most one order of its own in flight in its
\* list, and filling it lands exactly on the target that was allowed.
TargetReached ==
    \A s \in Symbols :
        LET listed == pending[s] \union (IF s = symbol THEN queue ELSE {})
            inFlight == {id \in listed : id.sym = s}
        IN /\ Cardinality(inFlight) <= 1
           /\ \A id \in inFlight : portfolio.pos[s].qty + orders[id].qty = orders[id].target

\* docs/backtest-risk-guardrails-spec.md, max_position_qty: caps the size of
\* the session.  No position is ever larger.
PositionCapped ==
    Policy.maxPositionQty # Off =>
        \A s \in Symbols : Abs(portfolio.pos[s].qty) <= Policy.maxPositionQty

\* The drawdown the guardrails judge by is never milder than the one the run
\* reports: after a bar time their latest equity is that of the performance
\* point, and the peak they remember is at least the reported one, whatever days
\* have begun since.
GuardSeesReportedPeak ==
    phase = "between" /\ now > 0 => session.last = perf.equity /\ session.peak >= perf.peak

\* In a session of one symbol, an order that expands exposure is only created
\* where the performance point of its bar time shows the run within the drawdown
\* limit, above the equity floor and, at the target, within the leverage limit.
EntriesRespectReportedLimits ==
    phase = "between" /\ Cardinality(Symbols) = 1 =>
        \A id \in {x \in Ids : x.born = now /\ orders[x].expands} :
            /\ Policy.maxDrawdownPct # Off =>
                  (perf.peak - perf.equity) * 100 < Policy.maxDrawdownPct * perf.peak
            /\ Policy.equityFloor # Off => perf.equity > Policy.equityFloor
            /\ Policy.maxLeverage # Off =>
                  Abs(orders[id].target) * marks[id.sym] <= perf.equity * Policy.maxLeverage

\* docs/backtest-risk-guardrails-spec.md, enforce_spot_cash_check: spot runs do
\* not buy with cash they do not have (prices standing still).
SpotBuysAreFunded ==
    Policy.spotCashCheck /\ SpotSymbols = Symbols => portfolio.cash >= 0

\* backtest/assumption_registry.py: latency model bars_next_open_v1.  An open
\* market order has not let a later bar of its symbol pass.
MarketFillsAtNextOpen ==
    OrderTypePreference = "market" /\ phase = "between" =>
        \A id \in Ids : orders[id].status = "submitted" => id.born >= seen[id.sym]

\* docs/backtest-risk-guardrails-spec.md, max_daily_loss_pct: once breached, new
\* exposure is blocked for the rest of the trading day.
DailyLossHoldsForTheDay ==
    \A id \in Ids : orders[id].expands => ~orders[id].afterBreach

=============================================================================
