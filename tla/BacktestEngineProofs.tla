------------------------ MODULE BacktestEngineProofs ------------------------
(***************************************************************************)
(* Proofs about the bar loop, for any symbols, bars, strategies, policies  *)
(* and lengths of a run.  The first part treats the orders: sums of money  *)
(* appear in it only as values whose size does not matter.  The second     *)
(* treats the money: positions, equity and the limits judged by it.        *)
(***************************************************************************)
EXTENDS BacktestEngine, SharedLemmas

\* The types of all but the money, of which only the positions count.
Typed ==
    /\ phase \in Phases
    /\ now \in Nat
    /\ todo \subseteq Symbols
    /\ symbol \in Symbols
    /\ bar \in Bar
    /\ DOMAIN orders \subseteq OrderId
    /\ orders \in [DOMAIN orders -> OrderRecord]
    /\ queue \subseteq DOMAIN orders
    /\ pending \in [Symbols -> SUBSET DOMAIN orders]
    /\ DOMAIN portfolio.pos = Symbols
    /\ \A s \in Symbols : portfolio.pos[s].qty \in Int
    /\ cooldown \in Nat
    /\ lossAt \in 0..NTimes
    /\ breached \in BOOLEAN
    /\ now <= NTimes
    /\ phase \in {"bars", "fill"} => now # 0

\* Where an order waits follows from its id and its status.
Listed ==
    /\ \A id \in Ids : orders[id].sym = id.sym
    /\ \A s \in Symbols : \A id \in pending[s] : id.at = s
    /\ \A id \in queue : id.at = symbol /\ id \notin pending[symbol]
    /\ phase # "fill" => queue = {}
    /\ phase # "done" =>
        \A id \in Ids : orders[id].status = "submitted" <=> id \in queue \/ id \in pending[id.at]
    /\ phase = "done" => \A id \in Ids : orders[id].status # "submitted"

\* An order is never younger than the bar its list waits for.
Ages ==
    /\ \A id \in Ids : id.born <= now
    /\ phase \in {"bars", "fill"} => \A id \in Ids : id.born = now => id.at \notin todo
    /\ phase = "fill" => \A id \in Ids : id.born = now => id.at # symbol
    /\ phase = "fill" => symbol \notin todo
    /\ NoLookAhead

\* What is left of a cooldown reaches the bar it was configured for.
Cooling ==
    /\ Policy.cooldownBars # Off /\ lossAt # 0 =>
        lossAt + Policy.cooldownBars
            <= now + cooldown + (IF phase \in {"between", "done"} THEN 1 ELSE 0)
    /\ CooldownHolds

Inv == Typed /\ Listed /\ Ages /\ Cooling

-----------------------------------------------------------------------------
(* The portfolio and the guardrails *)

\* A target within the cap, as far as the position already was.
WithinCap(x, current) ==
    Policy.maxPositionQty # Off => Abs(x) <= Policy.maxPositionQty \/ Abs(x) <= Abs(current)

\* What the guardrails let through: no entry during a cooldown, for an intent
\* that bypasses them never expands, and no target beyond the position cap that
\* is not a reduction.
LEMMA AllowedIntents ==
    ASSUME NEW s, NEW current \in Int, NEW target \in Int, NEW sess, NEW c \in Nat, NEW b,
           NEW p, NEW m, NEW e,
           IsAllowed(ExecutionIntent(s, current, target), sess, c, b, p, m, e)
    PROVE  /\ ExpandsExposure(ExecutionIntent(s, current, target)) => c = 0
           /\ WithinCap(target, current)
<1> DEFINE i == ExecutionIntent(s, current, target)
<1>1. i.sym = s /\ i.current = current /\ i.target = target
      /\ i.reduceOnly = (IsReduceOnly(current, target) /\ ReduceOnlyOnExit)
  BY DEF ExecutionIntent
<1> HIDE DEF i
<1>2. CASE CanBypass(i)
  <2>1. IsReduceOnly(current, target) /\ Abs(target) <= Abs(current)
    BY <1>1, <1>2 DEF CanBypass
  <2>2. ~ExpandsExposure(i)
    BY <1>1, <2>1 DEF IsReduceOnly, ExpandsExposure, SameSide, OppositeSides, Abs
  <2> QED
    BY <2>1, <2>2 DEF i, WithinCap
<1>3. CASE ~Violates(i, sess, c, b, p, m, e)
  <2>1. ExpandsExposure(i) => ~(c > 0)
    BY <1>3 DEF Violates, EntriesClosed
  <2>2. ~PositionTooLarge(i)
    BY <1>3 DEF Violates, SizeExceeded
  <2>3. Policy.maxPositionQty # Off => Policy.maxPositionQty \in Nat
    BY PolicyAssumption DEF PolicyType, NaturalOption
  <2> QED
    BY <1>1, <2>1, <2>2, <2>3 DEF i, WithinCap, PositionTooLarge, Exceeds, Abs
<1> QED
  BY <1>2, <1>3 DEF i, IsAllowed

\* Positions stay integers, and only the symbol of the fill moves.
LEMMA FillMoves ==
    ASSUME NEW p, NEW fill, DOMAIN p.pos = Symbols, fill.sym \in Symbols
    PROVE  /\ DOMAIN apply_fill(p, fill).pos = Symbols
           /\ apply_fill(p, fill).pos[fill.sym].qty = p.pos[fill.sym].qty + fill.qty
           /\ \A s \in Symbols \ {fill.sym} : apply_fill(p, fill).pos[s] = p.pos[s]
BY DEF apply_fill, PositionAfter

-----------------------------------------------------------------------------
(* The decision: what evaluate_bar makes of the orders *)

\* A new order, as the bar loop lists it.
IsNewOrder(id, order) ==
    /\ id \in OrderId
    /\ id.born = now
    /\ id.at = symbol
    /\ order \in OrderRecord
    /\ order.status = "submitted"
    /\ order.sym = id.sym
    /\ order.afterLoss = lossAt
    /\ order.expands => cooldown = 0
    /\ portfolio.pos[id.sym].qty + order.qty = order.target
    /\ WithinCap(order.target, portfolio.pos[id.sym].qty)

\* evaluate_bar adds orders to the list of its symbol and leaves the others be.
Evaluated(new) ==
    /\ DOMAIN orders' = DOMAIN orders \union new
    /\ \A id \in DOMAIN orders \ new : orders'[id] = orders[id]
    /\ \A id \in new : IsNewOrder(id, orders'[id])
    /\ orders' \in [DOMAIN orders \union new -> OrderRecord]
    /\ pending' = [s \in Symbols |-> pending[s] \union {id \in new : id.at = s}]

LEMMA EvaluateBar ==
    ASSUME Typed, NEW decision \in Decisions, evaluate_bar(decision)
    PROVE  \E new : Evaluated(new)
<1> DEFINE marked == [marks EXCEPT ![symbol] = bar.close]
           equity == Equity(portfolio, marked)
           refreshed == Refreshed(session, TradingDay[now], equity)
           allowed == {i \in Planned(decision) :
                          IsAllowed(i, refreshed, cooldown, bar, portfolio, marked, equity)}
           new == {IdOf(i) : i \in allowed}
<1>1. /\ orders' = [id \in DOMAIN orders \union new |->
                        IF id \in new THEN Created(CHOOSE i \in allowed : IdOf(i) = id)
                        ELSE orders[id]]
      /\ pending' = [s \in Symbols |-> pending[s] \union {id \in new : ListOf(id) = s}]
  BY DEF evaluate_bar
<1>2. ASSUME NEW i \in allowed PROVE IsNewOrder(IdOf(i), Created(i))
  <2>1. PICK s \in DOMAIN decision : i = ExecutionIntent(s, portfolio.pos[s].qty, decision[s])
    BY DEF Planned
  <2>2. s \in Symbols /\ decision[s] \in Int
    <3>1. PICK D \in SUBSET Reach[symbol] : decision \in [D -> Targets]
      BY DEF Decisions
    <3>2. Reach[symbol] \subseteq Symbols
      BY UniverseAssumption DEF Typed
    <3> QED
      BY <3>1, <3>2, StrategyAssumption
  <2>3. portfolio.pos[s].qty \in Int
    BY <2>2 DEF Typed
  <2>4. /\ ExpandsExposure(i) => cooldown = 0
        /\ WithinCap(decision[s], portfolio.pos[s].qty)
    <3> HIDE DEF marked, equity, refreshed
    <3> QED
      BY <2>1, <2>2, <2>3, AllowedIntents DEF Typed
  <2>5. IdOf(i) = [born |-> now, at |-> symbol, sym |-> s]
    BY <2>1 DEF IdOf, ExecutionIntent
  <2>6. /\ Created(i).sym = s /\ Created(i).status = "submitted"
        /\ Created(i).qty = decision[s] - portfolio.pos[s].qty
        /\ Created(i).target = decision[s] /\ Created(i).afterLoss = lossAt
        /\ Created(i).expands = ExpandsExposure(i)
    BY <2>1 DEF Created, SubmittedOrder, DeltaQty, ExecutionIntent
  <2>7. Created(i) \in OrderRecord
    <3>1. bar.close \in Nat /\ lossAt \in 0..NTimes /\ 0 \in 0..NTimes
      BY CalendarAssumption DEF Typed, Bar
    <3>2. ExpandsExposure(i) \in BOOLEAN
      BY DEF ExpandsExposure
    <3>3. (breached /\ session.day = TradingDay[now]) \in BOOLEAN
      OBVIOUS
    <3>4. i.sym = s /\ i.target = decision[s] /\ DeltaQty(i) \in Int
      BY <2>1, <2>2, <2>3 DEF DeltaQty, ExecutionIntent
    <3> QED
      BY <2>2, <3>1, <3>2, <3>3, <3>4 DEF Created, SubmittedOrder, OrderRecord
  <2>8. IdOf(i) \in OrderId
    <3>1. now \in 1..NTimes
      BY DEF evaluate_bar, Typed
    <3> QED
      BY <2>2, <2>5, <3>1 DEF OrderId, Typed
  <2> QED
    BY <2>2, <2>3, <2>4, <2>5, <2>6, <2>7, <2>8 DEF IsNewOrder
<1>3. ASSUME NEW id \in new PROVE IsNewOrder(id, orders'[id]) /\ orders'[id] \in OrderRecord
  <2> DEFINE i == CHOOSE x \in allowed : IdOf(x) = id
  <2>1. i \in allowed /\ IdOf(i) = id
    OBVIOUS
  <2>2. orders'[id] = Created(i)
    BY <1>1
  <2> QED
    BY <2>1, <2>2, <1>2 DEF IsNewOrder
<1>4. \A id \in DOMAIN orders \ new : orders'[id] = orders[id]
  BY <1>1
<1>5. \A id \in DOMAIN orders : orders[id] \in OrderRecord
  BY DEF Typed
<1> HIDE DEF new
<1>6. orders' \in [DOMAIN orders \union new -> OrderRecord]
  BY <1>1, <1>3, <1>4, <1>5
<1>7. DOMAIN orders' = DOMAIN orders \union new
  BY <1>1
<1> QED
  BY <1>1, <1>3, <1>4, <1>6, <1>7 DEF Evaluated, ListOf

-----------------------------------------------------------------------------
(* The fill: what process_open_order makes of the order at the head of the queue *)

\* The order is filled, and the position of its symbol moves by its quantity.
Filled(id) ==
    /\ orders[id].status = "submitted"
    /\ orders[id].sym = symbol
    /\ orders' = [orders EXCEPT ![id].status = "filled", ![id].filledAt = now]
    /\ DOMAIN portfolio'.pos = Symbols
    /\ portfolio'.pos[symbol].qty = portfolio.pos[symbol].qty + orders[id].qty
    /\ \A s \in Symbols \ {symbol} : portfolio'.pos[s] = portfolio.pos[s]
    /\ cooldown' \in Nat
    /\ cooldown' >= cooldown
    /\ lossAt' # lossAt => lossAt' = now /\ (Policy.cooldownBars # Off => cooldown' >= Policy.cooldownBars)
    /\ pending' = pending

\* It stays as it is and goes back to the list.
Kept(id) ==
    /\ ~IsFilledBy(orders[id], symbol, bar)
    /\ pending' = [pending EXCEPT ![symbol] = @ \union {id}]
    /\ UNCHANGED <<orders, portfolio, cooldown, lossAt>>

LEMMA ProcessOpenOrder ==
    ASSUME Typed, NEW id \in queue, process_open_order(id), orders[id].sym = id.sym
    PROVE  Filled(id) \/ Kept(id)
<1> DEFINE fill == Fill(orders[id], bar)
           position == portfolio.pos[id.sym]
<1>1. CASE /\ IsFilledBy(orders[id], symbol, bar)
           /\ orders' = [orders EXCEPT ![id].status = "filled", ![id].filledAt = now]
           /\ portfolio' = apply_fill(portfolio, fill)
           /\ cooldown' = CooldownAfter(cooldown, position, fill)
           /\ lossAt' = IF ClosesAny(position, fill) /\ RealizedBy(position, fill) < 0
                          THEN now ELSE lossAt
           /\ UNCHANGED pending
  <2>1. /\ orders[id].status = "submitted" /\ orders[id].sym = symbol
        /\ fill.sym = symbol /\ fill.qty = orders[id].qty
    BY <1>1 DEF IsFilledBy, Fill
  <2> HIDE DEF fill
  <2>2. /\ DOMAIN portfolio'.pos = Symbols
        /\ portfolio'.pos[symbol].qty = portfolio.pos[symbol].qty + orders[id].qty
        /\ \A s \in Symbols \ {symbol} : portfolio'.pos[s] = portfolio.pos[s]
    BY <1>1, <2>1, FillMoves DEF Typed
  <2>3. Policy.cooldownBars # Off => Policy.cooldownBars \in Nat
    BY PolicyAssumption DEF PolicyType, NaturalOption
  <2>4. cooldown' \in Nat /\ cooldown' >= cooldown
    BY <1>1, <2>3 DEF CooldownAfter, Most, Typed
  <2>5. lossAt' # lossAt =>
          lossAt' = now /\ (Policy.cooldownBars # Off => cooldown' >= Policy.cooldownBars)
    BY <1>1, <2>3 DEF CooldownAfter, LosingClose, Most, Typed
  <2> QED
    BY <1>1, <2>1, <2>2, <2>4, <2>5 DEF Filled
<1>2. CASE /\ ~IsFilledBy(orders[id], symbol, bar)
           /\ pending' = [pending EXCEPT ![symbol] = @ \union {id}]
           /\ UNCHANGED <<orders, portfolio, cooldown, lossAt>>
  BY <1>2 DEF Kept
<1> QED
  BY <1>1, <1>2 DEF process_open_order

\* A filled order differs from the submitted one in its status and time only.
LEMMA FilledOrders ==
    ASSUME Typed, NEW id \in queue, Filled(id)
    PROVE  /\ DOMAIN orders' = DOMAIN orders
           /\ orders' \in [DOMAIN orders -> OrderRecord]
           /\ orders'[id] = [orders[id] EXCEPT !.status = "filled", !.filledAt = now]
           /\ orders'[id].status = "filled" /\ orders'[id].filledAt = now
           /\ \A other \in DOMAIN orders \ {id} : orders'[other] = orders[other]
           /\ \A other \in DOMAIN orders :
                 /\ orders'[other].sym = orders[other].sym
                 /\ orders'[other].expands = orders[other].expands
                 /\ orders'[other].afterLoss = orders[other].afterLoss
<1>1. id \in DOMAIN orders /\ orders[id] \in OrderRecord /\ now \in 0..NTimes
  BY CalendarAssumption DEF Typed
<1>2. /\ DOMAIN orders' = DOMAIN orders
      /\ orders'[id] = [orders[id] EXCEPT !.status = "filled", !.filledAt = now]
      /\ \A other \in DOMAIN orders \ {id} : orders'[other] = orders[other]
  BY <1>1 DEF Filled, Typed
<1>3. orders'[id] \in OrderRecord
  BY <1>1, <1>2 DEF OrderRecord
<1>4. orders' \in [DOMAIN orders -> OrderRecord]
  <2>1. \A other \in DOMAIN orders : orders'[other] \in OrderRecord
    BY <1>2, <1>3 DEF Typed
  <2> QED
    BY <2>1, <1>2 DEF Filled
<1> QED
  BY <1>1, <1>2, <1>3, <1>4 DEF OrderRecord

\* At the end of a run the orders that wait expire, and only those.
LEMMA ExpiredOrders ==
    ASSUME Typed, finish_run
    PROVE  /\ DOMAIN orders' = DOMAIN orders
           /\ orders' \in [DOMAIN orders -> OrderRecord]
           /\ \A id \in DOMAIN orders :
                 /\ orders'[id].status = IF StillOpen(id) THEN "expired" ELSE orders[id].status
                 /\ orders'[id].sym = orders[id].sym
                 /\ orders'[id].qty = orders[id].qty
                 /\ orders'[id].target = orders[id].target
                 /\ orders'[id].filledAt = orders[id].filledAt
                 /\ orders'[id].expands = orders[id].expands
                 /\ orders'[id].afterLoss = orders[id].afterLoss
<1>1. orders' = [id \in DOMAIN orders |->
                    IF StillOpen(id) THEN [orders[id] EXCEPT !.status = "expired"]
                    ELSE orders[id]]
  BY DEF finish_run
<1>2. \A id \in DOMAIN orders : orders[id] \in OrderRecord
  BY DEF Typed
<1>3. \A id \in DOMAIN orders : [orders[id] EXCEPT !.status = "expired"] \in OrderRecord
  BY <1>2 DEF OrderRecord
<1> QED
  BY <1>1, <1>2, <1>3 DEF OrderRecord

-----------------------------------------------------------------------------
(* The parts of the invariant, action by action *)

LEMMA InvInit == Init => Inv
<1> SUFFICES ASSUME Init PROVE Inv
  OBVIOUS
<1>1. Universe[1] \in Symbols
  <2>1. Len(Universe) \in Nat /\ Len(Universe) # 0
    BY UniverseAssumption
  <2> QED
    BY <2>1, UniverseAssumption
<1>2. DOMAIN orders = {} /\ orders \in [DOMAIN orders -> OrderRecord]
  BY DEF Init
<1>3. DOMAIN portfolio.pos = Symbols /\ \A s \in Symbols : portfolio.pos[s].qty \in Int
  BY DEF Init, EmptyPortfolio, Flat
<1>4. Typed
  <2>1. bar \in Bar
    BY DEF Init, NoBar, Bar
  <2>2. pending \in [Symbols -> SUBSET DOMAIN orders]
    BY DEF Init
  <2>3. 0 \in 0..NTimes /\ 0 <= NTimes
    BY CalendarAssumption
  <2>4. DOMAIN orders \subseteq OrderId
    BY <1>2
  <2> QED
    BY <1>1, <1>2, <1>3, <2>1, <2>2, <2>3, <2>4 DEF Init, Typed, Phases
<1> QED
  BY <1>2, <1>4 DEF Init, Inv, Listed, Ages, Cooling, NoLookAhead, CooldownHolds, Ids

LEMMA TypedStep == Inv /\ [Next]_vars => Typed'
<1> SUFFICES ASSUME Inv, [Next]_vars PROVE Typed'
  OBVIOUS
<1> USE DEF Inv, Typed, Phases, barVars, riskVars
<1>1. ASSUME NEW S \in SUBSET Symbols, next_bar_time(S) PROVE Typed'
  BY <1>1, CalendarAssumption DEF next_bar_time
<1>2. ASSUME NEW s \in Symbols, NEW b \in Bars, begin_bar(s, b) PROVE Typed'
  BY <1>2, BarsAssumption DEF begin_bar
<1>3. ASSUME NEW id \in queue, process_open_order(id) PROVE Typed'
  <2>1. orders[id].sym = id.sym
    BY DEF Listed, Ids
  <2>2. UNCHANGED <<phase, now, todo, symbol, bar, breached>> /\ queue' = queue \ {id}
    BY <1>3 DEF process_open_order
  <2>3. CASE Filled(id)
    <3>1. \A s \in Symbols : portfolio'.pos[s].qty \in Int
      BY <2>3 DEF Filled, OrderRecord
    <3>2. DOMAIN orders' = DOMAIN orders /\ orders' \in [DOMAIN orders -> OrderRecord]
      BY <2>3, FilledOrders
    <3>3. lossAt' \in 0..NTimes
      BY <2>3, CalendarAssumption DEF Filled
    <3> QED
      BY <2>2, <2>3, <3>1, <3>2, <3>3 DEF Filled
  <2>4. CASE Kept(id)
    BY <2>2, <2>4 DEF Kept
  <2> QED
    BY <1>3, <2>1, <2>3, <2>4, ProcessOpenOrder
<1>4. ASSUME NEW decision \in Decisions, evaluate_bar(decision) PROVE Typed'
  <2>1. PICK new : Evaluated(new)
    BY <1>4, EvaluateBar
  <2>2. UNCHANGED <<now, todo, symbol, bar, queue, portfolio, cooldown, lossAt>> /\ phase' = "bars"
    BY <1>4 DEF evaluate_bar
  <2>3. breached' \in BOOLEAN
    BY <1>4 DEF evaluate_bar
  <2>4. new \subseteq OrderId
    BY <2>1 DEF Evaluated, IsNewOrder
  <2>5. pending' \in [Symbols -> SUBSET DOMAIN orders']
    BY <2>1 DEF Evaluated
  <2>6. phase = "fill"
    BY <1>4 DEF evaluate_bar
  <2> QED
    BY <2>1, <2>2, <2>3, <2>4, <2>5, <2>6 DEF Evaluated
<1>5. ASSUME NEW decision \in Decisions, evaluate_bar_raises(decision) PROVE Typed'
  BY <1>5 DEF evaluate_bar_raises
<1>6. CASE close_bar_time
  <2>1. cooldown' \in Nat
    BY <1>6 DEF close_bar_time, complete_bar
  <2> QED
    BY <1>6, <2>1 DEF close_bar_time
<1>7. CASE finish_run
  BY <1>7, ExpiredOrders DEF finish_run
<1>8. CASE UNCHANGED vars
  BY <1>8 DEF vars
<1> QED
  BY <1>1, <1>2, <1>3, <1>4, <1>5, <1>6, <1>7, <1>8 DEF Next

LEMMA ListedStep == Inv /\ [Next]_vars => Listed'
<1> SUFFICES ASSUME Inv, [Next]_vars PROVE Listed'
  OBVIOUS
<1> USE DEF Inv, Listed, Ids, barVars, riskVars
<1>1. ASSUME NEW S \in SUBSET Symbols, next_bar_time(S) PROVE Listed'
  BY <1>1 DEF next_bar_time
<1>2. ASSUME NEW s \in Symbols, NEW b \in Bars, begin_bar(s, b) PROVE Listed'
  <2>1. queue = {} /\ queue' = pending[s] /\ symbol' = s /\ phase' = "fill"
        /\ pending' = [pending EXCEPT ![s] = {}] /\ orders' = orders /\ phase = "bars"
    BY <1>2 DEF begin_bar
  <2>2. /\ pending'[s] = {}
        /\ \A t \in Symbols \ {s} : pending'[t] = pending[t]
    BY <2>1 DEF Typed
  <2>3. \A id \in DOMAIN orders : id.at \in Symbols
    BY DEF Typed, OrderId
  <2> QED
    BY <2>1, <2>2, <2>3
<1>3. ASSUME NEW id \in queue, process_open_order(id) PROVE Listed'
  <2>1. /\ UNCHANGED <<phase, symbol>> /\ queue' = queue \ {id}
        /\ id \in DOMAIN orders /\ id.at = symbol /\ phase = "fill"
    BY <1>3 DEF process_open_order, Typed
  <2>2. CASE Filled(id)
    <3>1. /\ DOMAIN orders' = DOMAIN orders
          /\ orders'[id].status = "filled"
          /\ \A other \in DOMAIN orders \ {id} : orders'[other] = orders[other]
          /\ \A other \in DOMAIN orders : orders'[other].sym = orders[other].sym
      BY <2>2, FilledOrders
    <3>2. pending' = pending
      BY <2>2 DEF Filled
    <3> QED
      BY <2>1, <3>1, <3>2
  <2>3. CASE Kept(id)
    <3>1. /\ pending'[symbol] = pending[symbol] \union {id}
          /\ \A s \in Symbols \ {symbol} : pending'[s] = pending[s]
      BY <2>3 DEF Kept, Typed
    <3>2. \A other \in DOMAIN orders : other.at \in Symbols
      BY DEF Typed, OrderId
    <3> QED
      BY <2>1, <2>3, <3>1, <3>2 DEF Kept, Typed
  <2> QED
    BY <1>3, <2>1, <2>2, <2>3, ProcessOpenOrder
<1>4. ASSUME NEW decision \in Decisions, evaluate_bar(decision) PROVE Listed'
  <2>1. PICK new : Evaluated(new)
    BY <1>4, EvaluateBar
  <2>2. UNCHANGED <<symbol, queue>> /\ phase' = "bars" /\ queue = {} /\ phase = "fill"
    BY <1>4 DEF evaluate_bar
  <2>3. \A id \in new : id \notin DOMAIN orders
    BY <2>1, <2>2 DEF Evaluated, IsNewOrder, Ages
  <2>4. \A id \in DOMAIN orders' : id.at \in Symbols
    BY <2>1 DEF Evaluated, IsNewOrder, Typed, OrderId
  <2>5. \A s \in Symbols : pending'[s] = pending[s] \union {id \in new : id.at = s}
    BY <2>1 DEF Evaluated
  <2>6. \A s \in Symbols : pending[s] \subseteq DOMAIN orders
    BY DEF Typed
  <2> QED
    BY <2>1, <2>2, <2>3, <2>4, <2>5, <2>6 DEF Evaluated, IsNewOrder
<1>5. ASSUME NEW decision \in Decisions, evaluate_bar_raises(decision) PROVE Listed'
  BY <1>5 DEF evaluate_bar_raises
<1>6. CASE close_bar_time
  BY <1>6 DEF close_bar_time
<1>7. CASE finish_run
  <2>1. \A id \in DOMAIN orders : StillOpen(id) <=> id \in pending[id.at]
    BY DEF StillOpen, Typed, OrderId
  <2>2. UNCHANGED <<symbol, queue, pending>> /\ phase' = "done" /\ phase = "between"
    BY <1>7 DEF finish_run
  <2>3. /\ DOMAIN orders' = DOMAIN orders
        /\ \A id \in DOMAIN orders :
              /\ orders'[id].status = IF StillOpen(id) THEN "expired" ELSE orders[id].status
              /\ orders'[id].sym = orders[id].sym
    BY <1>7, ExpiredOrders
  <2> QED
    BY <2>1, <2>2, <2>3
<1>8. CASE UNCHANGED vars
  BY <1>8 DEF vars
<1> QED
  BY <1>1, <1>2, <1>3, <1>4, <1>5, <1>6, <1>7, <1>8 DEF Next

LEMMA AgesStep == Inv /\ [Next]_vars => Ages'
<1> SUFFICES ASSUME Inv, [Next]_vars PROVE Ages'
  OBVIOUS
<1> USE DEF Inv, Ages, Ids, NoLookAhead, barVars, riskVars
<1>0. \A id \in DOMAIN orders : id.born \in Nat
  BY DEF Typed, OrderId
<1>1. ASSUME NEW S \in SUBSET Symbols, next_bar_time(S) PROVE Ages'
  BY <1>0, <1>1 DEF next_bar_time, Typed
<1>2. ASSUME NEW s \in Symbols, NEW b \in Bars, begin_bar(s, b) PROVE Ages'
  BY <1>2 DEF begin_bar, IsNext
<1>3. ASSUME NEW id \in queue, process_open_order(id) PROVE Ages'
  <2>1. /\ UNCHANGED <<phase, now, todo, symbol>>
        /\ id \in DOMAIN orders /\ id.at = symbol /\ phase = "fill"
    BY <1>3 DEF process_open_order, Typed, Listed
  <2>2. CASE Filled(id)
    <3>1. id.born < now
      BY <1>0, <2>1 DEF Typed
    <3> QED
      BY <2>1, <2>2, <3>1, FilledOrders
  <2>3. CASE Kept(id)
    BY <2>1, <2>3 DEF Kept
  <2> QED
    BY <1>3, <2>1, <2>2, <2>3, ProcessOpenOrder DEF Listed
<1>4. ASSUME NEW decision \in Decisions, evaluate_bar(decision) PROVE Ages'
  <2>1. PICK new : Evaluated(new)
    BY <1>4, EvaluateBar
  <2>2. UNCHANGED <<now, todo, symbol>> /\ phase' = "bars" /\ phase = "fill"
    BY <1>4 DEF evaluate_bar
  <2> QED
    BY <2>1, <2>2 DEF Evaluated, IsNewOrder, Typed
<1>5. ASSUME NEW decision \in Decisions, evaluate_bar_raises(decision) PROVE Ages'
  BY <1>5 DEF evaluate_bar_raises
<1>6. CASE close_bar_time
  BY <1>6 DEF close_bar_time
<1>7. CASE finish_run
  <2>1. UNCHANGED now /\ phase' = "done"
    BY <1>7 DEF finish_run
  <2> QED
    BY <1>7, <2>1, ExpiredOrders
<1>8. CASE UNCHANGED vars
  BY <1>8 DEF vars
<1> QED
  BY <1>1, <1>2, <1>3, <1>4, <1>5, <1>6, <1>7, <1>8 DEF Next

LEMMA CoolingStep == Inv /\ [Next]_vars => Cooling'
<1> SUFFICES ASSUME Inv, [Next]_vars PROVE Cooling'
  OBVIOUS
<1> USE DEF Inv, Cooling, CooldownHolds, Ids, barVars, riskVars
<1>0. /\ Policy.cooldownBars # Off => Policy.cooldownBars \in Nat
      /\ now \in Nat /\ cooldown \in Nat /\ lossAt \in Nat
  BY PolicyAssumption, CalendarAssumption DEF PolicyType, NaturalOption, Typed
<1>1. ASSUME NEW S \in SUBSET Symbols, next_bar_time(S) PROVE Cooling'
  BY <1>0, <1>1 DEF next_bar_time
<1>2. ASSUME NEW s \in Symbols, NEW b \in Bars, begin_bar(s, b) PROVE Cooling'
  BY <1>0, <1>2 DEF begin_bar
<1>3. ASSUME NEW id \in queue, process_open_order(id) PROVE Cooling'
  <2>1. UNCHANGED <<phase, now>> /\ phase = "fill" /\ orders[id].sym = id.sym
    BY <1>3 DEF process_open_order, Typed, Listed
  <2>2. CASE Filled(id)
    <3>1. /\ DOMAIN orders' = DOMAIN orders
          /\ \A other \in DOMAIN orders : /\ orders'[other].expands = orders[other].expands
                                          /\ orders'[other].afterLoss = orders[other].afterLoss
      BY <2>2, FilledOrders
    <3>2. /\ cooldown' \in Nat /\ cooldown' >= cooldown
          /\ lossAt' # lossAt =>
                lossAt' = now /\ (Policy.cooldownBars # Off => cooldown' >= Policy.cooldownBars)
      BY <2>2 DEF Filled
    <3> QED
      BY <1>0, <2>1, <3>1, <3>2
  <2>3. CASE Kept(id)
    BY <2>1, <2>3 DEF Kept
  <2> QED
    BY <1>3, <2>1, <2>2, <2>3, ProcessOpenOrder
<1>4. ASSUME NEW decision \in Decisions, evaluate_bar(decision) PROVE Cooling'
  <2>1. PICK new : Evaluated(new)
    BY <1>4, EvaluateBar
  <2>2. UNCHANGED <<now, cooldown, lossAt>> /\ phase' = "bars" /\ phase = "fill"
    BY <1>4 DEF evaluate_bar
  <2>3. \A id \in new : id.born = now /\ orders'[id].afterLoss = lossAt
                        /\ (orders'[id].expands => cooldown = 0)
    BY <2>1 DEF Evaluated, IsNewOrder
  <2> QED
    BY <1>0, <2>1, <2>2, <2>3 DEF Evaluated
<1>5. ASSUME NEW decision \in Decisions, evaluate_bar_raises(decision) PROVE Cooling'
  BY <1>5 DEF evaluate_bar_raises
<1>6. CASE close_bar_time
  BY <1>0, <1>6 DEF close_bar_time, complete_bar
<1>7. CASE finish_run
  <2>1. UNCHANGED <<now, cooldown, lossAt>> /\ phase' = "done" /\ phase = "between"
    BY <1>7 DEF finish_run
  <2>2. /\ DOMAIN orders' = DOMAIN orders
        /\ \A id \in DOMAIN orders : /\ orders'[id].expands = orders[id].expands
                                     /\ orders'[id].afterLoss = orders[id].afterLoss
    BY <1>7, ExpiredOrders
  <2> QED
    BY <1>0, <2>1, <2>2
<1>8. CASE UNCHANGED vars
  BY <1>8 DEF vars
<1> QED
  BY <1>1, <1>2, <1>3, <1>4, <1>5, <1>6, <1>7, <1>8 DEF Next

LEMMA Invariance == Spec => []Inv
<1>1. Inv /\ [Next]_vars => Inv'
  BY TypedStep, ListedStep, AgesStep, CoolingStep DEF Inv
<1> QED
  BY InvInit, <1>1, PTL DEF Spec

-----------------------------------------------------------------------------
(* Theorems about every run *)

\* No order is filled on a bar of the time it was decided at, or an earlier
\* one, whichever symbol of the group decided on it (run_bars).
THEOREM FillsNeverLookAhead == Spec => []NoLookAhead
<1>1. Inv => NoLookAhead
  BY DEF Inv, Ages
<1> QED
  BY <1>1, Invariance, PTL

\* An order is open exactly while it waits in one list or in the queue of the
\* bar at hand; the end of a run leaves none open (run_bars, expire_open_order).
THEOREM OrdersAreNotLost == Spec => []OpenOrdersWait
<1>1. Inv => OpenOrdersWait
  <2> SUFFICES ASSUME Inv PROVE OpenOrdersWait
    OBVIOUS
  <2> USE DEF Inv, Listed, Typed
  <2>1. \A id \in Ids : id.at \in Symbols
    BY DEF Ids, OrderId
  <2>2. phase # "done" => {id \in Ids : orders[id].status = "submitted"}
                            = queue \union UNION {pending[s] : s \in Symbols}
    BY <2>1 DEF Ids
  <2>3. /\ \A s \in Symbols : queue \intersect pending[s] = {}
        /\ \A s, t \in Symbols : s # t => pending[s] \intersect pending[t] = {}
    OBVIOUS
  <2> QED
    BY <2>2, <2>3 DEF OpenOrdersWait
<1> QED
  BY <1>1, Invariance, PTL

\* After a losing close no entry is ordered until the configured number of bars
\* has been evaluated (RiskGuardrailEngine's cooldown).
THEOREM CooldownIsServed == Spec => []CooldownHolds
<1>1. Inv => CooldownHolds
  BY DEF Inv, Cooling
<1> QED
  BY <1>1, Invariance, PTL

-----------------------------------------------------------------------------
(* Market orders: what is in flight lands on an allowed target *)

\* An order of the symbol in whose list it waits; the others never fill.
InFlight(id) == id.at = id.sym /\ (id \in queue \/ id \in pending[id.at])

Lands(id) ==
    /\ portfolio.pos[id.sym].qty + orders[id].qty = orders[id].target
    /\ WithinCap(orders[id].target, portfolio.pos[id.sym].qty)

\* One order in flight per symbol, computed from the position it will meet;
\* between a symbol's fills and its decision there is none.
Landing ==
    /\ \A id \in Ids : InFlight(id) => Lands(id)
    /\ \A id, other \in Ids : InFlight(id) /\ InFlight(other) /\ id.sym = other.sym => id = other
    /\ phase = "fill" => \A id \in Ids : InFlight(id) /\ id.sym = symbol => id \in queue
    /\ PositionCapped

MarketInv == Inv /\ Landing

LEMMA LandingInit == Init => Landing
<1> SUFFICES ASSUME Init PROVE Landing
  OBVIOUS
<1>1. Policy.maxPositionQty # Off => Policy.maxPositionQty \in Nat
  BY PolicyAssumption DEF PolicyType, NaturalOption
<1>2. \A s \in Symbols : portfolio.pos[s].qty = 0
  BY DEF Init, EmptyPortfolio, Flat
<1>3. Ids = {} /\ phase = "between"
  BY DEF Init, Ids
<1> QED
  BY <1>1, <1>2, <1>3 DEF Landing, PositionCapped, Abs

LEMMA LandingFill ==
    ASSUME MarketInv, NEW id \in queue, process_open_order(id), Filled(id)
    PROVE  Landing'
<1> USE DEF MarketInv, Inv, Typed, Ids
<1>1. /\ UNCHANGED <<phase, symbol>> /\ queue' = queue \ {id} /\ phase = "fill"
      /\ id \in DOMAIN orders /\ id.at = symbol /\ orders[id].sym = symbol /\ id.sym = symbol
      /\ InFlight(id) /\ id \notin pending[symbol] /\ pending' = pending
  <2>1. UNCHANGED <<phase, symbol>> /\ queue' = queue \ {id} /\ phase = "fill"
    BY DEF process_open_order, barVars
  <2>2. orders[id].sym = symbol /\ pending' = pending
    BY DEF Filled
  <2> QED
    BY <2>1, <2>2 DEF Listed, InFlight
<1>2. /\ DOMAIN orders' = DOMAIN orders
      /\ orders'[id].status = "filled"
      /\ \A other \in DOMAIN orders \ {id} : orders'[other] = orders[other]
  BY FilledOrders
<1>3. /\ portfolio'.pos[symbol].qty = orders[id].target
      /\ \A s \in Symbols \ {symbol} : portfolio'.pos[s] = portfolio.pos[s]
  BY <1>1 DEF Filled, Landing, Lands
<1>4. \A other \in DOMAIN orders : InFlight(other)' => other # id /\ InFlight(other)
  BY <1>1 DEF InFlight
<1>5. \A other \in DOMAIN orders : InFlight(other)' => other.sym # symbol /\ other.sym \in Symbols
  BY <1>1, <1>4 DEF Landing, OrderId
<1>6. \A other \in DOMAIN orders : InFlight(other)' => Lands(other)'
  <2> SUFFICES ASSUME NEW other \in DOMAIN orders, InFlight(other)' PROVE Lands(other)'
    OBVIOUS
  <2>1. Lands(other) /\ orders'[other] = orders[other]
        /\ portfolio'.pos[other.sym] = portfolio.pos[other.sym]
    BY <1>2, <1>3, <1>4, <1>5 DEF Landing
  <2> QED
    BY <2>1 DEF Lands, WithinCap
<1>7. PositionCapped'
  <2>1. Policy.maxPositionQty # Off => Policy.maxPositionQty \in Nat
    BY PolicyAssumption DEF PolicyType, NaturalOption
  <2>2. WithinCap(orders[id].target, portfolio.pos[symbol].qty)
    BY <1>1 DEF Landing, Lands
  <2>3. orders[id].target \in Int /\ portfolio.pos[symbol].qty \in Int
    BY <1>1 DEF OrderRecord
  <2>4. Policy.maxPositionQty # Off => Abs(orders[id].target) <= Policy.maxPositionQty
    BY <2>1, <2>2, <2>3 DEF WithinCap, Landing, PositionCapped, Abs
  <2> QED
    BY <1>3, <2>4 DEF Landing, PositionCapped
<1> QED
  BY <1>1, <1>2, <1>4, <1>5, <1>6, <1>7 DEF Landing

LEMMA LandingEvaluate ==
    ASSUME MarketInv, NEW decision \in Decisions, evaluate_bar(decision)
    PROVE  Landing'
<1> USE DEF MarketInv, Inv, Typed, Ids
<1>1. PICK new : Evaluated(new)
  BY EvaluateBar
<1>2. /\ UNCHANGED <<symbol, queue, portfolio>> /\ phase' = "bars" /\ queue = {}
      /\ phase = "fill"
  BY DEF evaluate_bar, barVars
<1>3. \A id \in new : id \notin DOMAIN orders
  BY <1>1, <1>2 DEF Evaluated, IsNewOrder, Ages
<1>4. /\ DOMAIN orders' = DOMAIN orders \union new
      /\ \A id \in DOMAIN orders : orders'[id] = orders[id]
      /\ \A id \in new : IsNewOrder(id, orders'[id])
  BY <1>1, <1>3 DEF Evaluated
<1>5. \A id \in DOMAIN orders : InFlight(id)' => InFlight(id) /\ id.sym # symbol
  <2>1. \A id \in DOMAIN orders : id \in pending'[id.at] => id \in pending[id.at]
    BY <1>1, <1>3 DEF Evaluated, OrderId
  <2> QED
    BY <1>2, <2>1 DEF InFlight, Landing
<1>6. \A id \in new : InFlight(id)' => id.sym = symbol
  BY <1>4 DEF IsNewOrder, InFlight
<1>7. \A id \in DOMAIN orders' : InFlight(id)' => Lands(id)'
  <2>1. \A id \in DOMAIN orders : InFlight(id)' => Lands(id)'
    BY <1>2, <1>4, <1>5 DEF Landing, Lands, WithinCap
  <2>2. \A id \in new : Lands(id)'
    BY <1>2, <1>4 DEF IsNewOrder, Lands, WithinCap
  <2> QED
    BY <1>4, <2>1, <2>2
<1>8. \A id, other \in new : id.sym = other.sym => id = other
  BY <1>4 DEF IsNewOrder, OrderId
<1> QED
  BY <1>2, <1>4, <1>5, <1>6, <1>7, <1>8 DEF Landing, PositionCapped

LEMMA LandingStep ==
    ASSUME OrderTypePreference = "market"
    PROVE  MarketInv /\ [Next]_vars => Landing'
<1> SUFFICES ASSUME MarketInv, [Next]_vars PROVE Landing'
  OBVIOUS
<1> USE DEF MarketInv, Inv, Ids, barVars, riskVars
<1>1. ASSUME NEW S \in SUBSET Symbols, next_bar_time(S) PROVE Landing'
  BY <1>1 DEF next_bar_time, Landing, InFlight, Lands, WithinCap, PositionCapped
<1>2. ASSUME NEW s \in Symbols, NEW b \in Bars, begin_bar(s, b) PROVE Landing'
  <2>1. /\ queue' = pending[s] /\ symbol' = s /\ phase = "bars" /\ UNCHANGED <<orders, portfolio>>
        /\ queue = {}
    BY <1>2 DEF begin_bar, Listed
  <2>2. /\ pending'[s] = {}
        /\ \A t \in Symbols \ {s} : pending'[t] = pending[t]
    BY <1>2 DEF begin_bar, Typed
  <2>3. \A id \in DOMAIN orders : id.at \in Symbols
    BY DEF Typed, OrderId
  <2>4. \A id \in DOMAIN orders :
            /\ InFlight(id)' => InFlight(id)
            /\ InFlight(id)' /\ id.sym = s => id \in queue'
    BY <2>1, <2>2, <2>3 DEF InFlight, Listed
  <2>5. \A id \in DOMAIN orders : Lands(id) => Lands(id)'
    BY <2>1 DEF Lands, WithinCap
  <2> QED
    BY <2>1, <2>4, <2>5 DEF Landing, PositionCapped
<1>3. ASSUME NEW id \in queue, process_open_order(id) PROVE Landing'
  <2>1. /\ UNCHANGED <<phase, symbol>> /\ queue' = queue \ {id} /\ phase = "fill"
        /\ id \in DOMAIN orders /\ orders[id].sym = id.sym /\ orders[id].status = "submitted"
    BY <1>3 DEF process_open_order, Typed, Listed
  <2>2. CASE Filled(id)
    BY <1>3, <2>2, LandingFill
  <2>3. CASE Kept(id)
    <3>1. id.sym # symbol
      BY <2>1, <2>3 DEF Kept, IsFilledBy, Meets
    <3>2. UNCHANGED <<orders, portfolio>>
      BY <2>3 DEF Kept
    <3>3. \A other \in DOMAIN orders : InFlight(other)' => InFlight(other)
      BY <2>1, <2>3 DEF Kept, InFlight, Typed, OrderId, Listed
    <3> QED
      BY <2>1, <3>1, <3>2, <3>3 DEF Landing, Lands, WithinCap, PositionCapped
  <2> QED
    BY <1>3, <2>1, <2>2, <2>3, ProcessOpenOrder
<1>4. ASSUME NEW decision \in Decisions, evaluate_bar(decision) PROVE Landing'
  BY <1>4, LandingEvaluate
<1>5. ASSUME NEW decision \in Decisions, evaluate_bar_raises(decision) PROVE Landing'
  BY <1>5 DEF evaluate_bar_raises, Landing, InFlight, Lands, WithinCap, PositionCapped
<1>6. CASE close_bar_time
  BY <1>6 DEF close_bar_time, Landing, InFlight, Lands, WithinCap, PositionCapped
<1>7. CASE finish_run
  <2>1. UNCHANGED <<queue, pending, portfolio>> /\ phase' = "done"
    BY <1>7 DEF finish_run
  <2>2. /\ DOMAIN orders' = DOMAIN orders
        /\ \A id \in DOMAIN orders : /\ orders'[id].qty = orders[id].qty
                                     /\ orders'[id].target = orders[id].target
    BY <1>7, ExpiredOrders
  <2> QED
    BY <2>1, <2>2 DEF Landing, InFlight, Lands, WithinCap, PositionCapped
<1>8. CASE UNCHANGED vars
  BY <1>8 DEF vars, Landing, InFlight, Lands, WithinCap, PositionCapped
<1> QED
  BY <1>1, <1>2, <1>3, <1>4, <1>5, <1>6, <1>7, <1>8 DEF Next

LEMMA MarketInvariance ==
    ASSUME OrderTypePreference = "market"
    PROVE  Spec => []MarketInv
<1>1. Inv /\ [Next]_vars => Inv'
  BY TypedStep, ListedStep, AgesStep, CoolingStep DEF Inv
<1>2. Init => MarketInv
  BY InvInit, LandingInit DEF MarketInv
<1>3. MarketInv /\ [Next]_vars => MarketInv'
  BY <1>1, LandingStep DEF MarketInv
<1> QED
  BY <1>2, <1>3, PTL DEF Spec

\* With market orders a position never exceeds max_position_qty, although the
\* guardrails look at no pending order and may be bypassed by a reduction.
THEOREM MarketPositionsAreCapped ==
    ASSUME OrderTypePreference = "market"
    PROVE  Spec => []PositionCapped
<1>1. MarketInv => PositionCapped
  BY DEF MarketInv, Landing
<1> QED
  BY <1>1, MarketInvariance, PTL

\* With market orders a symbol has one order of its own in flight at most, and
\* its fill lands on the target that was allowed.
THEOREM MarketOrdersReachTheirTarget ==
    ASSUME OrderTypePreference = "market"
    PROVE  Spec => []TargetReached
<1>1. MarketInv => TargetReached
  <2> SUFFICES ASSUME MarketInv, NEW s \in Symbols
               PROVE  LET listed == pending[s] \union (IF s = symbol THEN queue ELSE {})
                          inFlight == {id \in listed : id.sym = s}
                      IN /\ Cardinality(inFlight) <= 1
                         /\ \A id \in inFlight :
                                portfolio.pos[s].qty + orders[id].qty = orders[id].target
    BY DEF TargetReached
  <2> DEFINE listed == pending[s] \union (IF s = symbol THEN queue ELSE {})
             inFlight == {id \in listed : id.sym = s}
  <2>1. \A id \in inFlight : id \in Ids /\ InFlight(id) /\ id.sym = s
    BY DEF MarketInv, Inv, Typed, Listed, InFlight, Ids
  <2>2. \A id \in inFlight : portfolio.pos[s].qty + orders[id].qty = orders[id].target
    BY <2>1 DEF MarketInv, Landing, Lands
  <2>3. Cardinality(inFlight) <= 1
    <3> HIDE DEF inFlight
    <3>1. CASE inFlight = {}
      BY <3>1, FS_EmptySet
    <3>2. CASE inFlight # {}
      <4>1. PICK id : id \in inFlight
        BY <3>2
      <4>2. \A other \in inFlight : other = id
        BY <2>1, <4>1 DEF MarketInv, Landing
      <4>3. inFlight = {id}
        BY <4>1, <4>2
      <4>4. Cardinality({id}) = 1
        BY FS_Singleton
      <4> QED
        BY <4>3, <4>4
    <3> QED
      BY <3>1, <3>2
  <2> QED
    BY <2>2, <2>3
<1> QED
  BY <1>1, MarketInvariance, PTL

-----------------------------------------------------------------------------
(* The money: what a fill costs, and the sums over the symbols *)

Portfolios == [cash : Int, pos : [Symbols -> [qty : Int, entry : Int]], realized : Int,
               fees : Int, closes : Nat, wins : Nat]
Sessions == [day : Nat, dayStart : Int, peak : Int, last : Int]

LEMMA SymbolsAreFinite == IsFiniteSet(Symbols)
<1> DEFINE n == Len(Universe)
           f == [i \in 1..n |-> Universe[i]]
<1>1. n \in Nat /\ Symbols = {Universe[i] : i \in 1..n}
  BY UniverseAssumption
<1> HIDE DEF n
<1>2. IsFiniteSet(1..n)
  BY <1>1, FS_Interval
<1>3. f \in Surjection(1..n, Symbols)
  BY <1>1 DEF Surjection
<1> QED
  BY <1>2, <1>3, FS_Surjection

\* Prices and fees of fills are whole numbers.
LEMMA FillTypes ==
    ASSUME NEW order, order.sym \in Symbols, order.qty \in Int, order.limit \in Int,
           NEW b \in Bar
    PROVE  /\ Fill(order, b).sym = order.sym /\ Fill(order, b).qty = order.qty
           /\ Fill(order, b).price \in Int /\ Fill(order, b).fee \in Int
<1> DEFINE price == FillPrice(order, b)
           size == price * Abs(order.qty)
<1>1. b.open \in Int /\ MarketSlippageBps \in Int /\ FeeBps \in Int
  BY BpsAssumption DEF Bar, FeeBps
<1>2. price \in Int
  <2> DEFINE slippage == (b.open * MarketSlippageBps) \div 10000
  <2>1. slippage \in Int
    <3> DEFINE x == b.open * MarketSlippageBps
    <3>1. x \in Int
      BY <1>1
    <3> HIDE DEF x
    <3>2. x \div 10000 \in Int
      BY <3>1
    <3> QED
      BY <3>2 DEF x
  <2> HIDE DEF slippage
  <2>2. price = IF OrderTypePreference = "limit" THEN order.limit
                ELSE IF order.qty > 0 THEN b.open + slippage ELSE b.open - slippage
    BY DEF FillPrice, slippage
  <2> QED
    BY <1>1, <2>1, <2>2
<1>3. Abs(order.qty) \in Int
  BY DEF Abs
<1> HIDE DEF price
<1>4. size \in Int
  BY <1>2, <1>3
<1> DEFINE y == size * FeeBps
<1>5. y \in Int
  <2> HIDE DEF size
  <2> QED
    BY <1>1, <1>4
<1> HIDE DEF y, size
<1>6. y \div 10000 \in Int
  BY <1>5
<1> QED
  BY <1>2, <1>6 DEF Fill, price, size, y

\* A position after a fill.
LEMMA PositionTypes ==
    ASSUME NEW position \in [qty : Int, entry : Int], NEW fill,
           fill.qty \in Int, fill.price \in Int
    PROVE  /\ PositionAfter(position, fill) \in [qty : Int, entry : Int]
           /\ RealizedBy(position, fill) \in Int
<1> DEFINE q == position.qty
           e == position.entry
           f == fill.qty
           p == fill.price
<1>1. q \in Int /\ e \in Int /\ f \in Int /\ p \in Int
  OBVIOUS
<1>2. RealizedBy(position, fill) \in Int
  <2> DEFINE c == ClosingQty(position, fill)
  <2>1. c \in Int
    BY <1>1 DEF ClosingQty, Least, Abs
  <2> HIDE DEF c
  <2>2. (p - e) * c \in Int /\ (e - p) * c \in Int
    BY <1>1, <2>1
  <2> QED
    BY <2>2 DEF RealizedBy, c
<1>3. EntryAfter(position, fill) \in Int
  <2>1. CASE q = 0
    BY <1>1, <2>1 DEF EntryAfter
  <2>2. CASE Adds(position, fill)
    <3> DEFINE x == e * Abs(q) + p * Abs(f)
               y == Abs(q + f)
    <3>1. y \in Nat \ {0} /\ q # 0
      BY <1>1, <2>2 DEF Adds, SameSide, Abs
    <3>2. x \in Int
      <4>1. Abs(q) \in Int /\ Abs(f) \in Int
        BY <1>1 DEF Abs
      <4>2. e * Abs(q) \in Int /\ p * Abs(f) \in Int
        BY <1>1, <4>1
      <4> QED
        BY <4>2
    <3>3. EntryAfter(position, fill) = x \div y
      BY <2>2, <3>1 DEF EntryAfter
    <3> HIDE DEF x, y
    <3>4. x \div y \in Int
      BY <3>1, <3>2
    <3> QED
      BY <3>3, <3>4
  <2>3. CASE q # 0 /\ ~ Adds(position, fill)
    <3>1. EntryAfter(position, fill) \in {0, e, p}
      BY <1>1, <2>3 DEF EntryAfter
    <3> QED
      BY <1>1, <3>1
  <2> QED
    BY <2>1, <2>2, <2>3
<1> QED
  BY <1>1, <1>2, <1>3 DEF PositionAfter

LEMMA FillKeepsPortfolio ==
    ASSUME NEW p \in Portfolios, NEW fill, fill.sym \in Symbols,
           fill.qty \in Int, fill.price \in Int, fill.fee \in Int
    PROVE  apply_fill(p, fill) \in Portfolios
<1> DEFINE position == p.pos[fill.sym]
<1>1. position \in [qty : Int, entry : Int] /\ p.pos \in [Symbols -> [qty : Int, entry : Int]]
  BY DEF Portfolios
<1>2. PositionAfter(position, fill) \in [qty : Int, entry : Int] /\ RealizedBy(position, fill) \in Int
  BY <1>1, PositionTypes
<1> DEFINE cost == fill.price * fill.qty
           after == PositionAfter(position, fill)
           won == RealizedBy(position, fill)
<1>3. cost \in Int /\ after \in [qty : Int, entry : Int] /\ won \in Int
  BY <1>2
<1>4. apply_fill(p, fill) =
        [cash |-> p.cash - cost - fill.fee, pos |-> [p.pos EXCEPT ![fill.sym] = after],
         realized |-> p.realized + won, fees |-> p.fees + fill.fee,
         closes |-> p.closes + (IF ClosesAny(position, fill) THEN 1 ELSE 0),
         wins |-> p.wins + (IF won > 0 THEN 1 ELSE 0)]
  BY DEF apply_fill
<1> HIDE DEF cost, after, won
<1>5. [p.pos EXCEPT ![fill.sym] = after] \in [Symbols -> [qty : Int, entry : Int]]
  BY <1>1, <1>3
<1>6. /\ p.cash - cost - fill.fee \in Int /\ p.realized + won \in Int /\ p.fees + fill.fee \in Int
      /\ p.closes + (IF ClosesAny(position, fill) THEN 1 ELSE 0) \in Nat
      /\ p.wins + (IF won > 0 THEN 1 ELSE 0) \in Nat
  BY <1>3 DEF Portfolios
<1> QED
  BY <1>4, <1>5, <1>6 DEF Portfolios

\* What a position is worth at the marks, and what it has cost.
Worth(p, m) == [s \in Symbols |-> p.pos[s].qty * MarkPrice(p, m, s)]
Paid(p) == [s \in Symbols |-> p.pos[s].entry * p.pos[s].qty]
Gain(p, m) == [s \in Symbols |-> (MarkPrice(p, m, s) - p.pos[s].entry) * p.pos[s].qty]

LEMMA TermTypes ==
    ASSUME NEW p \in Portfolios, NEW m \in [Symbols -> Int], NEW s \in Symbols
    PROVE  /\ p.pos[s].qty \in Int /\ p.pos[s].entry \in Int /\ MarkPrice(p, m, s) \in Int
           /\ Worth(p, m)[s] \in Int /\ Paid(p)[s] \in Int /\ Gain(p, m)[s] \in Int
           /\ Worth(p, m)[s] = Gain(p, m)[s] + Paid(p)[s]
<1>1. p.pos[s] \in [qty : Int, entry : Int]
  BY DEF Portfolios
<1>2. MarkPrice(p, m, s) \in Int
  BY <1>1 DEF MarkPrice
<1> DEFINE q == p.pos[s].qty
           e == p.pos[s].entry
           x == MarkPrice(p, m, s)
<1>3. q \in Int /\ e \in Int /\ x \in Int
  BY <1>1, <1>2
<1>4. Worth(p, m)[s] = q * x /\ Paid(p)[s] = e * q /\ Gain(p, m)[s] = (x - e) * q
  BY DEF Worth, Paid, Gain
<1> HIDE DEF x
<1>5. q * x \in Int /\ e * q \in Int /\ (x - e) * q \in Int /\ q * x = (x - e) * q + e * q
  BY <1>3
<1> QED
  BY <1>1, <1>2, <1>4, <1>5 DEF q, e, x

LEMMA NetExposureIsTotal ==
    ASSUME NEW p \in Portfolios, NEW m \in [Symbols -> Int]
    PROVE  NetExposure(p, m) = Total(Worth(p, m), Symbols)
<1> DEFINE any(s) == CHOOSE x \in s : TRUE
           One(j, s) == IF s = {} THEN 0 ELSE Worth(p, m)[any(s)] + j[s \ {any(s)}]
           Two(j, s) == IF s = {} THEN 0 ELSE (p.pos[any(s)].qty * MarkPrice(p, m, any(s))) + j[s \ {any(s)}]
           Loop(j) == j = [s \in SUBSET Symbols |-> Two(j, s)]
           it == CHOOSE j : Loop(j)
<1>1. NetExposure(p, m) = it[Symbols]
  BY DEF NetExposure, MapThenSumSet, MapThenFoldSet
<1>2. IsFiniteSet(Symbols) /\ \A x \in Symbols : Worth(p, m)[x] \in Int
  BY SymbolsAreFinite, TermTypes
<1>3. ASSUME NEW j
      PROVE  IsSum(j, Worth(p, m), Symbols) <=> Loop(j)
  <2>1. ASSUME NEW s \in SUBSET Symbols
        PROVE  One(j, s) = Two(j, s)
    <3>1. s # {} => any(s) \in Symbols
      OBVIOUS
    <3> HIDE DEF any
    <3> QED
      BY <3>1 DEF Worth
  <2>2. IsSum(j, Worth(p, m), Symbols) <=> j = [s \in SUBSET Symbols |-> One(j, s)]
    BY DEF IsSum
  <2> HIDE DEF One, Two
  <2>3. [s \in SUBSET Symbols |-> One(j, s)] = [s \in SUBSET Symbols |-> Two(j, s)]
    BY <2>1
  <2> QED
    BY <2>2, <2>3, Zenon
<1> HIDE DEF Loop
<1>4. PICK j : Loop(j)
  BY <1>2, <1>3, SumExists
<1>5. IsSum(it, Worth(p, m), Symbols)
  BY <1>3, <1>4
<1> HIDE DEF it
<1> QED
  BY <1>1, <1>2, <1>5, LoopComputesTotal

LEMMA UnrealizedPnlIsTotal ==
    ASSUME NEW p \in Portfolios, NEW m \in [Symbols -> Int]
    PROVE  UnrealizedPnl(p, m) = Total(Gain(p, m), Symbols)
<1> DEFINE any(s) == CHOOSE x \in s : TRUE
           One(j, s) == IF s = {} THEN 0 ELSE Gain(p, m)[any(s)] + j[s \ {any(s)}]
           Two(j, s) == IF s = {} THEN 0 ELSE ((MarkPrice(p, m, any(s)) - p.pos[any(s)].entry) * p.pos[any(s)].qty) + j[s \ {any(s)}]
           Loop(j) == j = [s \in SUBSET Symbols |-> Two(j, s)]
           it == CHOOSE j : Loop(j)
<1>1. UnrealizedPnl(p, m) = it[Symbols]
  BY DEF UnrealizedPnl, MapThenSumSet, MapThenFoldSet
<1>2. IsFiniteSet(Symbols) /\ \A x \in Symbols : Gain(p, m)[x] \in Int
  BY SymbolsAreFinite, TermTypes
<1>3. ASSUME NEW j
      PROVE  IsSum(j, Gain(p, m), Symbols) <=> Loop(j)
  <2>1. ASSUME NEW s \in SUBSET Symbols
        PROVE  One(j, s) = Two(j, s)
    <3>1. s # {} => any(s) \in Symbols
      OBVIOUS
    <3> HIDE DEF any
    <3> QED
      BY <3>1 DEF Gain
  <2>2. IsSum(j, Gain(p, m), Symbols) <=> j = [s \in SUBSET Symbols |-> One(j, s)]
    BY DEF IsSum
  <2> HIDE DEF One, Two
  <2>3. [s \in SUBSET Symbols |-> One(j, s)] = [s \in SUBSET Symbols |-> Two(j, s)]
    BY <2>1
  <2> QED
    BY <2>2, <2>3, Zenon
<1> HIDE DEF Loop
<1>4. PICK j : Loop(j)
  BY <1>2, <1>3, SumExists
<1>5. IsSum(it, Gain(p, m), Symbols)
  BY <1>3, <1>4
<1> HIDE DEF it
<1> QED
  BY <1>1, <1>2, <1>5, LoopComputesTotal

\* The exposures that an intent would leave, whatever their sides.
Gross(intent, p, m) ==
    [s \in Symbols |-> Abs((IF s = intent.sym THEN intent.target ELSE p.pos[s].qty) * MarkPrice(p, m, s))]

LEMMA GrossTypes ==
    ASSUME NEW p \in Portfolios, NEW m \in [Symbols -> Int], NEW intent, intent.target \in Int,
           NEW s \in Symbols
    PROVE  Gross(intent, p, m)[s] \in Int
<1> DEFINE q == IF s = intent.sym THEN intent.target ELSE p.pos[s].qty
           x == MarkPrice(p, m, s)
<1>1. q \in Int /\ x \in Int
  BY TermTypes
<1>2. Gross(intent, p, m)[s] = Abs(q * x)
  BY DEF Gross
<1> HIDE DEF q, x
<1>3. q * x \in Int
  BY <1>1
<1>4. Abs(q * x) \in Int
  BY <1>3 DEF Abs
<1> QED
  BY <1>2, <1>4

LEMMA ResultingGrossIsTotal ==
    ASSUME NEW p \in Portfolios, NEW m \in [Symbols -> Int], NEW intent, intent.target \in Int
    PROVE  ResultingGross(intent, p, m) = Total(Gross(intent, p, m), Symbols)
<1> DEFINE any(s) == CHOOSE x \in s : TRUE
           One(j, s) == IF s = {} THEN 0 ELSE Gross(intent, p, m)[any(s)] + j[s \ {any(s)}]
           Two(j, s) == IF s = {} THEN 0 ELSE Abs((IF any(s) = intent.sym THEN intent.target ELSE p.pos[any(s)].qty) * MarkPrice(p, m, any(s))) + j[s \ {any(s)}]
           Loop(j) == j = [s \in SUBSET Symbols |-> Two(j, s)]
           it == CHOOSE j : Loop(j)
<1>1. ResultingGross(intent, p, m) = it[Symbols]
  BY DEF ResultingGross, MapThenSumSet, MapThenFoldSet
<1>2. IsFiniteSet(Symbols) /\ \A x \in Symbols : Gross(intent, p, m)[x] \in Int
  BY SymbolsAreFinite, GrossTypes
<1>3. ASSUME NEW j
      PROVE  IsSum(j, Gross(intent, p, m), Symbols) <=> Loop(j)
  <2>1. ASSUME NEW s \in SUBSET Symbols
        PROVE  One(j, s) = Two(j, s)
    <3>1. s # {} => any(s) \in Symbols
      OBVIOUS
    <3> HIDE DEF any
    <3> QED
      BY <3>1 DEF Gross
  <2>2. IsSum(j, Gross(intent, p, m), Symbols) <=> j = [s \in SUBSET Symbols |-> One(j, s)]
    BY DEF IsSum
  <2> HIDE DEF One, Two
  <2>3. [s \in SUBSET Symbols |-> One(j, s)] = [s \in SUBSET Symbols |-> Two(j, s)]
    BY <2>1
  <2> QED
    BY <2>2, <2>3, Zenon
<1> HIDE DEF Loop
<1>4. PICK j : Loop(j)
  BY <1>2, <1>3, SumExists
<1>5. IsSum(it, Gross(intent, p, m), Symbols)
  BY <1>3, <1>4
<1> HIDE DEF it
<1> QED
  BY <1>1, <1>2, <1>5, LoopComputesTotal

\* Equity is a whole number, the initial cash for an empty portfolio, and cash
\* and what was paid for the positions and what they have gained.
LEMMA EquityFacts ==
    ASSUME NEW p \in Portfolios, NEW m \in [Symbols -> Int]
    PROVE  /\ Equity(p, m) \in Int
           /\ Equity(p, m) = p.cash + Total(Paid(p), Symbols) + UnrealizedPnl(p, m)
           /\ p = EmptyPortfolio(InitialCash) => Equity(p, m) = InitialCash
<1>1. IsFiniteSet(Symbols)
  BY SymbolsAreFinite
<1>2. \A s \in Symbols :
        /\ Gain(p, m)[s] \in Int /\ Paid(p)[s] \in Int /\ Worth(p, m)[s] \in Int
        /\ Worth(p, m)[s] = Gain(p, m)[s] + Paid(p)[s]
  BY TermTypes
<1>3. Total(Worth(p, m), Symbols) = Total(Gain(p, m), Symbols) + Total(Paid(p), Symbols)
  BY <1>1, <1>2, TotalOfSums
<1>4. /\ Total(Worth(p, m), Symbols) \in Int /\ Total(Gain(p, m), Symbols) \in Int
      /\ Total(Paid(p), Symbols) \in Int
  BY <1>1, <1>2, TotalFacts
<1>5. /\ NetExposure(p, m) = Total(Worth(p, m), Symbols)
      /\ UnrealizedPnl(p, m) = Total(Gain(p, m), Symbols)
  BY NetExposureIsTotal, UnrealizedPnlIsTotal
<1>6. p.cash \in Int
  BY DEF Portfolios
<1>7. ASSUME p = EmptyPortfolio(InitialCash) PROVE Equity(p, m) = InitialCash
  <2>1. p.cash = InitialCash /\ \A s \in Symbols : p.pos[s].qty = 0
    BY <1>7 DEF EmptyPortfolio, Flat
  <2>2. \A s \in Symbols : Worth(p, m)[s] = 0
    <3> SUFFICES ASSUME NEW s \in Symbols PROVE Worth(p, m)[s] = 0
      OBVIOUS
    <3> DEFINE x == MarkPrice(p, m, s)
    <3>1. x \in Int
      BY TermTypes
    <3>2. Worth(p, m)[s] = 0 * x
      BY <2>1 DEF Worth
    <3> HIDE DEF x
    <3> QED
      BY <3>1, <3>2
  <2>3. Total(Worth(p, m), Symbols) = 0
    BY <1>1, <2>2, TotalOfZeros
  <2>4. InitialCash \in Int
    BY BarsAssumption
  <2> QED
    BY <1>5, <2>1, <2>3, <2>4 DEF Equity
<1> QED
  BY <1>3, <1>4, <1>5, <1>6, <1>7 DEF Equity

-----------------------------------------------------------------------------
(* What the guardrails observe, and what a run reports *)

MoneyTyped ==
    /\ portfolio \in Portfolios
    /\ marks \in [Symbols -> Nat]
    /\ session \in Sessions
    /\ perf \in [peak : Int, equity : Int]
    /\ seen \in [Symbols -> 0..NTimes]

\* The guardrails look at a symbol's close after the symbol's bar: once a time
\* has had a bar they hold the equity that its end reports, and a peak no lower
\* than the reported one.  Until they first look there is nothing but cash.
Guarded ==
    /\ \A s \in Symbols : seen[s] <= now
    /\ phase = "fill" => seen[symbol] = now
    /\ phase = "bars" /\ todo = {} => \E s \in Symbols : seen[s] = now
    /\ phase = "bars" /\ (\E s \in Symbols : seen[s] = now) =>
        session.day # 0 /\ session.last = Equity(portfolio, marks)
    /\ phase = "between" => perf.equity = Equity(portfolio, marks)
    /\ phase = "between" /\ now > 0 => session.day # 0 /\ session.last = perf.equity
    /\ session.day # 0 => session.peak >= perf.peak /\ session.peak >= session.last
    /\ session.day = 0 =>
        portfolio = EmptyPortfolio(InitialCash) /\ Ids = {} /\ perf.peak = InitialCash
    /\ perf.peak >= InitialCash

MoneyInv == Inv /\ MoneyTyped /\ Guarded

\* What process_open_order does to the portfolio.
LEMMA FillOrKeep ==
    ASSUME Inv, NEW id \in queue, process_open_order(id)
    PROVE  \/ UNCHANGED <<orders, portfolio>>
           \/ /\ Filled(id)
              /\ orders[id].sym = symbol /\ id.sym = symbol /\ id \in Ids
              /\ IsFilledBy(orders[id], symbol, bar)
              /\ portfolio' = apply_fill(portfolio, Fill(orders[id], bar))
              /\ Fill(orders[id], bar).sym = symbol
              /\ Fill(orders[id], bar).qty = orders[id].qty
              /\ Fill(orders[id], bar).qty \in Int
              /\ Fill(orders[id], bar).price \in Int
              /\ Fill(orders[id], bar).fee \in Int
<1>1. /\ id \in Ids /\ orders[id].sym = id.sym /\ orders[id] \in OrderRecord /\ bar \in Bar
      /\ Typed
  BY DEF Inv, Typed, Listed, Ids
<1>2. Filled(id) \/ Kept(id)
  BY <1>1, ProcessOpenOrder
<1>3. CASE Kept(id)
  BY <1>3 DEF Kept
<1>4. CASE Filled(id) /\ IsFilledBy(orders[id], symbol, bar)
  <2>1. portfolio' = apply_fill(portfolio, Fill(orders[id], bar))
    BY <1>4 DEF process_open_order
  <2>2. orders[id].sym \in Symbols /\ orders[id].qty \in Int /\ orders[id].limit \in Int
    BY <1>1 DEF OrderRecord
  <2>3. orders[id].sym = symbol
    BY <1>4 DEF IsFilledBy
  <2>4. /\ Fill(orders[id], bar).sym = orders[id].sym
        /\ Fill(orders[id], bar).qty = orders[id].qty
        /\ Fill(orders[id], bar).price \in Int
        /\ Fill(orders[id], bar).fee \in Int
    BY <1>1, <2>2, FillTypes
  <2> QED
    BY <1>1, <1>4, <2>1, <2>2, <2>3, <2>4
<1>5. CASE ~IsFilledBy(orders[id], symbol, bar)
  BY <1>5 DEF process_open_order
<1> QED
  BY <1>2, <1>3, <1>4, <1>5

\* What evaluate_bar makes of the session.
LEMMA RefreshedFacts ==
    ASSUME NEW s \in Sessions, NEW today \in Nat \ {0}, NEW equity \in Int
    PROVE  /\ Refreshed(s, today, equity) \in Sessions
           /\ Refreshed(s, today, equity).day = today
           /\ Refreshed(s, today, equity).last = equity
           /\ Refreshed(s, today, equity).peak =
                  IF s.day = 0 THEN equity ELSE Most(s.peak, equity)
<1> DEFINE r == Refreshed(s, today, equity)
           peak == IF s.day = 0 THEN equity ELSE Most(s.peak, equity)
<1>1. DOMAIN s = {"day", "dayStart", "peak", "last"}
  BY DEF Sessions
<1>2. peak \in Int /\ (IF s.day = today THEN s.dayStart ELSE equity) \in Int
  BY DEF Sessions, Most
<1>3. r.day = today
  BY <1>1 DEF Refreshed
<1>4. r.last = equity
  BY <1>1 DEF Refreshed
<1>5. r.peak = peak
  BY <1>1 DEF Refreshed
<1>6. r \in Sessions
  BY <1>2 DEF Refreshed, Sessions
<1> QED
  BY <1>3, <1>4, <1>5, <1>6

LEMMA EvaluatedMoney ==
    ASSUME Inv, MoneyTyped, NEW decision \in Decisions, evaluate_bar(decision)
    PROVE  /\ marks' = [marks EXCEPT ![symbol] = bar.close] /\ marks' \in [Symbols -> Nat]
           /\ bar.close \in Nat \ {0}
           /\ Equity(portfolio, marks') \in Int
           /\ session' \in Sessions /\ session'.day = TradingDay[now] /\ session'.day # 0
           /\ session'.last = Equity(portfolio, marks')
           /\ session'.peak = IF session.day = 0 THEN Equity(portfolio, marks')
                              ELSE Most(session.peak, Equity(portfolio, marks'))
           /\ session' = Refreshed(session, TradingDay[now], Equity(portfolio, marks'))
<1>1. /\ marks' = [marks EXCEPT ![symbol] = bar.close] /\ phase = "fill"
      /\ session' = Refreshed(session, TradingDay[now], Equity(portfolio, marks'))
  BY DEF evaluate_bar
<1>2. bar.close \in Nat \ {0} /\ now \in 1..NTimes /\ symbol \in Symbols
  BY <1>1 DEF Inv, Typed, Bar
<1>3. marks' \in [Symbols -> Nat]
  BY <1>1, <1>2 DEF MoneyTyped
<1>4. marks' \in [Symbols -> Int]
  BY <1>3
<1>5. portfolio \in Portfolios /\ session \in Sessions
  BY DEF MoneyTyped
<1> DEFINE e == Equity(portfolio, marks')
           today == TradingDay[now]
<1>6. e \in Int
  BY <1>4, <1>5, EquityFacts
<1>7. today \in Nat \ {0}
  BY <1>2, CalendarAssumption
<1> HIDE DEF e, today
<1>8. /\ Refreshed(session, today, e) \in Sessions
      /\ Refreshed(session, today, e).day = today
      /\ Refreshed(session, today, e).last = e
      /\ Refreshed(session, today, e).peak = IF session.day = 0 THEN e ELSE Most(session.peak, e)
  BY <1>5, <1>6, <1>7, RefreshedFacts
<1>9. session' = Refreshed(session, today, e)
  BY <1>1 DEF e, today
<1> QED
  BY <1>1, <1>2, <1>3, <1>6, <1>7, <1>8, <1>9 DEF e, today

LEMMA MoneyInit == Init => MoneyTyped /\ Guarded
<1> SUFFICES ASSUME Init PROVE MoneyTyped /\ Guarded
  OBVIOUS
<1>1. InitialCash \in Nat
  BY BarsAssumption
<1>2. portfolio \in Portfolios
  <2>1. portfolio = [cash |-> InitialCash, pos |-> [s \in Symbols |-> Flat], realized |-> 0,
                     fees |-> 0, closes |-> 0, wins |-> 0]
    BY DEF Init, EmptyPortfolio
  <2>2. [s \in Symbols |-> Flat] \in [Symbols -> [qty : Int, entry : Int]]
    BY DEF Flat
  <2> QED
    BY <1>1, <2>1, <2>2 DEF Portfolios
<1>3. marks \in [Symbols -> Nat] /\ marks \in [Symbols -> Int]
  BY DEF Init, NoPrice
<1>4. session \in Sessions /\ session.day = 0
  BY DEF Init, NewSession, Sessions
<1>5. perf \in [peak : Int, equity : Int] /\ perf.peak = InitialCash /\ perf.equity = InitialCash
  BY <1>1 DEF Init
<1>6. seen \in [Symbols -> 0..NTimes] /\ \A s \in Symbols : seen[s] = 0
  BY CalendarAssumption DEF Init
<1>7. portfolio = EmptyPortfolio(InitialCash) /\ phase = "between" /\ now = 0 /\ Ids = {}
  BY DEF Init, Ids
<1>8. Equity(portfolio, marks) = InitialCash
  BY <1>2, <1>3, <1>7, EquityFacts
<1>9. MoneyTyped
  BY <1>2, <1>3, <1>4, <1>5, <1>6 DEF MoneyTyped
<1>10. Guarded
  BY <1>1, <1>4, <1>5, <1>6, <1>7, <1>8 DEF Guarded
<1> QED
  BY <1>9, <1>10

LEMMA MoneyTypedStep == Inv /\ MoneyTyped /\ [Next]_vars => MoneyTyped'
<1> SUFFICES ASSUME Inv, MoneyTyped, [Next]_vars PROVE MoneyTyped'
  OBVIOUS
<1> USE DEF MoneyTyped, barVars, riskVars
<1>1. ASSUME NEW S \in SUBSET Symbols, next_bar_time(S) PROVE MoneyTyped'
  BY <1>1 DEF next_bar_time
<1>2. ASSUME NEW s \in Symbols, NEW b \in Bars, begin_bar(s, b) PROVE MoneyTyped'
  <2>1. now \in 0..NTimes
    BY CalendarAssumption DEF Inv, Typed
  <2> QED
    BY <1>2, <2>1 DEF begin_bar
<1>3. ASSUME NEW id \in queue, process_open_order(id) PROVE MoneyTyped'
  <2>1. UNCHANGED <<marks, session, perf, seen>>
    BY <1>3 DEF process_open_order
  <2>2. portfolio' \in Portfolios
    <3>1. symbol \in Symbols
      BY DEF Inv, Typed
    <3> DEFINE fill == Fill(orders[id], bar)
    <3>2. CASE /\ portfolio' = apply_fill(portfolio, fill) /\ fill.sym = symbol
               /\ fill.qty \in Int /\ fill.price \in Int /\ fill.fee \in Int
      <4> HIDE DEF fill
      <4> QED
        BY <3>1, <3>2, FillKeepsPortfolio
    <3> QED
      BY <1>3, <3>2, FillOrKeep
  <2> QED
    BY <2>1, <2>2
<1>4. ASSUME NEW decision \in Decisions, evaluate_bar(decision) PROVE MoneyTyped'
  <2>1. marks' \in [Symbols -> Nat] /\ session' \in Sessions
    BY <1>4, EvaluatedMoney
  <2> QED
    BY <1>4, <2>1 DEF evaluate_bar
<1>5. ASSUME NEW decision \in Decisions, evaluate_bar_raises(decision) PROVE MoneyTyped'
  BY <1>5 DEF evaluate_bar_raises
<1>6. CASE close_bar_time
  <2> DEFINE e == Equity(portfolio, marks)
  <2>1. e \in Int /\ perf' = [peak |-> Most(perf.peak, e), equity |-> e]
    <3>1. marks \in [Symbols -> Int]
      OBVIOUS
    <3> QED
      BY <1>6, <3>1, EquityFacts DEF close_bar_time
  <2> HIDE DEF e
  <2>2. perf' \in [peak : Int, equity : Int]
    BY <2>1 DEF Most
  <2> QED
    BY <1>6, <2>2 DEF close_bar_time
<1>7. CASE finish_run
  BY <1>7 DEF finish_run
<1>8. CASE UNCHANGED vars
  BY <1>8 DEF vars
<1> QED
  BY <1>1, <1>2, <1>3, <1>4, <1>5, <1>6, <1>7, <1>8 DEF Next

LEMMA GuardedStep == MoneyInv /\ [Next]_vars => Guarded'
<1> SUFFICES ASSUME MoneyInv, [Next]_vars PROVE Guarded'
  OBVIOUS
<1> USE DEF MoneyInv, Ids, barVars, riskVars
<1>0. /\ now \in Nat /\ symbol \in Symbols /\ \A s \in Symbols : seen[s] \in Int
      /\ DOMAIN seen = Symbols
      /\ perf.peak \in Int /\ perf.equity \in Int
      /\ session.peak \in Int /\ session.last \in Int
      /\ InitialCash \in Nat
  BY BarsAssumption DEF Inv, Typed, MoneyTyped, Sessions
<1>1. ASSUME NEW S \in SUBSET Symbols, next_bar_time(S) PROVE Guarded'
  <2>1. /\ phase = "between" /\ phase' = "bars" /\ now' = now + 1 /\ todo' # {}
        /\ UNCHANGED <<symbol, portfolio, marks, session, perf, seen, orders>>
    BY <1>1 DEF next_bar_time
  <2>2. \A s \in Symbols : seen'[s] <= now /\ seen'[s] # now'
    BY <1>0, <2>1 DEF Guarded
  <2>3. \A s \in Symbols : seen'[s] <= now'
    BY <1>0, <2>1, <2>2
  <2> QED
    BY <2>1, <2>2, <2>3 DEF Guarded
<1>2. ASSUME NEW s \in Symbols, NEW b \in Bars, begin_bar(s, b) PROVE Guarded'
  <2>1. /\ phase = "bars" /\ phase' = "fill" /\ now' = now /\ symbol' = s
        /\ seen' = [seen EXCEPT ![s] = now]
        /\ UNCHANGED <<portfolio, marks, session, perf, orders>>
    BY <1>2 DEF begin_bar
  <2>2. seen'[symbol'] = now' /\ \A t \in Symbols : seen'[t] <= now'
    BY <1>0, <2>1 DEF Guarded
  <2> QED
    BY <2>1, <2>2 DEF Guarded
<1>3. ASSUME NEW id \in queue, process_open_order(id) PROVE Guarded'
  <2>1. /\ phase = "fill" /\ id \in DOMAIN orders
        /\ UNCHANGED <<phase, now, todo, symbol, session, perf, seen, marks>>
    BY <1>3 DEF process_open_order, Inv, Typed
  <2>2. session.day # 0
    BY <2>1 DEF Guarded
  <2> QED
    BY <2>1, <2>2 DEF Guarded
<1>4. ASSUME NEW decision \in Decisions, evaluate_bar(decision) PROVE Guarded'
  <2>1. /\ phase = "fill" /\ phase' = "bars"
        /\ UNCHANGED <<now, todo, symbol, portfolio, perf, seen>>
    BY <1>4 DEF evaluate_bar
  <2> DEFINE e == Equity(portfolio, marks')
  <2>2. /\ e \in Int /\ session'.day # 0 /\ session'.last = e
        /\ session'.peak = IF session.day = 0 THEN e ELSE Most(session.peak, e)
        /\ marks' \in [Symbols -> Int]
    BY <1>4, EvaluatedMoney
  <2>3. session.day = 0 => e = InitialCash
    BY <2>2, EquityFacts DEF Guarded, MoneyTyped
  <2>4. Equity(portfolio', marks') = e
    BY <2>1
  <2> HIDE DEF e
  <2>5. session'.peak >= perf'.peak /\ session'.peak >= session'.last
    BY <1>0, <2>1, <2>2, <2>3 DEF Guarded, Most
  <2> QED
    BY <1>0, <2>1, <2>2, <2>4, <2>5 DEF Guarded
<1>5. ASSUME NEW decision \in Decisions, evaluate_bar_raises(decision) PROVE Guarded'
  BY <1>5 DEF evaluate_bar_raises, Guarded
<1>6. CASE close_bar_time
  <2> DEFINE e == Equity(portfolio, marks)
  <2>1. /\ phase = "bars" /\ phase' = "between" /\ todo = {}
        /\ perf' = [peak |-> Most(perf.peak, e), equity |-> e]
        /\ UNCHANGED <<now, todo, symbol, orders, portfolio, marks, session, seen>>
    BY <1>6 DEF close_bar_time
  <2>2. session.day # 0 /\ session.last = e
    BY <2>1 DEF Guarded
  <2>3. Equity(portfolio', marks') = e
    BY <2>1
  <2> HIDE DEF e
  <2>4. perf'.equity = e /\ perf'.peak = Most(perf.peak, e)
    BY <2>1
  <2>5. session.peak >= perf'.peak /\ perf'.peak >= InitialCash
    BY <1>0, <2>2, <2>4 DEF Guarded, Most
  <2> QED
    BY <2>1, <2>2, <2>3, <2>4, <2>5 DEF Guarded
<1>7. CASE finish_run
  <2>1. /\ phase' = "done" /\ DOMAIN orders' = DOMAIN orders
        /\ UNCHANGED <<now, todo, symbol, portfolio, marks, session, seen, perf>>
    BY <1>7 DEF finish_run
  <2> QED
    BY <2>1 DEF Guarded
<1>8. CASE UNCHANGED vars
  BY <1>8 DEF vars, Guarded
<1> QED
  BY <1>1, <1>2, <1>3, <1>4, <1>5, <1>6, <1>7, <1>8 DEF Next

LEMMA MoneyInvariance == Spec => []MoneyInv
<1>1. Init => MoneyInv
  BY InvInit, MoneyInit DEF MoneyInv
<1>2. MoneyInv /\ [Next]_vars => MoneyInv'
  <2>1. Inv /\ [Next]_vars => Inv'
    BY TypedStep, ListedStep, AgesStep, CoolingStep DEF Inv
  <2> QED
    BY <2>1, MoneyTypedStep, GuardedStep DEF MoneyInv
<1> QED
  BY <1>1, <1>2, PTL DEF Spec

\* Every variable has its type: money stays whole through fees, averages and
\* slippage, and no time, count or cooldown leaves its range.
THEOREM TypesHold == Spec => []TypeOK
<1>1. MoneyInv => TypeOK
  <2>1. MoneyInv => Typed /\ MoneyTyped
    BY DEF MoneyInv, Inv
  <2>2. Typed => now \in 0..NTimes
    BY CalendarAssumption DEF Typed
  <2> QED
    BY <2>1, <2>2, Zenon DEF MoneyTyped, Typed, TypeOK, Portfolios, Sessions
<1> QED
  BY <1>1, MoneyInvariance, PTL

\* The drawdown that the guardrails judge by is never milder than the one the
\* run reports, for any symbols, bars, calendar and policy.
THEOREM GuardNeverMilder == Spec => []GuardSeesReportedPeak
<1>1. MoneyInv => GuardSeesReportedPeak
  BY DEF MoneyInv, Guarded, GuardSeesReportedPeak
<1> QED
  BY <1>1, MoneyInvariance, PTL

-----------------------------------------------------------------------------
(* Positions are what the filled orders add up to *)

Quantity == [id \in Ids |-> orders[id].qty]
FilledOf(s) == {id \in Ids : id.sym = s /\ orders[id].status = "filled"}

AddUp == \A s \in Symbols : portfolio.pos[s].qty = Total(Quantity, FilledOf(s))

LEMMA OrderIdsAreFinite == IsFiniteSet(OrderId)
<1> DEFINE T == 1..NTimes
           P == T \X (Symbols \X Symbols)
           f == [p \in P |-> [born |-> p[1], at |-> p[2][1], sym |-> p[2][2]]]
<1>1. IsFiniteSet(T)
  BY CalendarAssumption, FS_Interval
<1> HIDE DEF T
<1>2. IsFiniteSet(Symbols \X Symbols)
  BY SymbolsAreFinite, FS_Product
<1>3. IsFiniteSet(P)
  BY <1>1, <1>2, FS_Product
<1>4. OrderId = [born : T, at : Symbols, sym : Symbols]
  BY DEF OrderId, T
<1>5. f \in Surjection(P, OrderId)
  <2>1. f \in [P -> OrderId]
    BY <1>4
  <2>2. ASSUME NEW id \in OrderId PROVE \E p \in P : f[p] = id
    <3> DEFINE p == <<id.born, <<id.at, id.sym>>>>
    <3>1. p \in P /\ p[1] = id.born /\ p[2][1] = id.at /\ p[2][2] = id.sym
      BY <1>4
    <3>2. id = [born |-> id.born, at |-> id.at, sym |-> id.sym]
      BY <1>4
    <3>3. f[p] = [born |-> p[1], at |-> p[2][1], sym |-> p[2][2]]
      BY <3>1
    <3> QED
      BY <3>1, <3>2, <3>3, Zenon
  <2> HIDE DEF f, P
  <2> QED
    BY <2>1, <2>2 DEF Surjection
<1> HIDE DEF f, P
<1> QED
  BY <1>3, <1>5, FS_Surjection

LEMMA FilledTerms ==
    ASSUME Inv, NEW s
    PROVE  IsFiniteSet(FilledOf(s)) /\ \A id \in FilledOf(s) : Quantity[id] \in Int
<1>1. FilledOf(s) \subseteq OrderId
  BY DEF Inv, Typed, FilledOf, Ids
<1>2. \A id \in Ids : orders[id].qty \in Int
  BY DEF Inv, Typed, Ids, OrderRecord
<1>3. \A id \in FilledOf(s) : Quantity[id] \in Int
  BY <1>2 DEF FilledOf, Quantity
<1> QED
  BY <1>1, <1>3, OrderIdsAreFinite, FS_Subset

\* Orders that are neither filled nor new leave the sums alone.
LEMMA AddUpKept ==
    ASSUME Inv, AddUp, portfolio' = portfolio,
           \A s \in Symbols : FilledOf(s)' = FilledOf(s),
           \A id \in Ids : id \in Ids' /\ orders'[id].qty = orders[id].qty
    PROVE  AddUp'
<1> SUFFICES ASSUME NEW s \in Symbols
             PROVE  portfolio'.pos[s].qty = Total(Quantity', FilledOf(s)')
  BY DEF AddUp
<1> DEFINE F == FilledOf(s)
           g == Quantity
           h == Quantity'
<1>1. IsFiniteSet(F) /\ \A id \in F : g[id] \in Int
  BY FilledTerms
<1>2. \A id \in F : g[id] = h[id]
  BY DEF FilledOf, Quantity, Ids
<1>3. FilledOf(s)' = F /\ portfolio'.pos[s].qty = Total(g, F)
  BY DEF AddUp
<1> HIDE DEF F, g, h
<1>4. Total(g, F) = Total(h, F)
  BY <1>1, <1>2, TotalOfEqual
<1> QED
  BY <1>3, <1>4 DEF h

LEMMA AddUpFill ==
    ASSUME Inv, AddUp, NEW id \in queue, Filled(id), id.sym = symbol
    PROVE  AddUp'
<1>1. /\ id \in Ids /\ DOMAIN orders' = DOMAIN orders
      /\ orders'[id].status = "filled" /\ orders'[id].qty = orders[id].qty
      /\ orders[id].status = "submitted" /\ orders[id].qty \in Int
      /\ \A other \in Ids \ {id} : orders'[other] = orders[other]
  <2>1. id \in DOMAIN orders /\ orders[id] \in OrderRecord
    BY DEF Inv, Typed
  <2>2. /\ DOMAIN orders' = DOMAIN orders
        /\ orders'[id] = [orders[id] EXCEPT !.status = "filled", !.filledAt = now]
        /\ orders'[id].status = "filled"
        /\ \A other \in DOMAIN orders \ {id} : orders'[other] = orders[other]
    BY FilledOrders DEF Inv
  <2> QED
    BY <2>1, <2>2 DEF Filled, OrderRecord, Ids
<1>2. \A other \in Ids : other \in Ids' /\ orders'[other].qty = orders[other].qty
  BY <1>1 DEF Ids
<1> SUFFICES ASSUME NEW s \in Symbols
             PROVE  portfolio'.pos[s].qty = Total(Quantity', FilledOf(s)')
  BY DEF AddUp
<1> DEFINE F == FilledOf(s)
           g == Quantity
           h == Quantity'
<1>3. IsFiniteSet(F) /\ \A x \in F : g[x] \in Int
  BY FilledTerms
<1>4. \A x \in F : g[x] = h[x]
  BY <1>2 DEF FilledOf, Quantity, Ids
<1>5. portfolio.pos[s].qty = Total(g, F)
  BY DEF AddUp
<1>6. CASE s # symbol
  <2>1. FilledOf(s)' = F
    BY <1>1, <1>6 DEF FilledOf, Ids
  <2>2. portfolio'.pos[s].qty = portfolio.pos[s].qty
    BY <1>6 DEF Filled
  <2> HIDE DEF F, g, h
  <2>3. Total(g, F) = Total(h, F)
    BY <1>3, <1>4, TotalOfEqual
  <2> QED
    BY <1>5, <2>1, <2>2, <2>3 DEF h
<1>7. CASE s = symbol
  <2>1. FilledOf(s)' = F \union {id} /\ id \notin F
    BY <1>1, <1>7 DEF FilledOf, Ids
  <2>2. portfolio'.pos[s].qty = portfolio.pos[s].qty + orders[id].qty
    BY <1>7 DEF Filled
  <2>3. h[id] = orders[id].qty /\ h[id] \in Int
    BY <1>1 DEF Quantity, Ids
  <2> HIDE DEF F, g, h
  <2>4. Total(h, F \union {id}) = Total(g, F) + h[id]
    BY <1>3, <1>4, <2>1, <2>3, TotalOfOneMore
  <2> QED
    BY <1>5, <2>1, <2>2, <2>3, <2>4 DEF h
<1> QED
  BY <1>6, <1>7

LEMMA AddUpInit == Init => AddUp
<1> SUFFICES ASSUME Init, NEW s \in Symbols
             PROVE  portfolio.pos[s].qty = Total(Quantity, FilledOf(s))
  BY DEF AddUp
<1>1. portfolio.pos[s].qty = 0
  BY DEF Init, EmptyPortfolio, Flat
<1>2. FilledOf(s) = {}
  BY DEF Init, FilledOf, Ids
<1> DEFINE g == Quantity
<1> HIDE DEF g
<1>3. Total(g, {}) = 0
  BY FS_EmptySet, TotalOfZeros
<1> QED
  BY <1>1, <1>2, <1>3 DEF g

LEMMA AddUpStep == Inv /\ AddUp /\ [Next]_vars => AddUp'
<1> SUFFICES ASSUME Inv, AddUp, [Next]_vars PROVE AddUp'
  OBVIOUS
<1> USE DEF barVars, riskVars
<1>0. ASSUME UNCHANGED <<orders, portfolio>> PROVE AddUp'
  BY <1>0, AddUpKept DEF FilledOf, Ids
<1>1. ASSUME NEW S \in SUBSET Symbols, next_bar_time(S) PROVE AddUp'
  BY <1>0, <1>1 DEF next_bar_time
<1>2. ASSUME NEW s \in Symbols, NEW b \in Bars, begin_bar(s, b) PROVE AddUp'
  BY <1>0, <1>2 DEF begin_bar
<1>3. ASSUME NEW id \in queue, process_open_order(id) PROVE AddUp'
  <2>1. UNCHANGED <<orders, portfolio>> \/ (Filled(id) /\ id.sym = symbol)
    BY <1>3, FillOrKeep
  <2> QED
    BY <1>0, <2>1, AddUpFill
<1>4. ASSUME NEW decision \in Decisions, evaluate_bar(decision) PROVE AddUp'
  <2>1. PICK new : Evaluated(new)
    BY <1>4, EvaluateBar DEF Inv
  <2>2. portfolio' = portfolio /\ phase = "fill"
    BY <1>4 DEF evaluate_bar
  <2>3. \A id \in new : id \notin Ids /\ orders'[id].status = "submitted"
    BY <2>1, <2>2 DEF Evaluated, IsNewOrder, Inv, Ages
  <2>4. /\ Ids' = Ids \union new
        /\ \A id \in Ids : orders'[id] = orders[id]
    BY <2>1, <2>3 DEF Evaluated, Ids
  <2>5. \A s \in Symbols : FilledOf(s)' = FilledOf(s)
    BY <2>3, <2>4 DEF FilledOf
  <2> QED
    BY <2>2, <2>4, <2>5, AddUpKept
<1>5. ASSUME NEW decision \in Decisions, evaluate_bar_raises(decision) PROVE AddUp'
  BY <1>0, <1>5 DEF evaluate_bar_raises
<1>6. CASE close_bar_time
  BY <1>0, <1>6 DEF close_bar_time
<1>7. CASE finish_run
  <2>1. portfolio' = portfolio /\ phase = "between"
    BY <1>7 DEF finish_run
  <2>2. /\ Ids' = Ids
        /\ \A id \in Ids : /\ orders'[id].status = IF StillOpen(id) THEN "expired"
                                                   ELSE orders[id].status
                           /\ orders'[id].qty = orders[id].qty
    BY <1>7, ExpiredOrders DEF Inv, Ids
  <2>3. \A id \in Ids : StillOpen(id) => orders[id].status = "submitted"
    BY <2>1 DEF StillOpen, Inv, Listed, Typed, Ids
  <2>4. \A s \in Symbols : FilledOf(s)' = FilledOf(s)
    BY <2>2, <2>3 DEF FilledOf
  <2> QED
    BY <2>1, <2>2, <2>4, AddUpKept
<1>8. CASE UNCHANGED vars
  BY <1>0, <1>8 DEF vars
<1> QED
  BY <1>1, <1>2, <1>3, <1>4, <1>5, <1>6, <1>7, <1>8 DEF Next

\* The sum that PositionsAddUp speaks of.
FilledSum(s) == MapThenSumSet(LAMBDA id : orders[id].qty, FilledOf(s))

LEMMA FilledSumIsTotal ==
    ASSUME Inv, NEW y
    PROVE  FilledSum(y) = Total(Quantity, FilledOf(y))
<1> DEFINE any(s) == CHOOSE x \in s : TRUE
           One(j, s) == IF s = {} THEN 0 ELSE Quantity[any(s)] + j[s \ {any(s)}]
           Two(j, s) == IF s = {} THEN 0 ELSE orders[any(s)].qty + j[s \ {any(s)}]
           Loop(j) == j = [s \in SUBSET FilledOf(y) |-> Two(j, s)]
           it == CHOOSE j : Loop(j)
<1>1. FilledSum(y) = it[FilledOf(y)]
  BY DEF FilledSum, MapThenSumSet, MapThenFoldSet
<1>2. IsFiniteSet(FilledOf(y)) /\ \A x \in FilledOf(y) : Quantity[x] \in Int
  BY FilledTerms
<1>3. ASSUME NEW j
      PROVE  IsSum(j, Quantity, FilledOf(y)) <=> Loop(j)
  <2>1. ASSUME NEW s \in SUBSET FilledOf(y)
        PROVE  One(j, s) = Two(j, s)
    <3>1. s # {} => any(s) \in FilledOf(y)
      OBVIOUS
    <3> HIDE DEF any
    <3> QED
      BY <3>1 DEF Quantity, FilledOf
  <2>2. IsSum(j, Quantity, FilledOf(y)) <=> j = [s \in SUBSET FilledOf(y) |-> One(j, s)]
    BY DEF IsSum
  <2> HIDE DEF One, Two
  <2>3. [s \in SUBSET FilledOf(y) |-> One(j, s)] = [s \in SUBSET FilledOf(y) |-> Two(j, s)]
    BY <2>1
  <2> QED
    BY <2>2, <2>3, Zenon
<1> HIDE DEF Loop
<1>4. PICK j : Loop(j)
  BY <1>2, <1>3, SumExists
<1>5. IsSum(it, Quantity, FilledOf(y))
  BY <1>3, <1>4
<1> HIDE DEF it
<1> QED
  BY <1>1, <1>2, <1>5, LoopComputesTotal

\* In every run the positions are what the filled orders add up to: no fill is
\* lost, counted twice or booked on another symbol.
THEOREM PositionsAreTheFills == Spec => []PositionsAddUp
<1>1. Init => Inv /\ AddUp
  BY InvInit, AddUpInit
<1>2. Inv /\ AddUp /\ [Next]_vars => (Inv /\ AddUp)'
  <2>1. Inv /\ [Next]_vars => Inv'
    BY TypedStep, ListedStep, AgesStep, CoolingStep DEF Inv
  <2> QED
    BY <2>1, AddUpStep
<1>3. Inv /\ AddUp => PositionsAddUp
  <2> SUFFICES ASSUME Inv, AddUp, NEW s \in Symbols
               PROVE  portfolio.pos[s].qty = FilledSum(s)
    BY DEF PositionsAddUp, FilledSum, FilledOf
  <2> QED
    BY FilledSumIsTotal DEF AddUp
<1> QED
  BY <1>1, <1>2, <1>3, PTL DEF Spec

-----------------------------------------------------------------------------
(* Equity is explained by its parts                                        *)
(*                                                                         *)
(* Quantities are whole here while the code divides decimals, so an average*)
(* entry price may not be exact.  The ledger balances wherever it is.      *)

\* The average that a fill adds to a position comes out exactly.
ExactAverage(position, fill) ==
    Adds(position, fill) =>
        (position.entry * Abs(position.qty) + fill.price * Abs(fill.qty))
            % Abs(position.qty + fill.qty) = 0

\* No step divides with a remainder.
ExactAverages ==
    \A id \in queue :
        process_open_order(id) /\ IsFilledBy(orders[id], symbol, bar)
            => ExactAverage(portfolio.pos[id.sym], Fill(orders[id], bar))

\* What a fill adds to the cost of a position is its price and the profit it
\* realizes: opened, added to, reduced, closed or flipped.
LEMMA FillBalances ==
    ASSUME NEW position \in [qty : Int, entry : Int], NEW fill,
           fill.qty \in Int, fill.price \in Int, ExactAverage(position, fill)
    PROVE  EntryAfter(position, fill) * (position.qty + fill.qty) =
               position.entry * position.qty + fill.price * fill.qty + RealizedBy(position, fill)
<1> DEFINE q == position.qty
           e == position.entry
           f == fill.qty
           p == fill.price
<1>1. q \in Int /\ e \in Int /\ f \in Int /\ p \in Int
  OBVIOUS
<1>2. CASE q = 0
  <2>1. EntryAfter(position, fill) = p /\ RealizedBy(position, fill) = 0
    BY <1>2 DEF EntryAfter, RealizedBy
  <2> HIDE DEF q, e, f, p
  <2>2. p * (q + f) = e * q + p * f + 0
    BY <1>1, <1>2
  <2> QED
    BY <2>1, <2>2 DEF q, e, f, p
<1>3. CASE Adds(position, fill)
  <2> DEFINE x == e * Abs(q) + p * Abs(f)
             y == Abs(q + f)
             a == x \div y
  <2>1. q # 0 /\ y \in Nat \ {0} /\ x \in Int
    <3>1. Abs(q) \in Int /\ Abs(f) \in Int /\ q # 0 /\ y \in Nat \ {0}
      BY <1>1, <1>3 DEF Adds, SameSide, Abs
    <3>2. e * Abs(q) \in Int /\ p * Abs(f) \in Int
      BY <1>1, <3>1
    <3> QED
      BY <3>1, <3>2
  <2>2. EntryAfter(position, fill) = a /\ RealizedBy(position, fill) = 0
    BY <1>3, <2>1 DEF EntryAfter, RealizedBy
  <2>3. x % y = 0
    BY <1>3 DEF ExactAverage
  <2>4. (q > 0 /\ f > 0 /\ Abs(q) = q /\ Abs(f) = f /\ y = q + f)
        \/ (q < 0 /\ f < 0 /\ Abs(q) = -q /\ Abs(f) = -f /\ y = -(q + f))
    BY <1>1, <1>3 DEF Adds, SameSide, Abs
  <2>5. (x = e * q + p * f /\ y = q + f) \/ (x = -(e * q + p * f) /\ y = -(q + f))
    <3> DEFINE u == Abs(q)
               v == Abs(f)
    <3>1. x = e * u + p * v
      OBVIOUS
    <3>2. (u = q /\ v = f /\ y = q + f) \/ (u = -q /\ v = -f /\ y = -(q + f))
      BY <2>4
    <3> HIDE DEF q, e, f, p, x, y, u, v
    <3>3. CASE u = q /\ v = f /\ y = q + f
      BY <3>1, <3>3
    <3>4. CASE u = -q /\ v = -f /\ y = -(q + f)
      <4>1. e * (-q) + p * (-f) = -(e * q + p * f)
        BY <1>1
      <4> QED
        BY <3>1, <3>4, <4>1
    <3> QED
      BY <3>2, <3>3, <3>4
  <2> HIDE DEF x, y
  <2>6. a \in Int /\ x = y * a
    BY <2>1, <2>3
  <2> HIDE DEF q, e, f, p, a
  <2>7. a * (q + f) = e * q + p * f + 0
    <3> DEFINE s == e * q + p * f
               t == q + f
    <3>1. s \in Int /\ t \in Int /\ ((x = s /\ y = t) \/ (x = -s /\ y = -t))
      BY <1>1, <2>5
    <3> HIDE DEF s, t
    <3>2. s = t * a
      BY <2>6, <3>1
    <3>3. a * t = s + 0
      BY <2>6, <3>1, <3>2
    <3> QED
      BY <3>3 DEF s, t
  <2> QED
    BY <2>2, <2>7 DEF q, e, f, p
<1>4. CASE q # 0 /\ ~Adds(position, fill)
  <2> DEFINE c == ClosingQty(position, fill)
             a == EntryAfter(position, fill)
             r == RealizedBy(position, fill)
  <2>1. /\ c \in Int
        /\ q > 0 => c = IF -f < q THEN -f ELSE q
        /\ q < 0 => c = IF f < -q THEN f ELSE -q
        /\ q > 0 => ~(f > 0)
        /\ q < 0 => ~(f < 0)
    BY <1>1, <1>4 DEF ClosingQty, Least, Abs, Adds, SameSide
  <2>2. a = IF q + f = 0 THEN 0 ELSE IF SameSide(q, q + f) THEN e ELSE p
    BY <1>4 DEF EntryAfter
  <2>3. r = IF q > 0 THEN (p - e) * c ELSE (e - p) * c
    BY <1>4 DEF RealizedBy
  <2>4. /\ q > 0 => a = (IF q + f = 0 THEN 0 ELSE IF q + f > 0 THEN e ELSE p)
        /\ q < 0 => a = (IF q + f = 0 THEN 0 ELSE IF q + f < 0 THEN e ELSE p)
    BY <1>1, <2>2 DEF SameSide
  <2> HIDE DEF q, e, f, p, c, a, r
  <2>5. a * (q + f) = e * q + p * f + r
    <3>1. CASE q + f = 0
      <4>1. f = -q /\ a = 0 /\ r = (p - e) * q
        <5>1. CASE q > 0
          BY <1>1, <2>1, <2>3, <2>4, <3>1, <5>1
        <5>2. CASE q < 0
          <6>1. c = -q /\ r = (e - p) * c /\ a = 0 /\ f = -q
            BY <1>1, <2>1, <2>3, <2>4, <3>1, <5>2
          <6> QED
            BY <1>1, <6>1
        <5> QED
          BY <1>1, <1>4, <5>1, <5>2 DEF q
      <4> QED
        BY <1>1, <4>1
    <3>2. CASE (q > 0 /\ q + f > 0) \/ (q < 0 /\ q + f < 0)
      <4>1. a = e /\ r = (e - p) * f
        <5>1. CASE q > 0
          <6>1. c = -f /\ r = (p - e) * c /\ a = e
            BY <1>1, <2>1, <2>3, <2>4, <3>2, <5>1
          <6> QED
            BY <1>1, <6>1
        <5>2. CASE q < 0
          BY <1>1, <2>1, <2>3, <2>4, <3>2, <5>2
        <5> QED
          BY <3>2, <5>1, <5>2
      <4> QED
        BY <1>1, <4>1
    <3>3. CASE (q > 0 /\ q + f < 0) \/ (q < 0 /\ q + f > 0)
      <4>1. a = p /\ r = (p - e) * q
        <5>1. CASE q > 0
          BY <1>1, <2>1, <2>3, <2>4, <3>3, <5>1
        <5>2. CASE q < 0
          <6>1. c = -q /\ r = (e - p) * c /\ a = p
            BY <1>1, <2>1, <2>3, <2>4, <3>3, <5>2
          <6> QED
            BY <1>1, <6>1
        <5> QED
          BY <3>3, <5>1, <5>2
      <4> QED
        BY <1>1, <4>1
    <3>4. q + f \in Int /\ q # 0
      BY <1>1, <1>4 DEF q
    <3> QED
      BY <1>1, <3>1, <3>2, <3>3, <3>4
  <2> QED
    BY <2>5 DEF q, e, f, p, a, r
<1> QED
  BY <1>2, <1>3, <1>4

LEMMA PaidTypes ==
    ASSUME NEW p \in Portfolios
    PROVE  \A s \in Symbols : Paid(p)[s] \in Int
<1> SUFFICES ASSUME NEW s \in Symbols PROVE Paid(p)[s] \in Int
  OBVIOUS
<1>1. p.pos[s].entry \in Int /\ p.pos[s].qty \in Int
  BY DEF Portfolios
<1> QED
  BY <1>1 DEF Paid

\* Cash and what was paid for the positions are the initial cash and what the
\* run has realized, less its fees.
Balanced(p) ==
    p.cash + Total(Paid(p), Symbols) = InitialCash + p.realized - p.fees

LEMMA FillKeepsBalance ==
    ASSUME NEW p \in Portfolios, Balanced(p), NEW fill, fill.sym \in Symbols,
           fill.qty \in Int, fill.price \in Int, fill.fee \in Int,
           ExactAverage(p.pos[fill.sym], fill)
    PROVE  Balanced(apply_fill(p, fill))
<1> DEFINE x == fill.sym
           position == p.pos[x]
           after == apply_fill(p, fill)
           won == RealizedBy(position, fill)
           cost == fill.price * fill.qty
           g == Paid(p)
           h == Paid(after)
<1>1. position \in [qty : Int, entry : Int] /\ after \in Portfolios
  BY FillKeepsPortfolio DEF Portfolios
<1>2. won \in Int /\ cost \in Int
  BY <1>1, PositionTypes
<1>3. /\ after.cash = p.cash - cost - fill.fee
      /\ after.realized = p.realized + won
      /\ after.fees = p.fees + fill.fee
      /\ after.pos[x].qty = position.qty + fill.qty
      /\ after.pos[x].entry = EntryAfter(position, fill)
      /\ \A s \in Symbols \ {x} : after.pos[s] = p.pos[s]
  <2>1. p.pos \in [Symbols -> [qty : Int, entry : Int]]
    BY DEF Portfolios
  <2> QED
    BY <2>1 DEF apply_fill, PositionAfter
<1>4. \A s \in Symbols : g[s] \in Int /\ h[s] \in Int
  BY <1>1, PaidTypes
<1>5. \A s \in Symbols \ {x} : g[s] = h[s]
  BY <1>3 DEF Paid
<1>6. h[x] = g[x] + cost + won
  <2>1. EntryAfter(position, fill) * (position.qty + fill.qty) =
            position.entry * position.qty + cost + won
    BY <1>1, FillBalances
  <2>2. h[x] = EntryAfter(position, fill) * (position.qty + fill.qty)
    BY <1>3 DEF Paid
  <2>3. g[x] = position.entry * position.qty
    BY DEF Paid
  <2> QED
    BY <2>1, <2>2, <2>3
<1>7. x \in Symbols /\ IsFiniteSet(Symbols) /\ g[x] \in Int /\ h[x] \in Int
  BY <1>4, SymbolsAreFinite
<1> DEFINE before == Total(g, Symbols)
           later == Total(h, Symbols)
<1>8. p.cash + before = InitialCash + p.realized - p.fees
  BY DEF Balanced
<1>9. p.cash \in Int /\ p.realized \in Int /\ p.fees \in Int /\ InitialCash \in Int
  BY BarsAssumption DEF Portfolios
<1> HIDE DEF g, h, x, cost, won, after
<1>10. before \in Int
  BY <1>4, <1>7, TotalFacts
<1>11. later = before + (h[x] - g[x])
  BY <1>4, <1>5, <1>7, TotalOfChange
<1> HIDE DEF before, later
<1>12. later = before + cost + won
  BY <1>2, <1>6, <1>7, <1>10, <1>11
<1>13. /\ after.cash = p.cash - cost - fill.fee
       /\ after.realized = p.realized + won
       /\ after.fees = p.fees + fill.fee
  BY <1>3
<1>14. after.cash + later = InitialCash + after.realized - after.fees
  BY <1>2, <1>8, <1>9, <1>10, <1>12, <1>13
<1> QED
  BY <1>14 DEF Balanced, later, h, after

LEMMA BalancedStep ==
    MoneyInv /\ Balanced(portfolio) /\ [Next]_vars /\ [ExactAverages]_vars => Balanced(portfolio)'
<1> SUFFICES ASSUME MoneyInv, Balanced(portfolio), [Next]_vars, [ExactAverages]_vars
             PROVE  Balanced(portfolio')
  OBVIOUS
<1> USE DEF barVars, riskVars
<1>0. ASSUME portfolio' = portfolio PROVE Balanced(portfolio')
  BY <1>0
<1>1. ASSUME NEW S \in SUBSET Symbols, next_bar_time(S) PROVE Balanced(portfolio')
  BY <1>0, <1>1 DEF next_bar_time
<1>2. ASSUME NEW s \in Symbols, NEW b \in Bars, begin_bar(s, b) PROVE Balanced(portfolio')
  BY <1>0, <1>2 DEF begin_bar
<1>3. ASSUME NEW id \in queue, process_open_order(id) PROVE Balanced(portfolio')
  <2> DEFINE fill == Fill(orders[id], bar)
  <2>1. queue' # queue
    BY <1>3 DEF process_open_order
  <2>2. ExactAverages
    BY <2>1 DEF vars
  <2>3. CASE /\ id.sym = symbol /\ IsFilledBy(orders[id], symbol, bar)
             /\ portfolio' = apply_fill(portfolio, fill) /\ fill.sym = symbol
             /\ fill.qty \in Int /\ fill.price \in Int /\ fill.fee \in Int
    <3>1. ExactAverage(portfolio.pos[symbol], fill)
      BY <1>3, <2>2, <2>3 DEF ExactAverages
    <3>2. portfolio \in Portfolios /\ symbol \in Symbols
      BY DEF MoneyInv, MoneyTyped, Inv, Typed
    <3> HIDE DEF fill
    <3> QED
      BY <2>3, <3>1, <3>2, FillKeepsBalance
  <2>4. CASE UNCHANGED <<orders, portfolio>>
    BY <1>0, <2>4
  <2>5. Inv
    BY DEF MoneyInv
  <2> QED
    BY <1>3, <2>3, <2>4, <2>5, FillOrKeep
<1>4. ASSUME NEW decision \in Decisions, evaluate_bar(decision) PROVE Balanced(portfolio')
  BY <1>0, <1>4 DEF evaluate_bar
<1>5. ASSUME NEW decision \in Decisions, evaluate_bar_raises(decision) PROVE Balanced(portfolio')
  BY <1>0, <1>5 DEF evaluate_bar_raises
<1>6. CASE close_bar_time
  BY <1>0, <1>6 DEF close_bar_time
<1>7. CASE finish_run
  BY <1>0, <1>7 DEF finish_run
<1>8. CASE UNCHANGED vars
  BY <1>0, <1>8 DEF vars
<1> QED
  BY <1>1, <1>2, <1>3, <1>4, <1>5, <1>6, <1>7, <1>8 DEF Next

LEMMA BalancedInit == Init => Balanced(portfolio)
<1> SUFFICES ASSUME Init PROVE Balanced(portfolio)
  OBVIOUS
<1>1. portfolio \in Portfolios
  BY MoneyInit DEF MoneyTyped
<1>2. /\ portfolio.cash = InitialCash /\ portfolio.realized = 0 /\ portfolio.fees = 0
      /\ \A s \in Symbols : portfolio.pos[s].qty = 0 /\ portfolio.pos[s].entry = 0
  BY DEF Init, EmptyPortfolio, Flat
<1> DEFINE g == Paid(portfolio)
<1>3. \A s \in Symbols : g[s] = 0
  BY <1>2 DEF Paid
<1> HIDE DEF g
<1>4. Total(g, Symbols) = 0
  BY <1>3, SymbolsAreFinite, TotalOfZeros
<1>5. InitialCash \in Int
  BY BarsAssumption
<1> QED
  BY <1>2, <1>4, <1>5 DEF Balanced, g

\* In a run whose averages come out exactly, the equity of every performance
\* point is initial cash, realized and unrealized profit, less fees: what fills
\* move in cash and in average-cost positions is the same money, through every
\* open, addition, reduction, close and flip.
THEOREM EquityIsExplained == Spec /\ [][ExactAverages]_vars => []EquityExplained
<1>1. Init => MoneyInv /\ Balanced(portfolio)
  BY InvInit, MoneyInit, BalancedInit DEF MoneyInv
<1>2. MoneyInv /\ Balanced(portfolio) /\ [Next]_vars /\ [ExactAverages]_vars
        => (MoneyInv /\ Balanced(portfolio))'
  <2>1. MoneyInv /\ [Next]_vars => MoneyInv'
    BY TypedStep, ListedStep, AgesStep, CoolingStep, MoneyTypedStep, GuardedStep
       DEF MoneyInv, Inv
  <2> QED
    BY <2>1, BalancedStep
<1>3. MoneyInv /\ Balanced(portfolio) => EquityExplained
  <2> SUFFICES ASSUME MoneyInv, Balanced(portfolio), phase = "between"
               PROVE  perf.equity = InitialCash + portfolio.realized
                          + UnrealizedPnl(portfolio, marks) - portfolio.fees
    BY DEF EquityExplained
  <2>1. portfolio \in Portfolios /\ marks \in [Symbols -> Int]
    BY DEF MoneyInv, MoneyTyped
  <2> DEFINE t == Total(Paid(portfolio), Symbols)
             u == UnrealizedPnl(portfolio, marks)
  <2>2. perf.equity = portfolio.cash + t + u
    BY <2>1, EquityFacts DEF MoneyInv, Guarded
  <2>3. portfolio.cash + t = InitialCash + portfolio.realized - portfolio.fees
    BY DEF Balanced
  <2>4. t \in Int
    BY <2>1, PaidTypes, SymbolsAreFinite, TotalFacts
  <2>5. u \in Int
    BY <2>1, TermTypes, UnrealizedPnlIsTotal, SymbolsAreFinite, TotalFacts
  <2>6. portfolio.cash \in Int /\ portfolio.realized \in Int /\ portfolio.fees \in Int
        /\ InitialCash \in Int
    BY <2>1, BarsAssumption DEF Portfolios
  <2> HIDE DEF t, u
  <2>7. perf.equity = InitialCash + portfolio.realized + u - portfolio.fees
    BY <2>2, <2>3, <2>4, <2>5, <2>6
  <2> QED
    BY <2>7 DEF u
<1> QED
  BY <1>1, <1>2, <1>3, PTL DEF Spec

-----------------------------------------------------------------------------
(* Entries and the limits that the reported points show *)

\* An order within the drawdown, equity and leverage limits at a given peak,
\* equity and mark.
InLimits(peak, equity, target, mark) ==
    /\ Policy.maxDrawdownPct # Off => (peak - equity) * 100 < Policy.maxDrawdownPct * peak
    /\ Policy.equityFloor # Off => equity > Policy.equityFloor
    /\ Policy.maxLeverage # Off => Abs(target) * mark <= equity * Policy.maxLeverage

\* With one symbol the gross exposure is that of the target.
LEMMA GrossOfOne ==
    ASSUME NEW s, Symbols = {s}, NEW p \in Portfolios, NEW m \in [Symbols -> Int],
           m[s] \in Nat \ {0}, NEW intent, intent.sym = s, intent.target \in Int
    PROVE  ResultingGross(intent, p, m) = Abs(intent.target) * m[s]
<1> DEFINE g == Gross(intent, p, m)
           a == Abs(intent.target)
           x == m[s]
<1>1. g[s] = Abs(intent.target * x)
  BY DEF Gross, MarkPrice, NoPrice
<1>2. Abs(intent.target * x) = a * x
  <2> DEFINE t == intent.target
  <2>1. t \in Int /\ x \in Nat \ {0}
    OBVIOUS
  <2> HIDE DEF t, x
  <2>2. CASE t < 0
    <3>1. t * x < 0 /\ t * x \in Int
      BY <2>1, <2>2
    <3>2. Abs(t * x) = -(t * x) /\ Abs(t) = -t
      BY <2>2, <3>1 DEF Abs
    <3>3. -(t * x) = (-t) * x
      BY <2>1
    <3> QED
      BY <3>2, <3>3 DEF t
  <2>3. CASE ~(t < 0)
    <3>1. ~(t * x < 0)
      BY <2>1, <2>3
    <3> QED
      BY <2>3, <3>1 DEF Abs, t
  <2> QED
    BY <2>2, <2>3
<1>3. \A y \in Symbols : g[y] \in Int
  BY GrossTypes
<1>4. ResultingGross(intent, p, m) = Total(g, Symbols)
  BY ResultingGrossIsTotal
<1> HIDE DEF g
<1>5. Total(g, {s}) = g[s] + Total(g, {s} \ {s})
  BY <1>3, FS_Singleton, TotalFacts
<1>6. {s} \ {s} = {}
  OBVIOUS
<1>7. Total(g, {}) = 0
  BY FS_EmptySet, TotalOfZeros
<1>8. Total(g, {s}) = g[s]
  BY <1>3, <1>5, <1>6, <1>7
<1> QED
  BY <1>1, <1>2, <1>4, <1>8

\* What the guardrails let through as an entry is within the limits of what they
\* look at, for a bypass never expands the exposure.
LEMMA AllowedEntries ==
    ASSUME NEW s, Symbols = {s}, NEW current \in Int, NEW target \in Int,
           NEW sess \in Sessions, sess.peak > 0, NEW c \in Nat, NEW b,
           NEW p \in Portfolios, NEW m \in [Symbols -> Int], m[s] \in Nat \ {0},
           NEW e \in Int, sess.last = e,
           IsAllowed(ExecutionIntent(s, current, target), sess, c, b, p, m, e),
           ExpandsExposure(ExecutionIntent(s, current, target))
    PROVE  InLimits(sess.peak, e, target, m[s])
<1> DEFINE i == ExecutionIntent(s, current, target)
           gross == ResultingGross(i, p, m)
           a == Abs(target) * m[s]
<1>1. i.sym = s /\ i.current = current /\ i.target = target
      /\ i.reduceOnly = (IsReduceOnly(current, target) /\ ReduceOnlyOnExit)
  BY DEF ExecutionIntent
<1>2. gross = a
  <2> HIDE DEF i
  <2> QED
    BY <1>1, GrossOfOne
<1> HIDE DEF i, gross
<1>3. ~CanBypass(i)
  <2> SUFFICES ASSUME CanBypass(i) PROVE FALSE
    OBVIOUS
  <2>1. IsReduceOnly(current, target) /\ Abs(target) <= Abs(current)
    BY <1>1 DEF CanBypass
  <2> QED
    BY <1>1, <2>1 DEF i, IsReduceOnly, ExpandsExposure, SameSide, OppositeSides, Abs
<1>4. ExpandsExposure(i) /\ ~Violates(i, sess, c, b, p, m, e)
  BY <1>3 DEF i, IsAllowed
<1>5. ~InDrawdown(sess) /\ ~(Policy.equityFloor # Off /\ e <= Policy.equityFloor)
  BY <1>4 DEF Violates, EntriesClosed
<1>6. ~(Policy.maxLeverage # Off /\ gross > Most(e, 0) * Policy.maxLeverage)
  BY <1>4 DEF Violates, SizeExceeded, gross
<1>7. /\ Policy.maxDrawdownPct # Off => Policy.maxDrawdownPct \in Nat
      /\ Policy.equityFloor # Off => Policy.equityFloor \in Nat
      /\ Policy.maxLeverage # Off => Policy.maxLeverage \in Nat
  BY PolicyAssumption DEF PolicyType, NaturalOption
<1>8. ASSUME Policy.maxDrawdownPct # Off
      PROVE  (sess.peak - e) * 100 < Policy.maxDrawdownPct * sess.peak
  <2>1. sess.peak \in Int
    BY DEF Sessions
  <2>2. Policy.maxDrawdownPct * sess.peak \in Int
    BY <1>7, <1>8, <2>1
  <2>3. ~((sess.peak - e) * 100 >= Policy.maxDrawdownPct * sess.peak)
    BY <1>5, <1>8 DEF InDrawdown
  <2> QED
    BY <2>1, <2>2, <2>3
<1>9. ASSUME Policy.maxLeverage # Off PROVE a <= e * Policy.maxLeverage
  <2> DEFINE l == Policy.maxLeverage
             x == m[s]
             q == Abs(target)
  <2>1. l \in Nat /\ x \in Nat \ {0} /\ q \in Nat /\ q > 0 /\ a = q * x
    <3>1. target # 0
      BY <1>1, <1>4 DEF ExpandsExposure
    <3> QED
      BY <1>7, <1>9, <3>1 DEF Abs
  <2>2. ~(a > Most(e, 0) * l)
    BY <1>2, <1>6, <1>9
  <2> HIDE DEF l, x, q, a
  <2>3. a \in Nat /\ a > 0
    BY <2>1
  <2>4. CASE e > 0
    <3>1. Most(e, 0) = e /\ e * l \in Int
      BY <2>1, <2>4 DEF Most
    <3> QED
      BY <2>2, <2>3, <3>1 DEF l
  <2>5. CASE ~(e > 0)
    <3>1. Most(e, 0) * l = 0
      BY <2>1, <2>5 DEF Most
    <3> QED
      BY <2>2, <2>3, <3>1
  <2> QED
    BY <2>4, <2>5
<1> QED
  BY <1>5, <1>7, <1>8, <1>9 DEF InLimits

\* The orders of this bar time that were meant to expand are within limits.
EntriesInLimits(peak, equity) ==
    \A id \in {x \in Ids : x.born = now /\ orders[x].expands} :
        InLimits(peak, equity, orders[id].target, marks[id.sym])

\* Between two evaluations the guardrails and the report remember the same peak;
\* after one the guardrails are ahead by the point that is still to come.
Judged ==
    /\ session.day # 0 /\ (phase \in {"between", "fill"} \/ (phase = "bars" /\ todo # {})) =>
        session.peak = perf.peak
    /\ phase = "bars" /\ todo = {} =>
        /\ session.peak = Most(perf.peak, session.last)
        /\ EntriesInLimits(session.peak, session.last)
    /\ phase = "between" => EntriesInLimits(perf.peak, perf.equity)

\* Where a new order comes from: an intent that the guardrails allowed when they
\* looked at the bar's close.
LEMMA NewEntries ==
    ASSUME Inv, MoneyTyped, NEW decision \in Decisions, evaluate_bar(decision),
           NEW id \in Ids', id \notin Ids
    PROVE  \E s \in Symbols, t \in Int :
               LET i == ExecutionIntent(s, portfolio.pos[s].qty, t)
               IN  /\ id.sym = s
                   /\ orders'[id].target = t
                   /\ orders'[id].expands = ExpandsExposure(i)
                   /\ IsAllowed(i, session', cooldown, bar, portfolio, marks', session'.last)
<1> DEFINE marked == [marks EXCEPT ![symbol] = bar.close]
           equity == Equity(portfolio, marked)
           refreshed == Refreshed(session, TradingDay[now], equity)
           allowed == {i \in Planned(decision) :
                          IsAllowed(i, refreshed, cooldown, bar, portfolio, marked, equity)}
           new == {IdOf(i) : i \in allowed}
           i == CHOOSE x \in allowed : IdOf(x) = id
<1>1. /\ orders' = [x \in DOMAIN orders \union new |->
                        IF x \in new THEN Created(CHOOSE y \in allowed : IdOf(y) = x)
                        ELSE orders[x]]
      /\ marks' = marked /\ session' = refreshed
  BY DEF evaluate_bar
<1>2. id \in new /\ orders'[id] = Created(i)
  BY <1>1 DEF Ids
<1>3. i \in allowed /\ IdOf(i) = id
  BY <1>2
<1>4. session'.last = equity
  BY <1>1, EvaluatedMoney
<1>5. PICK s \in DOMAIN decision : i = ExecutionIntent(s, portfolio.pos[s].qty, decision[s])
  BY <1>3 DEF Planned
<1>6. s \in Symbols /\ decision[s] \in Int
  <2>1. PICK D \in SUBSET Reach[symbol] : decision \in [D -> Targets]
    BY DEF Decisions
  <2>2. Reach[symbol] \subseteq Symbols
    BY UniverseAssumption DEF Inv, Typed
  <2> QED
    BY <2>1, <2>2, StrategyAssumption
<1>7. IsAllowed(i, session', cooldown, bar, portfolio, marks', session'.last)
  BY <1>1, <1>3, <1>4
<1> HIDE DEF i
<1>8. id.sym = s
  BY <1>3, <1>5 DEF IdOf, ExecutionIntent
<1>9. orders'[id].target = decision[s] /\ orders'[id].expands = ExpandsExposure(i)
  BY <1>2, <1>5 DEF Created, SubmittedOrder, ExecutionIntent
<1> QED
  BY <1>5, <1>6, <1>7, <1>8, <1>9

LEMMA JudgedInit == Init => Judged
<1> SUFFICES ASSUME Init PROVE Judged
  OBVIOUS
<1>1. Ids = {} /\ session.day = 0 /\ phase = "between"
  BY DEF Init, Ids, NewSession
<1> QED
  BY <1>1 DEF Judged, EntriesInLimits

LEMMA JudgedEvaluate ==
    ASSUME NEW only, Symbols = {only}, MoneyInv, Judged,
           NEW decision \in Decisions, evaluate_bar(decision)
    PROVE  Judged'
<1> USE DEF MoneyInv
<1>1. /\ phase = "fill" /\ phase' = "bars" /\ symbol = only /\ todo = {}
      /\ UNCHANGED <<now, todo, symbol, portfolio, perf>>
  BY DEF evaluate_bar, barVars, Inv, Typed, Ages
<1> DEFINE e == Equity(portfolio, marks')
<1>2. /\ marks' = [marks EXCEPT ![symbol] = bar.close] /\ marks' \in [Symbols -> Int]
      /\ bar.close \in Nat \ {0}
      /\ e \in Int /\ session' \in Sessions /\ session'.last = e
      /\ session'.peak = IF session.day = 0 THEN e ELSE Most(session.peak, e)
  BY EvaluatedMoney
<1>3. session.day = 0 => e = InitialCash /\ perf.peak = InitialCash
  BY <1>2, EquityFacts DEF Guarded, MoneyTyped
<1>4. session.day # 0 => session.peak = perf.peak
  BY <1>1 DEF Judged
<1> HIDE DEF e
<1>5. session'.peak = Most(perf'.peak, session'.last)
  BY <1>1, <1>2, <1>3, <1>4 DEF Most
<1>6. session'.peak > 0
  <2>1. perf.peak \in Int /\ perf.peak >= InitialCash /\ InitialCash \in Nat \ {0}
    BY BarsAssumption DEF Guarded, MoneyTyped
  <2> QED
    BY <1>1, <1>2, <1>5, <2>1 DEF Most
<1>7. marks'[only] \in Nat \ {0}
  BY <1>1, <1>2 DEF MoneyTyped
<1>8. ASSUME NEW id \in Ids', id.born = now, orders'[id].expands
      PROVE  InLimits(session'.peak, session'.last, orders'[id].target, marks'[id.sym])
  <2>1. id \notin Ids
    BY <1>1, <1>8 DEF Inv, Ages, Typed, OrderId, Ids
  <2>2. PICK s \in Symbols, t \in Int :
            LET i == ExecutionIntent(s, portfolio.pos[s].qty, t)
            IN  /\ id.sym = s
                /\ orders'[id].target = t
                /\ orders'[id].expands = ExpandsExposure(i)
                /\ IsAllowed(i, session', cooldown, bar, portfolio, marks', session'.last)
    BY <1>8, <2>1, NewEntries
  <2>3. /\ s = only /\ portfolio.pos[s].qty \in Int /\ cooldown \in Nat
        /\ portfolio \in Portfolios
    BY DEF Inv, Typed, MoneyTyped
  <2> DEFINE current == portfolio.pos[s].qty
             sess == session'
             m == marks'
  <2>4. /\ ExpandsExposure(ExecutionIntent(s, current, t))
        /\ IsAllowed(ExecutionIntent(s, current, t), sess, cooldown, bar, portfolio, m, e)
    BY <1>2, <1>8, <2>2
  <2>5. sess \in Sessions /\ sess.peak > 0 /\ sess.last = e /\ m \in [Symbols -> Int]
        /\ m[s] \in Nat \ {0} /\ e \in Int /\ current \in Int
    BY <1>2, <1>6, <1>7, <2>3
  <2> HIDE DEF current, sess, m
  <2>6. InLimits(sess.peak, e, t, m[s])
    BY <2>3, <2>4, <2>5, AllowedEntries
  <2> QED
    BY <1>2, <2>2, <2>6 DEF sess, m
<1> QED
  BY <1>1, <1>5, <1>8 DEF Judged, EntriesInLimits

LEMMA JudgedStep ==
    ASSUME NEW only, Symbols = {only}
    PROVE  MoneyInv /\ Judged /\ [Next]_vars => Judged'
<1> SUFFICES ASSUME MoneyInv, Judged, [Next]_vars PROVE Judged'
  OBVIOUS
<1> USE DEF barVars, riskVars
<1>1. ASSUME NEW S \in SUBSET Symbols, next_bar_time(S) PROVE Judged'
  BY <1>1 DEF next_bar_time, Judged
<1>2. ASSUME NEW s \in Symbols, NEW b \in Bars, begin_bar(s, b) PROVE Judged'
  BY <1>2 DEF begin_bar, IsNext, Judged
<1>3. ASSUME NEW id \in queue, process_open_order(id) PROVE Judged'
  BY <1>3 DEF process_open_order, Judged
<1>4. ASSUME NEW decision \in Decisions, evaluate_bar(decision) PROVE Judged'
  BY <1>4, JudgedEvaluate
<1>5. ASSUME NEW decision \in Decisions, evaluate_bar_raises(decision) PROVE Judged'
  BY <1>5 DEF evaluate_bar_raises, Judged
<1>6. CASE close_bar_time
  <2> DEFINE e == Equity(portfolio, marks)
  <2>1. /\ phase = "bars" /\ phase' = "between" /\ todo = {}
        /\ perf' = [peak |-> Most(perf.peak, e), equity |-> e]
        /\ UNCHANGED <<now, todo, orders, marks, session>>
    BY <1>6 DEF close_bar_time
  <2>2. session.last = e
    BY <2>1 DEF MoneyInv, Guarded
  <2> HIDE DEF e
  <2>3. perf'.peak = session.peak /\ perf'.equity = session.last
    BY <2>1, <2>2 DEF Judged
  <2>4. EntriesInLimits(session.peak, session.last)'
    BY <2>1 DEF Judged, EntriesInLimits, Ids
  <2> QED
    BY <2>1, <2>3, <2>4 DEF Judged, EntriesInLimits
<1>7. CASE finish_run
  BY <1>7 DEF finish_run, Judged
<1>8. CASE UNCHANGED vars
  BY <1>8 DEF vars, Judged, EntriesInLimits, Ids
<1> QED
  BY <1>1, <1>2, <1>3, <1>4, <1>5, <1>6, <1>7, <1>8 DEF Next

LEMMA JudgedInvariance ==
    ASSUME Cardinality(Symbols) = 1
    PROVE  Spec => [](MoneyInv /\ Judged)
<1>1. PICK only : Symbols = {only}
  <2>1. PICK only : only \in Symbols
    BY UniverseAssumption
  <2>2. Symbols = {only}
    BY <2>1, SymbolsAreFinite, LastOne
  <2> QED
    BY <2>2
<1>2. Init => MoneyInv /\ Judged
  BY InvInit, MoneyInit, JudgedInit DEF MoneyInv
<1>3. MoneyInv /\ Judged /\ [Next]_vars => (MoneyInv /\ Judged)'
  <2>1. MoneyInv /\ [Next]_vars => MoneyInv'
    BY TypedStep, ListedStep, AgesStep, CoolingStep, MoneyTypedStep, GuardedStep
       DEF MoneyInv, Inv
  <2> QED
    BY <1>1, <2>1, JudgedStep
<1> QED
  BY <1>2, <1>3, PTL DEF Spec

\* In a session of one symbol every order that expands exposure was created
\* where the performance point of its bar time shows the run within the
\* drawdown, equity and leverage limits, for any policy, bars and strategy.
THEOREM EntriesAreWithinReportedLimits == Spec => []EntriesRespectReportedLimits
<1>1. CASE Cardinality(Symbols) = 1
  <2>1. MoneyInv /\ Judged => EntriesRespectReportedLimits
    BY Zenon DEF Judged, EntriesInLimits, InLimits, EntriesRespectReportedLimits
  <2> QED
    BY <1>1, <2>1, JudgedInvariance, PTL
<1>2. CASE Cardinality(Symbols) # 1
  <2>1. EntriesRespectReportedLimits
    BY <1>2 DEF EntriesRespectReportedLimits
  <2> QED
    BY <2>1, PTL
<1> QED
  BY <1>1, <1>2

=============================================================================
