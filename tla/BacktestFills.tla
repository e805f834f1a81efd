---------------------------- MODULE BacktestFills ----------------------------
(***************************************************************************)
(* From a strategy's targets to simulated orders and fills:                *)
(* src/src/backtest/lifecycle.py and src/src/backtest/fills.py.            *)
(***************************************************************************)
EXTENDS Quantities

CONSTANTS
    OrderTypePreference,  \* execution_policy.order_type_preference
    ReduceOnlyOnExit,     \* execution_policy.reduce_only_on_exit
    MarketSlippageBps,    \* FixedBpsSlippageModel
    MakerFeeBps,          \* the fee schedule
    TakerFeeBps

ASSUME OrderTypeAssumption == OrderTypePreference \in {"market", "limit"}
ASSUME ExitPolicyAssumption == ReduceOnlyOnExit \in BOOLEAN
ASSUME BpsAssumption ==
    /\ MarketSlippageBps \in 0..9999
    /\ MakerFeeBps \in Int
    /\ TakerFeeBps \in Int

-----------------------------------------------------------------------------
(* plan_from_target_position                                               *)

\* _is_reduce_only: the target is flat, or on the same side and smaller.
IsReduceOnly(current, target) ==
    /\ current # 0
    /\ \/ target = 0
       \/ SameSide(current, target) /\ Abs(target) < Abs(current)

FlipsPosition(current, target) == OppositeSides(current, target)

ExecutionIntent(s, current, target) ==
    [sym |-> s, current |-> current, target |-> target,
     reduceOnly |-> IsReduceOnly(current, target) /\ ReduceOnlyOnExit]

\* Slip: an order is sized by the target alone.
DeltaQty_WholeTarget(intent) == intent.target

DeltaQty(intent) == intent.target - intent.current

-----------------------------------------------------------------------------
(* Orders and fills.  A quantity carries its side: positive to buy.        *)

\* create_order: no intent carries a limit price, so a limit order asks for
\* the close of the bar it was decided on.
SubmittedOrder(intent, bar) ==
    [sym |-> intent.sym, qty |-> DeltaQty(intent), target |-> intent.target,
     limit |-> bar.close, status |-> "submitted"]

\* _resolve_fill_basis: whether an open order meets the bar ...
Meets(order, bar) ==
    \/ OrderTypePreference = "market"
    \/ order.qty > 0 /\ bar.low <= order.limit
    \/ order.qty < 0 /\ bar.high >= order.limit

\* process_open_order: ... if it is open and the bar is its symbol's.
IsFilledBy(order, s, bar) ==
    /\ order.status = "submitted"
    /\ order.sym = s
    /\ Meets(order, bar)

\* The price the slippage model makes of the bar's open, or the limit price.
FillPrice(order, bar) ==
    IF OrderTypePreference = "limit" THEN order.limit
    ELSE LET slippage == (bar.open * MarketSlippageBps) \div 10000
         IN IF order.qty > 0 THEN bar.open + slippage ELSE bar.open - slippage

FeeBps == IF OrderTypePreference = "limit" THEN MakerFeeBps ELSE TakerFeeBps

Fill(order, bar) ==
    LET price == FillPrice(order, bar)
    IN [sym |-> order.sym, qty |-> order.qty, price |-> price,
        fee |-> (price * Abs(order.qty) * FeeBps) \div 10000]

=============================================================================
