---------------------------- MODULE BacktestRisk ----------------------------
(***************************************************************************)
(* The pre-trade guardrails of a backtest run, src/src/backtest/risk.py.   *)
(*                                                                         *)
(* Which rule blocked an intent is only reported, so the rules are a       *)
(* disjunction and their order is left out.  Percentages are compared by   *)
(* cross-multiplication: a Decimal ratio x/y >= n/100 with y > 0.          *)
(***************************************************************************)
EXTENDS BacktestPortfolio, BacktestFills

CONSTANTS
    Policy,      \* the effective RiskPolicyConfig
    Off,         \* the value of an option that is None
    SpotSymbols  \* symbols that end in _SPOT

NaturalOption == Nat \union {Off}

PolicyType ==
    [maxPositionQty : NaturalOption, maxOrderQty : NaturalOption,
     maxOrderNotional : NaturalOption, equityFloor : NaturalOption,
     maxDrawdownPct : NaturalOption, maxDailyLossPct : NaturalOption,
     maxGrossMultiple : NaturalOption, maxLeverage : NaturalOption,
     cooldownBars : NaturalOption, reduceOnlyBypass : BOOLEAN, spotCashCheck : BOOLEAN]

ASSUME PolicyAssumption ==
    /\ Off \notin Nat
    /\ Policy \in PolicyType
    /\ SpotSymbols \subseteq Symbols

Exceeds(option, x) == option # Off /\ x > option

-----------------------------------------------------------------------------
(* RiskGuardrailSessionState.  day = 0: nothing has been observed yet; its *)
(* cooldown_bars_remaining is the argument cooldown.                       *)

NewSession == [day |-> 0, dayStart |-> 0, peak |-> 0, last |-> 0]

\* Slip: the peak starts over with every trading day.
Refreshed_DailyPeak(session, today, equity) ==
    [day |-> today,
     dayStart |-> IF session.day = today THEN session.dayStart ELSE equity,
     peak |-> IF session.day # today THEN equity ELSE Most(session.peak, equity),
     last |-> equity]

\* _refresh_session_state, at the close of each bar.  Bar times never go back,
\* so crossing the cached day boundary is the same as a new local date.
Refreshed(session, today, equity) ==
    [session EXCEPT
        !.day = today,
        !.dayStart = IF session.day = today THEN @ ELSE equity,
        !.peak = IF session.day = 0 THEN equity ELSE Most(@, equity),
        !.last = equity]

\* Slip: the losing close of a short position is not seen as a loss.
LosingClose_LongOnly(position, fill) == position.qty > 0 /\ RealizedBy(position, fill) < 0

LosingClose(position, fill) == ClosesAny(position, fill) /\ RealizedBy(position, fill) < 0

\* observe_fill_application
CooldownAfter(cooldown, position, fill) ==
    IF Policy.cooldownBars # Off /\ LosingClose(position, fill)
    THEN Most(cooldown, Policy.cooldownBars)
    ELSE cooldown

\* Slip: a cooldown of n bars lets the n-th evaluation through.
complete_bar_Twice(cooldown) == IF cooldown > 1 THEN cooldown - 2 ELSE 0

\* Slip: the count of bars runs below zero.
complete_bar_NoFloor(cooldown) == cooldown - 1

complete_bar(cooldown) == IF cooldown > 0 THEN cooldown - 1 ELSE cooldown

-----------------------------------------------------------------------------
(* _detect_violation                                                       *)

\* _would_expand_exposure: a new, a flipped or a larger position.
ExpandsExposure(intent) ==
    /\ intent.target # 0
    /\ \/ intent.current = 0
       \/ OppositeSides(intent.current, intent.target)
       \/ Abs(intent.target) > Abs(intent.current)

InDrawdown(session) ==
    /\ Policy.maxDrawdownPct # Off
    /\ session.peak > 0
    /\ (session.peak - session.last) * 100 >= Policy.maxDrawdownPct * session.peak

InDailyLoss(session) ==
    /\ Policy.maxDailyLossPct # Off
    /\ session.dayStart > 0
    /\ session.last < session.dayStart
    /\ (session.dayStart - session.last) * 100 >= Policy.maxDailyLossPct * session.dayStart

\* New exposure is refused while one of these holds.
EntriesClosed(session, cooldown, equity) ==
    \/ cooldown > 0
    \/ Policy.equityFloor # Off /\ equity <= Policy.equityFloor
    \/ InDrawdown(session)
    \/ InDailyLoss(session)

\* _estimate_spot_cash_requirement: the order as if filled at the close.
SpotCashNeeded(intent, bar) ==
    LET fill == Fill(SubmittedOrder(intent, bar), [bar EXCEPT !.open = bar.close])
    IN fill.price * Abs(fill.qty) + fill.fee

SpotCashShort(intent, bar, p) ==
    /\ Policy.spotCashCheck
    /\ intent.sym \in SpotSymbols
    /\ DeltaQty(intent) > 0
    /\ ~intent.reduceOnly
    /\ p.cash < SpotCashNeeded(intent, bar)

\* _estimate_resulting_gross_exposure: the intent's target and the other
\* symbols' positions.  Orders still pending count for nothing.
ResultingGross(intent, p, marks) ==
    LET qty(s) == IF s = intent.sym THEN intent.target ELSE p.pos[s].qty
    IN MapThenSumSet(LAMBDA s : Abs(qty(s) * MarkPrice(p, marks, s)), Symbols)

\* Slip: the size of the order is held against the limit of the position.
PositionTooLarge_ByOrder(intent) == Exceeds(Policy.maxPositionQty, Abs(DeltaQty(intent)))

PositionTooLarge(intent) == Exceeds(Policy.maxPositionQty, Abs(intent.target))

SizeExceeded(intent, bar, p, marks, equity) ==
    LET qty == Abs(DeltaQty(intent))
        gross == ResultingGross(intent, p, marks)
    IN \/ Exceeds(Policy.maxOrderQty, qty)
       \/ Exceeds(Policy.maxOrderNotional, qty * bar.close)
       \/ PositionTooLarge(intent)
       \/ /\ Policy.maxGrossMultiple # Off
          /\ gross > Most(equity, 0) * Policy.maxGrossMultiple
       \/ /\ Policy.maxLeverage # Off
          /\ ExpandsExposure(intent)
          /\ gross > Most(equity, 0) * Policy.maxLeverage

Violates(intent, session, cooldown, bar, p, marks, equity) ==
    \/ ExpandsExposure(intent) /\ EntriesClosed(session, cooldown, equity)
    \/ SpotCashShort(intent, bar, p)
    \/ SizeExceeded(intent, bar, p, marks, equity)

\* _can_bypass_violation
CanBypass(intent) ==
    /\ Policy.reduceOnlyBypass
    /\ intent.reduceOnly
    /\ Abs(intent.target) <= Abs(intent.current)

\* evaluate_intent
IsAllowed(intent, session, cooldown, bar, p, marks, equity) ==
    ~Violates(intent, session, cooldown, bar, p, marks, equity) \/ CanBypass(intent)

=============================================================================
