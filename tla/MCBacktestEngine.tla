---- MODULE MCBacktestEngine ----
\* Small instances of BacktestEngine for TLC.  Prices are multiples of
\* 60 * 60 and of 1000, so that slippage, fees and the average of two additions
\* to a position of up to six are exact.
EXTENDS BacktestEngine

\* Bars that open and close at one of the given prices, with no wicks.
PlainBars(prices) ==
    {[open |-> o, close |-> c, high |-> Most(o, c), low |-> Least(o, c)] : o, c \in prices}

TwoPrices == PlainBars({3600000, 5400000})
StandingBars == {[open |-> x, close |-> x, high |-> x, low |-> x] : x \in {3600000, 5400000}}
OnePrice == PlainBars({3600000})

OneSymbol == {"BTC_PERP"}
OneUniverse == <<"BTC_PERP">>
TwoSymbols == {"BTC_PERP", "ETH_PERP"}
TwoUniverse == <<"BTC_PERP", "ETH_PERP">>

OwnSymbol == [s \in Symbols |-> {s}]
FirstReachesAll == [s \in Symbols |-> IF s = "BTC_PERP" THEN Symbols ELSE {s}]
AnySymbol == [s \in Symbols |-> Symbols]
NoSpot == {}
AllSpot == Symbols

OneDay == [t \in 1..NTimes |-> 1]
DayAfterTwo == [t \in 1..NTimes |-> IF t <= 2 THEN 1 ELSE 2]

LongShort == {-1, 0, 1, 2}
LongOnly == {0, 1}
UpToTwo == {0, 1, 2}

NoLimits ==
    [maxPositionQty |-> Off, maxOrderQty |-> Off, maxOrderNotional |-> Off, equityFloor |-> 0,
     maxDrawdownPct |-> Off, maxDailyLossPct |-> Off, maxGrossMultiple |-> Off,
     maxLeverage |-> Off, cooldownBars |-> Off, reduceOnlyBypass |-> TRUE, spotCashCheck |-> TRUE]

StrictPolicy ==
    [NoLimits EXCEPT !.cooldownBars = 2, !.maxDrawdownPct = 15, !.equityFloor = 7000000,
                     !.maxLeverage = 1, !.maxOrderNotional = 11000000, !.maxGrossMultiple = 2]
CooldownPolicy == [NoLimits EXCEPT !.cooldownBars = 2]
CapPolicy == [NoLimits EXCEPT !.maxPositionQty = 1, !.maxOrderQty = 2]
DailyLossPolicy == [NoLimits EXCEPT !.maxDailyLossPct = 10]

====
