SPECIFICATION Spec
CONSTANTS
  Symbols <- OneSymbol
  Universe <- OneUniverse
  Reach <- OwnSymbol
  SpotSymbols <- NoSpot
  OrderTypePreference = "market"
  ReduceOnlyOnExit = TRUE
  MarketSlippageBps = 100
  MakerFeeBps = 10
  TakerFeeBps = 20
  Policy <- StrictPolicy
  Off = Off
  InitialCash = 10000000
  Bars <- TwoPrices
  Targets <- LongShort
  AllowFlip = TRUE
  NTimes = 5
  TradingDay <- DayAfterTwo
CHECK_DEADLOCK FALSE
INVARIANTS TypeOK EquityExplained TargetReached EntriesRespectReportedLimits
