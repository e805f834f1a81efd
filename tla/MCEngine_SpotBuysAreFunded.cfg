SPECIFICATION Spec
CONSTANTS
  Symbols <- TwoSymbols
  Universe <- TwoUniverse
  Reach <- OwnSymbol
  SpotSymbols <- AllSpot
  OrderTypePreference = "market"
  ReduceOnlyOnExit = TRUE
  MarketSlippageBps = 100
  MakerFeeBps = 10
  TakerFeeBps = 20
  Policy <- NoLimits
  Off = Off
  InitialCash = 7200000
  Bars <- OnePrice
  Targets <- LongOnly
  AllowFlip = TRUE
  NTimes = 2
  TradingDay <- OneDay
CHECK_DEADLOCK FALSE
INVARIANTS SpotBuysAreFunded
