SPECIFICATION Spec
CONSTANTS
  Symbols <- TwoSymbols
  Universe <- TwoUniverse
  Reach <- AnySymbol
  SpotSymbols <- NoSpot
  OrderTypePreference = "market"
  ReduceOnlyOnExit = TRUE
  MarketSlippageBps = 100
  MakerFeeBps = 10
  TakerFeeBps = 20
  Policy <- NoLimits
  Off = Off
  InitialCash = 20000000
  Bars <- TwoPrices
  Targets <- LongOnly
  AllowFlip = TRUE
  NTimes = 2
  TradingDay <- OneDay
CHECK_DEADLOCK FALSE
INVARIANTS MarketFillsAtNextOpen
