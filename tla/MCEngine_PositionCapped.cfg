SPECIFICATION Spec
CONSTANTS
  Symbols <- OneSymbol
  Universe <- OneUniverse
  Reach <- OwnSymbol
  SpotSymbols <- NoSpot
  OrderTypePreference = "limit"
  ReduceOnlyOnExit = TRUE
  MarketSlippageBps = 100
  MakerFeeBps = 10
  TakerFeeBps = 20
  Policy <- CapPolicy
  Off = Off
  InitialCash = 20000000
  Bars <- TwoPrices
  Targets <- UpToTwo
  AllowFlip = TRUE
  NTimes = 4
  TradingDay <- DayAfterTwo
CHECK_DEADLOCK FALSE
INVARIANTS PositionCapped
