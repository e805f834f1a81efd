SPECIFICATION Spec
CONSTANTS
  Symbols <- TwoSymbols
  Universe <- TwoUniverse
  Reach <- FirstReachesAll
  SpotSymbols <- NoSpot
  OrderTypePreference = "market"
  ReduceOnlyOnExit = TRUE
  MarketSlippageBps = 100
  MakerFeeBps = 10
  TakerFeeBps = 20
  Policy <- CapPolicy
  Off = Off
  InitialCash = 20000000
  Bars <- StandingBars
  Targets <- UpToTwo
  AllowFlip = TRUE
  NTimes = 3
  TradingDay <- DayAfterTwo
CHECK_DEADLOCK FALSE
INVARIANTS PositionCapped GuardSeesReportedPeak NoLookAhead OpenOrdersWait
