SPECIFICATION Spec
CONSTANTS
  Symbols <- OneSymbol
  Universe <- OneUniverse
  Reach <- OwnSymbol
  SpotSymbols <- NoSpot
  OrderTypePreference = "market"
  ReduceOnlyOnExit = TRUE
  MarketSlippageBps = 100
  MakerFeeBps = 10
  TakerFeeBps = 20
  Policy <- DailyLossPolicy
  Off = Off
  InitialCash = 20000000
  Bars <- TwoPrices
  Targets <- LongShort
  AllowFlip = TRUE
  NTimes = 4
  TradingDay <- OneDay
CHECK_DEADLOCK FALSE
INVARIANTS DailyLossHoldsForTheDay
