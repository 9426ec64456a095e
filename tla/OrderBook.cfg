CONSTANTS
  Prices <- MCPrices
  Quantities <- MCQuantities
  MaxOrders = 4
  MaxCancels = 1
  NoOrder = NoOrder
  NoPrice = NoPrice
SPECIFICATION HFairSpec
INVARIANTS
  TypeOK
  IndexMatchesLevels
  TotalsMatch
  NoEmptyLevel
  NotCrossed
  QuantityConserved
  CompletedExactly
PROPERTIES
  PriceTimePriority
  MatchTerminates
CHECK_DEADLOCK FALSE
