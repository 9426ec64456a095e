CONSTANTS
  Users <- MCUsers
  Prices <- MCPrices
  Quantities <- MCQuantities
  Offers <- MCFewOffers
  Scale = 2
  Deposit = 3
  Slots <- MCTwoSlots
  NoSlot = 0
  NoPrice = 0
  MaxOrders = 2
  MaxAttempts = 2
  MaxCancels = 1
  None = None
SPECIFICATION FlowFairSpec
PROPERTIES
  RequestsEnd
  EngineReturns
CHECK_DEADLOCK FALSE
