CONSTANTS
  Users <- MCUsers
  Prices <- MCPrices
  Quantities <- MCQuantities
  Offers <- MCFewOffers
  Scale = 2
  Deposit = 3
  Slots <- MCSlots
  NoSlot = 0
  NoPrice = 0
  MaxOrders = 2
  MaxAttempts = 2
  MaxCancels = 1
  None = None
SPECIFICATION FlowSpec
INVARIANT SettledOnce
CHECK_DEADLOCK FALSE
