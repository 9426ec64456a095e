CONSTANTS
  Prices = {1, 2}
  MaxQuantity = 1
  MaxLevels = 1
  SnapshotInterval = 2
  Day = 0
  TradesKept = 2
  TradesShown = 1
  QueueCapacity = 2
  BusCapacity = 2
  BookClients = {"b"}
  TickerClients = {}
  MaxChanges = 2
  MaxTrades = 0
  MaxFaults = 0
  MaxTime = 0
  MaxSubscriptions = 1
SPECIFICATION FairSpec
CHECK_DEADLOCK FALSE
PROPERTY BrowserSettles
