CONSTANTS
  Prices = {1, 2}
  MaxQuantity = 1
  MaxLevels = 1
  SnapshotInterval = 2
  Day = 0
  TradesKept = 3
  TradesShown = 2
  QueueCapacity = 1
  BusCapacity = 1
  BookClients = {"b"}
  TickerClients = {"t"}
  MaxChanges = 2
  MaxTrades = 3
  MaxFaults = 1
  MaxTime = 1
  MaxSubscriptions = 1
SPECIFICATION FairSpec
INVARIANTS
  TypeOK
  ReplicaFollows
  ViewsFollow
  TradesShownOnce
  StatsAreTheLastDay
CHECK_DEADLOCK FALSE
PROPERTY FeedSettles
