CONSTANTS
  Users = {u1, u2}
  MaxClients = 2
  MaxOrders = 1
  MaxRequests = 3
  QueueSize = 1
  EventCapacity = 1
SPECIFICATION FairSpec
INVARIANTS TypeOK OneConnectionPerUser OnlyToOwner LeavesNothing NothingForgotten
PROPERTY EventReachesOwner
CHECK_DEADLOCK FALSE
