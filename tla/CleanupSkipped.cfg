CONSTANTS
  Users = {u1}
  MaxClients = 1
  MaxOrders = 1
  MaxRequests = 3
  QueueSize = 1
  EventCapacity = 1
SPECIFICATION FairSpec
PROPERTY AutomaticCleanup
CHECK_DEADLOCK FALSE
