CONSTANTS
  BatchSize = 2
  QueueSize = 1
  ChannelSize = 1
  MaxGaps = 1
  Modulus = 8
  MaxMessages = 3
  MaxBeats = 1
  MaxRuns = 2
SPECIFICATION FairSpec
INVARIANTS
  TypeOK
  PacketsInOrder
  LossIsMeasured
PROPERTIES
  InOrderAtMostOnce
  MessagesLeave
CHECK_DEADLOCK FALSE
