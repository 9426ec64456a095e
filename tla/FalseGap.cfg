CONSTANTS
  BatchSize = 2
  QueueSize = 1
  ChannelSize = 1
  MaxGaps = 1
  Modulus = 8
  MaxMessages = 3
  MaxBeats = 2
  MaxRuns = 2
SPECIFICATION Spec
INVARIANT DegradedMeansLoss
CHECK_DEADLOCK FALSE
