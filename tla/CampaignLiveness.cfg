SPECIFICATION FairSpec
CONSTANTS
  Proc = {p1}
  NumBatches = 1
  Attempts = 1
  MaxRequests = 1
  MaxFaults = 1
CHECK_DEADLOCK FALSE
PROPERTIES
  RunningEnds
  QueuedEnds
