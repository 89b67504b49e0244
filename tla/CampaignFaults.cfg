SPECIFICATION Spec
CONSTANTS
  Proc = {p1}
  NumBatches = 2
  Attempts = 1
  MaxRequests = 1
  MaxFaults = 1
CHECK_DEADLOCK FALSE
INVARIANTS
  CompletedMeansFinished
