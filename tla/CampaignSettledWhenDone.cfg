SPECIFICATION Spec
CONSTANTS
  Proc = {p1}
  NumBatches = 1
  Attempts = 2
  MaxRequests = 1
  MaxFaults = 1
CHECK_DEADLOCK FALSE
INVARIANT SettledWhenDone
