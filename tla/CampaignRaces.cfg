SPECIFICATION Spec
CONSTANTS
  Proc = {p1, p2}
  NumBatches = 1
  Attempts = 1
  MaxRequests = 2
  MaxFaults = 0
SYMMETRY Symmetric
CHECK_DEADLOCK FALSE
INVARIANT LaunchesExclude
 
