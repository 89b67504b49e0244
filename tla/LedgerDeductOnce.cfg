SPECIFICATION Spec
CONSTANTS
  w1 = w1  w2 = w2  k1 = k1  k2 = k2
  NoId = NoId  NoRequest = NoRequest
  Workspace = {w1}
  Id = {k1, k2}
  Call = {c1, c2, c3}
  Request <- DeductRetried
SYMMETRY Symmetric
CHECK_DEADLOCK FALSE
INVARIANT DeductedOnce
