SPECIFICATION Spec
CONSTANTS
  e1 = e1  e2 = e2  e3 = e3  m1 = m1  m2 = m2
  Event = {e1, e2, e3}
  NoEvent = NoEvent
  Message = {m1, m2}
  Carries <- TwoOfThree
  Front = {r1, r2}
  Handler = {h1, h2}
  Attempts = 2
  MaxDeliveries = 2
  MaxFaults = 1
SYMMETRY Symmetric
CHECK_DEADLOCK FALSE
INVARIANTS
  Accounted
  StreamedOnce
  HandledOnce
  
PROPERTIES
  ImplementsPipeline
