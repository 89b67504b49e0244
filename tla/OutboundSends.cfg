SPECIFICATION Spec
CONSTANTS
  c1 = c1  c2 = c2  c3 = c3  k1 = k1  i1 = i1  i2 = i2
  Call = {c1, c2, c3}
  NoCall = NoCall
  Key = {k1}
  Id = {i1, i2}
  KeyOf <- OneKey
  IdOf <- TwoIds
  Outcome = {"delivered"}
  MaxFaults = 1
CHECK_DEADLOCK FALSE
INVARIANTS
  SentOnce
  
  RecordTells
PROPERTIES
  ImplementsDelivery
