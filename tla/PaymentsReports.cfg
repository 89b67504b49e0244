SPECIFICATION FairSpec
CONSTANTS
  a = a  w = w  A = A
  aCall = aCall  aHook = aHook  wCall = wCall  wHook = wHook
  Payment = {a, w}
  Plan = {A}
  Free = Free
  NoPlan = NoPlan
  PlanOf <- Buying
  Request = {aCall, aHook, wCall, wHook}
  PayOf <- Reports
  Webhooks = {aHook, wHook}
  MaxFaults = 1
CHECK_DEADLOCK FALSE
INVARIANTS
  WalletIsBooked
  PurchaseCompletes
  InvoicesAreRight
PROPERTIES
  CapturedIsKept
  PurchaseIsApplied
  
