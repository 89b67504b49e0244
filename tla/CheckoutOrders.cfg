SPECIFICATION Spec
CONSTANTS
  Contact = {c1}
  Worker = {w1, w2}
  Order = {o1, o2}
  Nobody = Nobody
  NoOrder = NoOrder
  Stock = 2
  MaxQty = 2
  MaxItems = 3
  MaxFaults = 1
SYMMETRY Symmetry
INVARIANTS
  StockIsAccounted
  OneOrder
  ChargedForContents
  OrderClosesCart
  PaidIsConfirmed
PROPERTIES
  ImplementsShop
