SPECIFICATION Spec
CONSTANTS
  Location = {stockRoom, store}
  StoreLocation = {store}
  Grv = {g1, g2}
  Ibt = {}
  Request = {r1, r2}
  MaxQty = 1
  MaxPosted = 2
  MaxMoved = 1
SYMMETRY RequestSymmetry
INVARIANTS LedgerReconciles PostedWithStatus
