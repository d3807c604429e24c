SPECIFICATION Spec
CONSTANTS
  Location = {stockRoom, store}
  StoreLocation = {store}
  Grv = {}
  Ibt = {i1}
  Request = {r1, r2}
  MaxQty = 1
  MaxPosted = 2
  MaxMoved = 0
SYMMETRY RequestSymmetry
INVARIANTS IbtPostedOnce
