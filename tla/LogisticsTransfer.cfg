SPECIFICATION Spec
CONSTANTS
  Location = {stockRoom, backRoom, store, branch}
  StoreLocation = {store, branch}
  Grv = {}
  Ibt = {i1, i2}
  Request = {r1, r2}
  MaxQty = 1
  MaxPosted = 2
  MaxMoved = 0
SYMMETRY RequestSymmetry
VIEW Documents
INVARIANTS OncePosted ArrivalsAcknowledged
PROPERTIES TransfersAdvance
