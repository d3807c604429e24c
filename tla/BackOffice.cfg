SPECIFICATION BackSpec
CONSTANTS
  Nowhere = Nowhere
  Asset = {a1}
  Place = {i1, i2}
  Repair = {r1}
  Transfer = {t1}
  Request = {q1, q2}
  Typeable = {"REPAIR"}
  Item = {i1, i2}
  Slot = {q1, q2}
  Cost = {0}
  UnitCost = 10
  Life = 2
  MaxMonth = 2
  Audit = {u1}
  MaxLines = 2
  Store = {i1, i2}
  Room = {p1, p2}
  Code = {c1, c2}
  Email = {e1}
  Gone = Gone
  Token = {t1}
  Uses = 1
  Pc = {x1}
  MaxKeys = 3
  Order = {o1}
  Line = {i1, i2}
  OneType = FALSE
  Qty = 1
  MaxStock = 1
  Config = {k1, k2, k3}
  MaxOctet = 2
  MaxDay = 2
  MaxCuts = 1
  Pr = {n1, n2}
  Po = {o1, o2}
  Pad = {d1}
  Week = 2
  DayLength = 4
  Hour = {0, 1, 3, 4}
  Date = {1, 2, 3, 4}
  LookAhead = 3
  FarAway = 20
  MaxIters = 4
  MaxAsked = 4

SYMMETRY BackOfficeSymmetry
VIEW InFocus
CONSTRAINT Undecided
INVARIANTS AllTyped LocationTraced StatusHasDocument ValuesKept AuditExplained LocationInStep OneKeyInForce TokenNotOverdrawn StockAccounted OrderAdvances SubnetsDistinct ScheduledOnce DeadlineLeavesTime OrdersAgree PadStatusExplained OwnWriteShown
CHECK_DEADLOCK FALSE
