SPECIFICATION Spec
CONSTANTS
  Ticket = {t1}
  Request = {r1, r2}
  Priority = {1, 2}
  ResolveIn <- Policy
  ReopenThreshold = 2
  MaxTime = 2

SYMMETRY RequestSymmetry
PROPERTIES PausedTimeExcluded
