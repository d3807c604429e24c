SPECIFICATION FairSpec
CONSTANTS
  Ticket = {t1}
  Request = {r1}
  Priority = {1, 2}
  ResolveIn <- Policy
  ReopenThreshold = 1
  MaxTime = 3

INVARIANTS WaitingIsFree BreachWasLate
PROPERTIES LegalMoves OverdueIsFlagged ResolvedIsClosed
