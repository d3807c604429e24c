SPECIFICATION Spec
CONSTANTS
  MaxCmd = 1
  Device = {d1}
  Operator = {}
  Handler = {h1}
  Kinds <- TwiceKinds
  MaxRuns = 2
  MaxCrashes = 0
  NoDevice = NoDevice

INVARIANTS RunAtMostOnce
