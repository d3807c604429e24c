SPECIFICATION Spec
CONSTANTS
  MaxCmd = 2
  Device = {d1}
  Operator = {o1}
  Handler = {h1, h2}
  Kinds <- QueueKinds
  MaxRuns = 1
  MaxCrashes = 1
  NoDevice = NoDevice
SYMMETRY SlotSymmetry
INVARIANTS DoneWasRun ShellWasSigned
PROPERTIES DeliveryInOrder
