SPECIFICATION FairSpec
CONSTANTS
  MaxCmd = 2
  Device = {d1}
  Operator = {}
  Handler = {h1, h2}
  Kinds <- LiveKinds
  MaxRuns = 1
  MaxCrashes = 0
  NoDevice = NoDevice

PROPERTIES EveryCommandAnswered
