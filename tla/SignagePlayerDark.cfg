SPECIFICATION Spec
CONSTANTS
  Video = {v1, v2}
  Turned = {90}
  Flags = {"lean"}
  LocalFlags = "lean"
  MaxVersion = 1
  MaxChanges = 2
  MaxFaults = 0

SYMMETRY VideoSymmetry
PROPERTIES PlayStartsShowing
