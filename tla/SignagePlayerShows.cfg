SPECIFICATION FairSpec
CONSTANTS
  Video = {v1, v2}
  Turned = {90}
  Flags = {"lean", "rich"}
  LocalFlags = "lean"
  MaxVersion = 2
  MaxChanges = 2
  MaxFaults = 1

INVARIANTS AppliedStays
PROPERTIES UnchangedKeepsPlaying SettledIsShown
