SPECIFICATION ServicesSpec
CONSTANTS
  Mail = {m1, m2}
  MaxPerRun = 1
  MaxCuts = 1
  MaxKept = 1
  StorePc = {s1, s2}
  HqPc = {h1}
  Run = {r1, r2}
  MaxFails = 1
  MaxCrashes = 1
  Item = {i1}
  Shop = {s1}
  Scanner = {c1, c2}
  MaxTurns = 3
  Video = {v1}
  Quality = {SD, HD}
  Encoding = {e1, e2}
  Worker = {w1, w2}
  MaxAgain = 1

INVARIANTS AllTyped MailsAccounted VariantsVerify
PROPERTIES EveryMailHandled ExpiredRunsGo AlertRaised QueueDrains
CHECK_DEADLOCK FALSE
