CONSTANTS
  Calls = {r1, r2}
  Workers = {w1}
  NoJob = NoJob
  Plans = {p1}
  Devices = {d1}
  Values = {v1, v2}
  Torn = Torn
  NoValue = NoValue
  NoDevice = NoDevice
  NoPlan = NoPlan
  MaxDrift = 1
  MaxCrashes = 1
SPECIFICATION FairSpec
CHECK_DEADLOCK FALSE
PROPERTIES
  LockIsReleased
  AcceptedApplyRuns
