CONSTANTS
  Calls = {r1}
  Workers = {w1}
  NoJob = NoJob
  Plans = {p1}
  Devices = {d1}
  Values = {v1, v2}
  Torn = Torn
  NoValue = NoValue
  NoDevice = NoDevice
  NoPlan = NoPlan
  MaxDrift = 0
  MaxCrashes = 0
SPECIFICATION Spec
CHECK_DEADLOCK FALSE
INVARIANT
  NothingSentNothingUndone
