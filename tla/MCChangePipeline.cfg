CONSTANTS
  Calls = {r1, r2}
  Workers = {w1, w2}
  NoJob = NoJob
  Plans = {p1, p2}
  Devices = {d1}
  Values = {v1, v2}
  Torn = Torn
  NoValue = NoValue
  NoDevice = NoDevice
  NoPlan = NoPlan
  MaxDrift = 0
  MaxCrashes = 1
SPECIFICATION Spec
SYMMETRY Symmetry
CHECK_DEADLOCK FALSE
INVARIANTS
  TypeOK
  OneWorkerPerPlan
  AppliedIsVerified
  SucceededJobIsSettled
  StrandedPlanIsReported
PROPERTIES
  OnlyConfirmedPlansConfigure
  ImplementsLifecycle
