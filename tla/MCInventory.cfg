CONSTANTS
  Devices = {d1, d2}
  Fields <- MCFields
  e1 = e1
  e2 = e2
  u1 = u1
  u2 = u2
  d2 = d2
  k1 = k1
  Keys = {k1, k2}
  Candidates = {s1}
  Artifacts = {a1}
  Clients = {c1, c2}
  None = None
  MaxRequests = 2
SPECIFICATION Spec
CHECK_DEADLOCK FALSE
INVARIANTS
  PinsAreConfirmed
  RegistrationsAreTested
  SnapshotsAreWhole
  StatusFollowsLogins
PROPERTIES
  RequestsEnd
