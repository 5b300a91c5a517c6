CONSTANTS
  c1 = c1
  c2 = c2
  c3 = c3
  t1 = t1
  d1 = d1
  Clients = {c1, c2}
  Targets = {t1}
  Devices = {d1}
  NoDevice = NoDevice
  NoRequest = NoRequest
  Requests <- TwoOperations
  MaxConnections = 2
  MaxPerDevice = 2
  MaxTerminals = 1
  MaxTerminalsPerDevice = 1
  TestRate = 1
  TerminalRate = 1
  RateWindow = 2
  FailureLimit = 2
  FailureWindow = 2
  Cooldown = 2
  Ttl = 2
  Attempts = 2
SPECIFICATION FairSpec
PROPERTIES
  GateReopens
  CooldownEnds
