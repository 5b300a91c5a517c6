CONSTANTS
  Sockets = {s1, s2}
  First = s1
  Budget = 7
  ResultSize = 2
  Keep = 2
  MaxRounds = 2
  MaxCalls = 3
  CallsPerReply = 2
  MaxStored = 6
  Short = 2
  Requesters = {r1, r2}
  Allowance = 2
  MaxRequests = 6
SPECIFICATION Spec
CHECK_DEADLOCK FALSE
INVARIANTS
  WindowsAreLegal
  BlocksAreLegal
  StoredIsLegal
  QuestionIsSent
  AllowanceIsKept
PROPERTIES
  TurnsEnd
