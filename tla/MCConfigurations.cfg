CONSTANTS
  Terminals = {t1, t2}
  First = t1
  MaxTerminals = 1
  MaxCancels = 3
  Requesters = {r1, r2}
  Askers = {q1, q2}
  MaxRuns = 2
  Retained = 1
SPECIFICATION Spec
CHECK_DEADLOCK FALSE
INVARIANTS
  ShellsAreCounted
  OneCancelLeavesNothing
  LoginsAreReported
  ResultsAreKept
  AnswersAreItsOwn
  ExpiredMeansLost
  LinksAreJudged
  RefusedAlike
  OnlyRefusedLoginsCount
  ChangesAreAllOrNothing
  LowRiskInterruptsNothing
PROPERTIES
  PermitsComeBack
  SessionsEnd
