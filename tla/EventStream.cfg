CONSTANTS
  s1 = s1
  s2 = s2
  Conns = {s1, s2}
  Nobody = Nobody
  MAX_EVENTS = 2
  PipeSize = 2
  MaxId = 4
  MaxRestarts = 1
SPECIFICATION FairSpec
INVARIANTS
  RingIsRecent
  NothingFallsBetween
PROPERTIES
  ResumeIsExact
  LogSpec
  StreamIsGivenUp
  WorkerIsReaped
CHECK_DEADLOCK FALSE
