CONSTANTS
  c1 = c1
  c2 = c2
  Callers = {c1, c2}
  NoOne = NoOne
  Api = Api
  FaultySinks = {}
  Retentions = {0}
  ArchiveAges = {0}
  MaxAlerts = 1
  MaxClock = 1
  MaxClears = 0
  MaxCrashes = 0
  MaxSetBacks = 0
SPECIFICATION Spec
INVARIANT
  AuditReportsNoTampering
CHECK_DEADLOCK FALSE
