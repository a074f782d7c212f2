CONSTANTS
  c1 = c1
  c2 = c2
  Callers = {c1, c2}
  NoOne = NoOne
  Api = Api
  FaultySinks = {"jsonl", "db"}
  Retentions = {0, 1}
  ArchiveAges = {0, 1}
  MaxAlerts = 2
  MaxClock = 2
  MaxClears = 2
  MaxCrashes = 1
  MaxSetBacks = 1
SPECIFICATION MCSpec
INVARIANTS
  TypeOK
  SinkOrder
  ClearedStaysCleared
  DeliveredDespiteFaults
  LinesStayWhole
PROPERTIES
  FileLockReleased
  OldestGoFirst
CHECK_DEADLOCK FALSE
