CONSTANTS
  d1 = d1
  d2 = d2
  Devices = {d1, d2}
  Sources = {"auth_flood", "rogue_ap"}
  Weight <- Weights
  MAX_SCORE = 12
  ALERT_THRESHOLD = 6
  PRUNE_BELOW = 1
  DECAY_RATE = 1
  DECAY_GRACE = 1
  CORRELATION_WINDOW = 3
  PRUNE_INTERVAL = 4
  ALERT_FIRST = 1
  ALERT_EVERY = 3
  MaxTime = 7
  MaxEvidence = 5
SPECIFICATION Spec
SYMMETRY DeviceSymmetry
INVARIANTS
  ScoreTracksLeak
  SilenceIsBounded
PROPERTIES
  PruneForgetsOnlyQuiet
  CorrelationIsReal
CHECK_DEADLOCK FALSE
