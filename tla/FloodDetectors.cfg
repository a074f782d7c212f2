CONSTANTS
  m1 = m1
  Detectors = {"deauth", "probe", "beacon", "auth"}
  Sources = {m1}
  Window <- Windows
  Threshold <- Thresholds
  Cooldown <- Cooldowns
  MaxTime = 7
  MaxFrames = 5
SPECIFICATION Spec
INVARIANTS
  AlertIsTrue
  AlertsAreSpaced
  FloodIsAlerted
CHECK_DEADLOCK FALSE
