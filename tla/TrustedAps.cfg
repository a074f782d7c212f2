CONSTANTS
  s1 = s1
  hidden = hidden
  b1 = b1
  b2 = b2
  SSIDs = {s1, hidden}
  Hidden = hidden
  BSSIDs = {b1, b2}
  Spellings = {"upper", "other"}
  FaultyDisk = TRUE
  MaxFrames = 2
  MaxAdds = 2
  MaxCrashes = 1
SPECIFICATION Spec
SYMMETRY BssidSymmetry
INVARIANTS
  TrustIsKept
  TwinsAreReported
  OneLateReport
PROPERTY
  NoAlarmOnTrusted
CHECK_DEADLOCK FALSE
