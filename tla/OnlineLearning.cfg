CONSTANTS
  daemon = daemon
  manual = manual
  g1 = g1
  g2 = g2
  g3 = g3
  n1 = n1
  u1 = u1
  r1 = r1
  Trainers = {daemon, manual}
  Daemon = daemon
  Good = {g1}
  Noisy = {n1}
  Unusable = {u1}
  Raising = {r1}
  RETRAIN_THRESHOLD = 2
  MaxFaults = 1
SPECIFICATION FairSpec
INVARIANTS
  UsedWasLearned
  OneGoodModel
PROPERTY
  PendingIsLearned
CHECK_DEADLOCK FALSE
