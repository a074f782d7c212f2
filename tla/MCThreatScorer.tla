--------------------------- MODULE MCThreatScorer ---------------------------
(***************************************************************************)
(* Small scores for the runs of ThreatScorer: 12 points instead of 100.    *)
(***************************************************************************)
EXTENDS ThreatScorer, TLC

CONSTANTS d1, d2

DeviceSymmetry == Permutations(Devices)
Weights == [s \in Sources |-> IF s = "auth_flood" THEN 2 ELSE 4]

=============================================================================
