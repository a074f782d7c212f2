-------------------------- MODULE MCFloodDetectors --------------------------
(***************************************************************************)
(* Small limits for the runs of FloodDetectors: thresholds of 2 or 3       *)
(* frames and windows of 1 or 2 time units, with the cooldown longer than  *)
(* the window as it is in the code.                                        *)
(***************************************************************************)
EXTENDS FloodDetectors

CONSTANT m1

Windows == [d \in Detectors |-> IF d = "beacon" THEN 1 ELSE 2]
Thresholds == [d \in Detectors |-> IF d = "deauth" THEN 3 ELSE 2]
Cooldowns == [d \in Detectors |-> IF d = "auth" THEN 4 ELSE 3]

=============================================================================
