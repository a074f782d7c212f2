---------------------------- MODULE MCTrustedAps ----------------------------
(***************************************************************************)
(* Model values for the runs of TrustedAps.                                *)
(***************************************************************************)
EXTENDS TrustedAps, TLC

CONSTANTS s1, hidden, b1, b2

BssidSymmetry == Permutations(BSSIDs)

=============================================================================
