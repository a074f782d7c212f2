-------------------------- MODULE MCOnlineLearning --------------------------
(***************************************************************************)
(* Model values for the runs of OnlineLearning.                            *)
(***************************************************************************)
EXTENDS OnlineLearning

CONSTANTS daemon, manual, g1, g2, g3, n1, u1, r1

=============================================================================
