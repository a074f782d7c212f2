-------------------------- MODULE MCEventStream --------------------------
(***************************************************************************)
(* Model values for the runs of EventStream.                               *)
(***************************************************************************)
EXTENDS EventStream

CONSTANTS s1, s2

==========================================================================
