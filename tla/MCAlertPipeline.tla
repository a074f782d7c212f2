-------------------------- MODULE MCAlertPipeline --------------------------
(***************************************************************************)
(* AlertPipeline with two callers (the capture loop and the honeypot       *)
(* monitor).  Crashes, failing writes to the file and clear requests       *)
(* together with the wall clock have more states than TLC can go through,  *)
(* so seconds pass only in behaviours where the process never died, every  *)
(* record was written whole and at most one clear request was made.  The   *)
(* theorems of AlertPipelineProofs have no such bound.                     *)
(***************************************************************************)
EXTENDS AlertPipeline

ClockStands == clock = 0 /\ setBacks = 0
FileWorked == crashes = 0 /\ torn = 0 /\ unlogged = {} /\ clears <= 1
MCNext == Next /\ (ClockStands' \/ FileWorked')

(* A step that a fair caller owes is never one of those left out: it can   *)
(* always go well.                                                         *)
MCSpec ==
  /\ Init /\ [][MCNext]_vars
  /\ \A c \in Callers : WF_vars(FireStep(c))
  /\ WF_vars(ClearFile)
============================================================================
