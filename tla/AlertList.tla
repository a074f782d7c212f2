----------------------------- MODULE AlertList -----------------------------
(***************************************************************************)
(* The list of alerts as the dashboard gets it (useLiveAlerts).  An alert  *)
(* is the number of its row in the backend's table.  /api/alerts answers   *)
(* with the newest ListLimit rows, newest first; the dashboard turns the   *)
(* list round and names each alert by its time and its place in the list.  *)
(***************************************************************************)
EXTENDS Integers, Sequences, FiniteSets, SequencesExt

CONSTANTS
    MaxRows,      \* bound on the alerts raised
    ListLimit,    \* rows in an answer of /api/alerts (200)
    CriticalRows, \* the rows whose severity is Critical
    TimeOf        \* the time shown of each row, to the second

Rows == 1..MaxRows

ASSUME ListAssumption ==
    /\ MaxRows \in Nat /\ ListLimit \in Nat \ {0}
    /\ CriticalRows \subseteq Rows
    /\ TimeOf \in [Rows -> Nat]

Least(m, n) == IF m < n THEN m ELSE n

(* The answer when the table holds the rows first..last. *)
ApiAlerts(first, last) ==
    [i \in 1..Least(last - first + 1, ListLimit) |-> last - i + 1]

(* Mutant: the list is shown as the backend sends it. *)
DisplayedNewestFirst(raw, before) == IF raw = <<>> THEN before ELSE raw

(* What is shown of an answer; an empty one changes nothing. *)
Displayed(raw, before) == IF raw = <<>> THEN before ELSE Reverse(raw)

(* `${a.time}-${i}` *)
IdOf(list, i) == <<TimeOf[list[i]], i - 1>>

=============================================================================
