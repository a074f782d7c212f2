----------------------------- MODULE MCAppShell -----------------------------
(***************************************************************************)
(* What App keeps on every page: AppShell and LiveFeed.  Neither reads a   *)
(* variable of the other, so a state of the one is checked with the other  *)
(* in its initial state.                                                   *)
(*                                                                         *)
(* Four alerts and an answer of three, so that the list slides; the first  *)
(* two are of the same second; the second and the last are Critical.  Five *)
(* events, the third without an item, a ring of three and a feed of two,   *)
(* so that a page falls behind both; two of them, FeedRows, may be alerts. *)
(***************************************************************************)
EXTENDS AppShell, LiveFeed

MCTimeOf == <<1, 1, 2, 2>>
FeedRows == 2

MCInit == Init /\ FeedInit

MCNext ==
    \/ FeedInit /\ Next /\ UNCHANGED feedVars
    \/ Init /\ FeedNext /\ newestRow' <= FeedRows /\ UNCHANGED vars

MCSpec == MCInit /\ [][MCNext]_<<vars, feedVars>>

(* The ids said to enter the feed are those of the items left by the cut.  *)
ASSUME EnteringIsKept ==
    \A ids \in UNION {[1..n -> EventIds] : n \in 0..4} :
        Entering(ids) = Range(Keep(Items(ids)))
=============================================================================
