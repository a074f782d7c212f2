------------------------------ MODULE AppShell ------------------------------
(***************************************************************************)
(* What the dashboard shows on every page (App.tsx): the alert list and    *)
(* its read marks, the threat level and the Alert Center, polled from a    *)
(* backend whose alert table goes on changing and which may be out of      *)
(* reach.  The live feed, the other thing on every page, is module         *)
(* LiveFeed.                                                               *)
(*                                                                         *)
(* Each alert is a row of the table (AlertList).  A poll and its answer    *)
(* are one step: ApiPolling has what happens in between.                   *)
(***************************************************************************)
EXTENDS AlertList

VARIABLES
    first, last,     \* the backend's alert rows are first..last
    answers,         \* <<first, last>> at each answer since the page was loaded
    liveAlerts,      \* the list shown, oldest first
    readIds,         \* the ids marked as read, also in localStorage
    alertsOpen,      \* the Alert Center is open
    userRead         \* ghost: the rows the user marked as read

vars == <<first, last, answers, liveAlerts, readIds, alertsOpen, userRead>>

Init ==
    /\ first = 1 /\ last = 0 /\ answers = {}
    /\ readIds = {} /\ userRead = {}
    /\ liveAlerts = <<>> /\ alertsOpen = FALSE

(***************************************************************************)
(* The backend.                                                            *)
(***************************************************************************)
RaiseAlert ==
    /\ last < MaxRows
    /\ last' = last + 1
    /\ UNCHANGED <<first, answers, liveAlerts, readIds, alertsOpen, userRead>>

ClearAlerts ==
    /\ first <= last
    /\ first' = last + 1
    /\ UNCHANGED <<last, answers, liveAlerts, readIds, alertsOpen, userRead>>

(***************************************************************************)
(* The list, its marks and the threat level.                               *)
(***************************************************************************)
PollAlerts ==
    /\ answers' = answers \cup {<<first, last>>}
    /\ liveAlerts' = Displayed(ApiAlerts(first, last), liveAlerts)
    /\ UNCHANGED <<first, last, readIds, alertsOpen, userRead>>

(* The backend is out of reach: fetchApi returns the answer it stored, one *)
(* of those the views that ask for the alerts were given; answers that     *)
(* overlapped may have been stored in any order.                           *)
PollAlertsFails ==
    /\ \E a \in answers : liveAlerts' = Displayed(ApiAlerts(a[1], a[2]), liveAlerts)
    /\ UNCHANGED <<first, last, answers, readIds, alertsOpen, userRead>>

OpenAlerts ==
    /\ ~alertsOpen
    /\ alertsOpen' = TRUE
    /\ UNCHANGED <<first, last, answers, liveAlerts, readIds, userRead>>

CloseAlerts ==
    /\ alertsOpen
    /\ alertsOpen' = FALSE
    /\ UNCHANGED <<first, last, answers, liveAlerts, readIds, userRead>>

(* A click on an alert.  The marks also go to localStorage (the last 500   *)
(* of them, more than a list has), where the next page load finds them.    *)
markRead(i) ==
    /\ alertsOpen
    /\ readIds' = readIds \cup {IdOf(liveAlerts, i)}
    /\ userRead' = userRead \cup {liveAlerts[i]}
    /\ UNCHANGED <<first, last, answers, liveAlerts, alertsOpen>>

markAllRead ==
    /\ alertsOpen
    /\ readIds' = {IdOf(liveAlerts, i) : i \in 1..Len(liveAlerts)}
    /\ userRead' = userRead \cup Range(liveAlerts)
    /\ UNCHANGED <<first, last, answers, liveAlerts, alertsOpen>>

Unread == {i \in 1..Len(liveAlerts) : IdOf(liveAlerts, i) \notin readIds}
hasCriticalUnread == \E i \in Unread : liveAlerts[i] \in CriticalRows
threatLevel ==
    IF hasCriticalUnread THEN "CRITICAL" ELSE IF Unread # {} THEN "MEDIUM" ELSE "LOW"

(* The page is loaded again: only localStorage is left. *)
Reload ==
    /\ answers' = {} /\ liveAlerts' = <<>> /\ alertsOpen' = FALSE
    /\ UNCHANGED <<first, last, readIds, userRead>>

(***************************************************************************)
(* The specification.                                                      *)
(***************************************************************************)
Next ==
    \/ RaiseAlert \/ ClearAlerts
    \/ PollAlerts \/ PollAlertsFails
    \/ OpenAlerts \/ CloseAlerts \/ markAllRead \/ Reload
    \/ \E i \in 1..Len(liveAlerts) : markRead(i)

Spec == Init /\ [][Next]_vars

(***************************************************************************)
(* Properties.                                                             *)
(***************************************************************************)
(* The alerts are numbered by their rows, which are never used twice.      *)
TypeOK ==
    /\ last \in 0..MaxRows /\ first \in 1..(last + 1)
    /\ \A a \in answers : a[1] \in 1..first /\ a[2] \in 0..last /\ a[1] <= a[2] + 1
    /\ liveAlerts \in Seq(Rows)

(* As long as no alert was cleared and they all fit in one answer, the top *)
(* bar says CRITICAL while a Critical alert is shown that the user never   *)
(* marked as read: neither new alerts, which come at the front of the      *)
(* answer, nor an older answer, nor a reload lend it the mark of another.  *)
CriticalRaisesLevel ==
    first = 1 /\ last <= ListLimit =>
        \A i \in 1..Len(liveAlerts) :
            liveAlerts[i] \in CriticalRows \ userRead => threatLevel = "CRITICAL"

(* Why: while no alert was cleared and all fit, the i-th alert of the list  *)
(* is row i, now and after any reload, so its place names it, and an id is *)
(* marked only when the user marked that row.                              *)
AllFit == first = 1 /\ last <= ListLimit
ListInv ==
    AllFit => \A i \in 1..Len(liveAlerts) : liveAlerts[i] = i
MarksInv ==
    AllFit => \A id \in readIds : \E r \in Rows \cap userRead : id = <<TimeOf[r], r - 1>>

=============================================================================
