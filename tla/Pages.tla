------------------------------- MODULE Pages -------------------------------
(***************************************************************************)
(* App's pages, of which one is mounted at a time (useHashRoute, App):     *)
(* the alert pages and the polled pages over one backend.  Leaving a page  *)
(* unmounts it; what it had in flight may still come.                      *)
(***************************************************************************)
EXTENDS AlertPages

vars == <<page, data, polledVars, alertVars>>

PageKeys == {"overview", "threats", "log", "logs", "audit"} \cup PolledPages

Init ==
    /\ page = "overview" /\ data = 0
    /\ PolledInit
    /\ AlertsInit

(* A click in the sidebar, or the browser's back and forward. *)
Navigate(new) ==
    /\ new # page
    /\ page' = new
    /\ MountPolled(new)
    /\ MountAlerts
    /\ UNCHANGED data

Next ==
    \/ \E new \in PageKeys : Navigate(new)
    \/ PolledNext /\ UNCHANGED <<page, data, alertVars>>
    \/ AlertsNext /\ UNCHANGED <<page, polledVars>>

(* Answers come, timers fire, and the interval of SystemLogs ticks. *)
Fairness ==
    /\ \A l \in Loops : WF_vars(LoopStep(l) /\ UNCHANGED <<page, data, alertVars>>)
    /\ \A f \in Filters : WF_vars(LogAnswer(f) /\ UNCHANGED <<page, data, alertVars>>)
    /\ WF_vars(IntervalTick /\ UNCHANGED <<page, data, alertVars>>)

Spec == Init /\ [][Next]_vars /\ Fairness

(***************************************************************************)
(* Properties.                                                             *)
(***************************************************************************)
(* Whatever failed before, every section of a polled page that stays open  *)
(* shows the current data once the backend goes on answering, and nothing  *)
(* says "none" of what the backend has.  Not so where a body that could    *)
(* not be read, on this visit, has ended the loop, nor where the answer    *)
(* holds nothing and the page is one that then leaves what it shows.       *)
PagesCatchUp ==
    \A k \in PolledPages :
       <>[](/\ page = k /\ up /\ (garbled => Poller[k].survives)
            /\ <<Poller[k].skips, data>> \notin Empties)
       => <>[](Sections(k, shown) = Sections(k, [p \in Parts |-> data]))

(* The loop of a page that was left ends, so that going to and fro between *)
(* pages does not multiply the requests.                                   *)
PollsEnd == \A l \in Loops : loop[l].cancelled ~> ~loop[l].cancelled

(* With the live refresh on and a backend that answers, SystemLogs comes   *)
(* to show the entries of the filter chosen and stays there, though its    *)
(* requests overlap, their answers may come in any order, and one of them  *)
(* could not be read.                                                      *)
LogsMatchFilter ==
    \A f \in Filters :
       <>[](page = "logs" /\ filter = f /\ autoRefresh /\ up)
       => <>[](logs.of = f /\ logs.any)

(* As long as no alert was cleared and they all fit in one answer, the     *)
(* status ThreatMap shows for an alert was given by a button of that very  *)
(* alert, whatever came in before the answer to a confirmation.            *)
MarkedWasActedOn ==
    first = 1 /\ data <= ListLimit =>
        \A i \in 1..Len(list) :
            (\E o \in overrideStatuses : o[1] = Id(i)) => list[i] \in actedOn

(* Under the same condition EventLog shows an empty page of a list that    *)
(* has matching alerts only while an old answer out of the cache keeps the *)
(* list shorter than it was: the page turned to is not turned back.        *)
PageHasRows ==
    first = 1 /\ data <= ListLimit /\ page = "log" /\ Len(list) = longest =>
        (Filtered # {} => paginatedLogs # {})

(* Why: then row i is in place i of the list whenever it is listed, an id  *)
(* that is marked or about to be is that of a row acted on, and a page of  *)
(* EventLog but the first begins before the end of what was filtered when  *)
(* the list was longest.                                                   *)
PagesTypeOK ==
    /\ data \in 0..MaxRows /\ first \in 1..(data + 1)
    /\ list \in Seq(Rows) /\ longest \in Nat /\ actedOn \subseteq Rows
    /\ pageSize \in PageSizes /\ currentPage \in Nat
AllShown == first = 1 /\ data <= ListLimit
InOrder ==
    AllShown => /\ Len(list) <= longest /\ longest <= data
                /\ \A i \in 1..Len(list) : list[i] = i
Reached == (1..longest) \cap only
ActedIds == {<<TimeOf[r], r - 1>> : r \in actedOn}
MarksActed == AllShown => confirming \cup {o[1] : o \in overrideStatuses} \subseteq ActedIds
PageBegins ==
    /\ page # "log" => currentPage = 0
    /\ AllShown /\ currentPage # 0 => currentPage * pageSize < Cardinality(Reached)
PagesInv == InOrder /\ MarksActed /\ PageBegins

=============================================================================
