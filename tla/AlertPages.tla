----------------------------- MODULE AlertPages -----------------------------
(***************************************************************************)
(* The two pages that list alerts and act on them: ThreatMap, where a      *)
(* button gives an alert a status of its own, and EventLog, where alerts   *)
(* are filtered, paged through, ticked and acknowledged.  Each has its own *)
(* copy of the list, which goes on changing under the user's hands, and    *)
(* keeps what the user did by the alert's id.                              *)
(*                                                                         *)
(* A filter or a search is the set of rows it lets through.  Acknowledging *)
(* posts the id, which the backend does not parse (it takes a row number), *)
(* so it changes nothing there; neither page looks at the answer's status  *)
(* beyond a toast.                                                         *)
(***************************************************************************)
EXTENDS AlertList, PolledPages

CONSTANTS
    CardLimit,   \* alerts ThreatMap has cards for (50)
    Statuses,    \* the statuses the buttons give, of the three
    Matching,    \* the sets of rows some filter or search lets through
    PageSizes    \* the choices of EventLog's page size

ASSUME PagesAssumption ==
    /\ CardLimit \in Nat \ {0}
    /\ Statuses \subseteq {"Investigating", "Ignored", "Mitigated"}
    /\ Rows \in Matching /\ Matching \subseteq SUBSET Rows
    /\ PageSizes \subseteq Nat \ {0} /\ PageSizes # {}

VARIABLES
    first,            \* the backend's alert rows are first..data
    list,             \* the rows the page lists, oldest first
    longest,          \* ghost: the most rows it has listed on this visit
    only,             \* the rows its filter and search let through
    overrideStatuses, \* ThreatMap: <<id, status>>, one for an id at most
    confirming,       \* ThreatMap: the ids whose confirmation is in flight
    pageSize,         \* EventLog
    currentPage,      \* EventLog, from 0
    selected,         \* EventLog: the ids ticked
    actedOn           \* ghost: the rows a button was pressed for on this page

threatVars == <<overrideStatuses, confirming, actedOn>>
logPageVars == <<pageSize, currentPage, selected>>
listVars == <<list, longest>>
alertVars == <<first, listVars, only, threatVars, logPageVars>>

FirstSize == CHOOSE n \in PageSizes : TRUE

AlertsInit ==
    /\ first = 1
    /\ list = <<>> /\ longest = 0 /\ only = Rows
    /\ overrideStatuses = {} /\ confirming = {} /\ actedOn = {}
    /\ pageSize = FirstSize /\ currentPage = 0 /\ selected = {}

MountAlerts ==
    /\ list' = <<>> /\ longest' = 0 /\ only' = Rows
    /\ overrideStatuses' = {} /\ confirming' = {} /\ actedOn' = {}
    /\ pageSize' = FirstSize /\ currentPage' = 0 /\ selected' = {}
    /\ UNCHANGED first

(***************************************************************************)
(* The backend's table, and the list.                                      *)
(***************************************************************************)
RaiseAlert ==
    /\ data < MaxRows
    /\ data' = data + 1
    /\ UNCHANGED alertVars

ClearAlerts ==
    /\ first <= data
    /\ first' = data + 1
    /\ UNCHANGED <<data, listVars, only, threatVars, logPageVars>>

Lists(raw) ==
    /\ page \in {"threats", "log"}
    /\ list' = Displayed(raw, list)
    /\ longest' = IF Len(list') > longest THEN Len(list') ELSE longest
    /\ UNCHANGED <<data, first, only, threatVars, logPageVars>>

PollList == up /\ Lists(ApiAlerts(first, data))

(* A request that fails, or that the back-off keeps back, takes the answer *)
(* in the cache, which some view got at an earlier time.  After a clear    *)
(* this also takes answers of tables that never were.                      *)
PollListFails == \E f \in 1..first, l \in 0..data : f <= l + 1 /\ Lists(ApiAlerts(f, l))

Id(i) == IdOf(list, i)

(* The places of the list that are let through, and which of them in turn  *)
(* a place is.                                                             *)
Filtered == {i \in 1..Len(list) : list[i] \in only}
Rank(i) == Cardinality({j \in Filtered : j <= i})

(***************************************************************************)
(* ThreatMap.                                                              *)
(***************************************************************************)
Cards == {i \in Filtered : Rank(i) <= CardLimit}

FilterThreats(rows) ==
    /\ page = "threats"
    /\ only' = rows
    /\ UNCHANGED <<data, first, listVars, threatVars, logPageVars>>

Override(id, status) ==
    overrideStatuses' = {o \in overrideStatuses : o[1] # id} \cup {<<id, status>>}

(* Investigate, Ignore and Block. *)
updateStatus(i, status) ==
    /\ page = "threats" /\ i \in Cards
    /\ Override(Id(i), status)
    /\ actedOn' = actedOn \cup {list[i]}
    /\ UNCHANGED <<data, first, listVars, only, confirming, logPageVars>>

confirmAttack(i) ==
    /\ page = "threats" /\ i \in Cards
    /\ confirming' = confirming \cup {Id(i)}
    /\ actedOn' = actedOn \cup {list[i]}
    /\ UNCHANGED <<data, first, listVars, only, overrideStatuses, logPageVars>>

(* The answer finds whatever alert bears the id by now. *)
ConfirmAnswered(id) ==
    /\ id \in confirming
    /\ confirming' = confirming \ {id}
    /\ IF up THEN Override(id, "Mitigated") ELSE UNCHANGED overrideStatuses
    /\ UNCHANGED <<data, first, listVars, only, actedOn, logPageVars>>

(***************************************************************************)
(* EventLog.                                                               *)
(***************************************************************************)
totalPages == (Cardinality(Filtered) + pageSize - 1) \div pageSize
paginatedLogs ==
    {i \in Filtered : Rank(i) \in (currentPage * pageSize + 1)..((currentPage + 1) * pageSize)}

(* Mutant: a new filter stays on the page. *)
FilterLogSamePage(rows) ==
    /\ page = "log"
    /\ only' = rows
    /\ UNCHANGED <<data, first, listVars, threatVars, logPageVars>>

(* handleFilterChange, and the search. *)
FilterLog(rows) ==
    /\ page = "log"
    /\ only' = rows
    /\ currentPage' = 0
    /\ UNCHANGED <<data, first, listVars, threatVars, pageSize, selected>>

ChoosePageSize(n) ==
    /\ page = "log" /\ n # pageSize
    /\ pageSize' = n
    /\ currentPage' = 0
    /\ UNCHANGED <<data, first, listVars, only, threatVars, selected>>

TurnPage(p) ==
    /\ page = "log" /\ totalPages > 1
    /\ \/ currentPage > 0 /\ p = currentPage - 1
       \/ currentPage < totalPages - 1 /\ p = Least(totalPages - 1, currentPage + 1)
    /\ currentPage' = p
    /\ UNCHANGED <<data, first, listVars, only, threatVars, pageSize, selected>>

toggleSelect(i) ==
    /\ page = "log" /\ i \in paginatedLogs
    /\ selected' = IF Id(i) \in selected THEN selected \ {Id(i)} ELSE selected \cup {Id(i)}
    /\ UNCHANGED <<data, first, listVars, only, threatVars, pageSize, currentPage>>

(* The header's box counts what is ticked, here or on other pages. *)
selectAll ==
    /\ page = "log" /\ Filtered # {}
    /\ selected' = IF Cardinality(selected) = Cardinality(paginatedLogs)
                   THEN {} ELSE {Id(i) : i \in paginatedLogs}
    /\ UNCHANGED <<data, first, listVars, only, threatVars, pageSize, currentPage>>

bulkAcknowledge ==
    /\ page = "log" /\ selected # {}
    /\ selected' = {}
    /\ UNCHANGED <<data, first, listVars, only, threatVars, pageSize, currentPage>>

(***************************************************************************)
(* The steps of this module.                                               *)
(***************************************************************************)
AlertsNext ==
    \/ RaiseAlert \/ ClearAlerts \/ PollList \/ PollListFails
    \/ \E rows \in Matching : FilterThreats(rows) \/ FilterLog(rows)
    \/ \E i \in 1..Len(list) :
          \/ \E status \in Statuses : updateStatus(i, status)
          \/ confirmAttack(i)
          \/ toggleSelect(i)
    \/ \E id \in confirming : ConfirmAnswered(id)
    \/ \E n \in PageSizes : ChoosePageSize(n)
    \/ \E p \in 0..MaxRows : TurnPage(p)
    \/ selectAll \/ bulkAcknowledge

=============================================================================
