------------------------------ MODULE LiveFeed ------------------------------
(***************************************************************************)
(* The live feed of the dashboard (useLiveFeed): items for new alerts, for *)
(* events and for the packet rate, and the notifications, polled from a    *)
(* backend whose alert table and event ring go on changing, and which may  *)
(* restart or be out of reach.                                             *)
(*                                                                         *)
(* An alert is a row of the table (AlertList) and an event; predictions    *)
(* and honeypot confirmations are events only.  The ids of the events      *)
(* start again at 1 when the backend restarts.  A poll and its answer are  *)
(* one step: ApiPolling has what happens in between.                       *)
(***************************************************************************)
EXTENDS AlertList

CONSTANTS
    MaxEventIds,  \* bound on the events a backend publishes
    RingLimit,    \* events the backend keeps (200)
    EventBatch,   \* events in the first answer of /api/events (20)
    FeedLimit,    \* items the live feed keeps (30)
    Silent,       \* the ids of events the feed has no item for: those that
                  \* are neither alerts nor predictions
    Channels      \* the notifications switched on: "sound", "desktop"

EventIds == 1..MaxEventIds

ASSUME FeedAssumption ==
    /\ MaxEventIds \in Nat /\ RingLimit \in Nat \ {0}
    /\ EventBatch \in Nat \ {0} /\ FeedLimit \in Nat /\ EventBatch <= FeedLimit
    /\ Channels \subseteq {"sound", "desktop"}

VARIABLES
    oldestRow,       \* the backend's alert rows are those from
    newestRow,       \* oldestRow to newestRow
    published,       \* the events published since the backend started
    restarted,       \* the backend has restarted since the page was loaded
    listAnswers,     \* <<oldestRow, newestRow>> at each answer since the load
    feedAlerts,      \* the list of alerts, as App has one of its own
    prevAlertCount,  \* prevAlertCountRef
    notified,        \* the <<channel, row>> a notification was raised for
    feed,            \* the items, newest batch first
    lastEventId,     \* lastEventIdRef
    eventsCache,     \* fetchApi: the answers stored for /api/events, by URL
    firstEvent,      \* ghost: the oldest event of the first answer, 0 before
    entered,         \* ghost: how often an item of each event entered the feed
    fellBehind       \* ghost: more events came between two answers than the
                     \* ring or the feed holds

backendVars == <<oldestRow, newestRow, published, restarted>>
byCount == <<listAnswers, feedAlerts, prevAlertCount, notified>>
byEvent == <<lastEventId, eventsCache, firstEvent, entered>>
feedVars == <<backendVars, byCount, feed, byEvent, fellBehind>>

NotCached == <<0>>
NoAnswers == [id \in 0..MaxEventIds |-> NotCached]
NeverEntered == [id \in EventIds |-> 0]

FeedInit ==
    /\ oldestRow = 1 /\ newestRow = 0 /\ published = 0 /\ restarted = FALSE
    /\ listAnswers = {} /\ feedAlerts = <<>> /\ prevAlertCount = 0 /\ notified = {}
    /\ feed = <<>> /\ lastEventId = 0 /\ eventsCache = NoAnswers
    /\ firstEvent = 0 /\ entered = NeverEntered /\ fellBehind = FALSE

(***************************************************************************)
(* The backend.                                                            *)
(***************************************************************************)
Greatest(m, n) == IF m > n THEN m ELSE n

FallsBehind(n) == lastEventId # 0 /\ n - lastEventId > Least(RingLimit, FeedLimit)

Publish ==
    /\ published < MaxEventIds
    /\ published' = published + 1
    /\ fellBehind' = (fellBehind \/ FallsBehind(published'))

PublishAlert ==
    /\ newestRow < MaxRows /\ published + 1 \notin Silent
    /\ newestRow' = newestRow + 1
    /\ Publish
    /\ UNCHANGED <<oldestRow, restarted, byCount, feed, byEvent>>

(* A prediction, or a honeypot confirmation. *)
PublishOther ==
    /\ Publish
    /\ UNCHANGED <<oldestRow, newestRow, restarted, byCount, feed, byEvent>>

ClearTable ==
    /\ oldestRow <= newestRow
    /\ oldestRow' = newestRow + 1
    /\ UNCHANGED <<newestRow, published, restarted, byCount, feed, byEvent, fellBehind>>

RestartBackend ==
    /\ published' = 0
    /\ restarted' = TRUE
    /\ UNCHANGED <<oldestRow, newestRow, byCount, feed, byEvent, fellBehind>>

(* /api/events: to a page that has none the latest batch, newest first;    *)
(* else what the ring has of what came after last_id, oldest first.        *)
OldestKept == Greatest(1, published - RingLimit + 1)
From(lastId) ==
    Greatest(OldestKept, IF lastId = 0 THEN published - EventBatch + 1 ELSE lastId + 1)
ApiEvents(lastId) ==
    [i \in 1..(published - From(lastId) + 1) |->
        IF lastId = 0 THEN published - i + 1 ELSE From(lastId) + i - 1]

(***************************************************************************)
(* New alerts.                                                             *)
(***************************************************************************)
Keep(items) == SubSeq(items, 1, Least(Len(items), FeedLimit))

(* What the effect on a changed list takes for the new alerts: as many as  *)
(* the list has grown by, from its front.                                  *)
NewAlerts(list) ==
    IF Len(list) > prevAlertCount /\ prevAlertCount > 0
    THEN SubSeq(list, 1, Len(list) - prevAlertCount)
    ELSE <<>>

ListChanges(list) ==
    LET new == NewAlerts(list) IN
    /\ feedAlerts' = list
    /\ prevAlertCount' = Len(list)
    /\ feed' = Keep([i \in 1..Len(new) |-> <<"alert", new[i]>>] \o feed)
    /\ notified' = notified \cup (Channels \X (Range(new) \cap CriticalRows))
    /\ UNCHANGED <<backendVars, byEvent, fellBehind>>

PollFeedAlerts ==
    /\ listAnswers' = listAnswers \cup {<<oldestRow, newestRow>>}
    /\ ListChanges(Displayed(ApiAlerts(oldestRow, newestRow), feedAlerts))

(* The backend is out of reach: see PollAlertsFails of AppShell. *)
PollFeedAlertsFails ==
    /\ \E a \in listAnswers : ListChanges(Displayed(ApiAlerts(a[1], a[2]), feedAlerts))
    /\ UNCHANGED listAnswers

(***************************************************************************)
(* Events.                                                                 *)
(***************************************************************************)
Items(ids) == SelectSeq(ids, LAMBDA id : id \notin Silent)

(* The ids whose items come before the feed is cut off. *)
Entering(ids) ==
    {ids[i] : i \in {i \in 1..Len(ids) :
        ids[i] \notin Silent /\ Cardinality({j \in 1..i : ids[j] \notin Silent}) <= FeedLimit}}

ItemsAdded(ids) ==
    /\ feed' = Keep([i \in 1..Len(Items(ids)) |-> <<"event", Items(ids)[i]>>] \o feed)
    /\ entered' = [id \in EventIds |-> entered[id] + (IF id \in Entering(ids) THEN 1 ELSE 0)]
    /\ firstEvent' = IF firstEvent = 0 /\ ids # <<>> THEN Min(Range(ids)) ELSE firstEvent

(* Mutant: only the last event of an answer moves lastEventIdRef. *)
ReceivedLastOnly(ids) ==
    /\ lastEventId' = IF ids = <<>> THEN lastEventId ELSE ids[Len(ids)]
    /\ ItemsAdded(ids)

(* The ids received: the newest of them is remembered, and each that has   *)
(* one gives an item, in front of those that are there; what then is too   *)
(* many is cut off, be it the newest of a long answer.                     *)
Received(ids) ==
    /\ lastEventId' = Max({lastEventId} \cup Range(ids))
    /\ ItemsAdded(ids)

PollEvents ==
    LET ids == ApiEvents(lastEventId) IN
    /\ eventsCache' = [eventsCache EXCEPT ![lastEventId] = ids]
    /\ Received(ids)
    /\ UNCHANGED <<backendVars, byCount, fellBehind>>

(* The backend is out of reach: fetchApi returns what it stored for the    *)
(* same URL, which holds the same last_id.                                 *)
PollEventsFails ==
    /\ eventsCache[lastEventId] # NotCached
    /\ Received(eventsCache[lastEventId])
    /\ UNCHANGED <<backendVars, eventsCache, byCount, fellBehind>>

(* The packet rate replaces its former item. *)
PollStatus ==
    /\ feed' = Keep(<<<<"pps", 0>>>> \o SelectSeq(feed, LAMBDA item : item[1] # "pps"))
    /\ UNCHANGED <<backendVars, byCount, byEvent, fellBehind>>

(* The page is loaded again. *)
ReloadFeed ==
    /\ restarted' = FALSE /\ fellBehind' = FALSE
    /\ listAnswers' = {} /\ feedAlerts' = <<>> /\ prevAlertCount' = 0 /\ notified' = {}
    /\ feed' = <<>> /\ lastEventId' = 0 /\ eventsCache' = NoAnswers
    /\ firstEvent' = 0 /\ entered' = NeverEntered
    /\ UNCHANGED <<oldestRow, newestRow, published>>

(***************************************************************************)
(* The specification.                                                      *)
(***************************************************************************)
FeedNext ==
    \/ PublishAlert \/ PublishOther \/ ClearTable \/ RestartBackend
    \/ PollFeedAlerts \/ PollFeedAlertsFails
    \/ PollEvents \/ PollEventsFails \/ PollStatus \/ ReloadFeed

FeedSpec == FeedInit /\ [][FeedNext]_feedVars

(***************************************************************************)
(* Properties.                                                             *)
(***************************************************************************)
FeedTypeOK ==
    /\ published \in 0..MaxEventIds
    /\ restarted \in BOOLEAN /\ fellBehind \in BOOLEAN
    /\ lastEventId \in 0..MaxEventIds /\ firstEvent \in 0..MaxEventIds
    /\ eventsCache \in [0..MaxEventIds -> Seq(Nat)]
    /\ entered \in [EventIds -> Nat]

(* Over polls that succeed, fail and fall back on the cache, and while the *)
(* backend does not restart, an item enters the feed once at most, and     *)
(* only of an event from the first the page was given to the last id it    *)
(* knows; and of every such event that has an item it does enter, unless   *)
(* more events came between two answers than the ring or the feed holds.   *)
Owed(id) == id \notin Silent /\ firstEvent # 0 /\ firstEvent <= id /\ id <= lastEventId

FeedFollowsEvents ==
    ~restarted => \A id \in EventIds :
        /\ entered[id] <= (IF Owed(id) THEN 1 ELSE 0)
        /\ Owed(id) /\ ~fellBehind => entered[id] = 1

(* Why: an answer with events moves lastEventId past the one it was asked  *)
(* with, so the cache has only empty answers for the present one, and none *)
(* for those still to come; and while the page has not fallen behind, what *)
(* is to come next is still in the ring, and fits in the feed.             *)
CacheInv ==
    /\ eventsCache[lastEventId] \in {NotCached, <<>>}
    /\ \A id \in (lastEventId + 1)..MaxEventIds : eventsCache[id] = NotCached
FeedInv ==
    /\ CacheInv
    /\ firstEvent <= lastEventId /\ (firstEvent = 0 <=> lastEventId = 0)
    /\ ~restarted => lastEventId <= published
    /\ ~restarted /\ ~fellBehind /\ lastEventId # 0 =>
          published - lastEventId <= Least(RingLimit, FeedLimit)
    /\ FeedFollowsEvents

=============================================================================
