--------------------------- MODULE DashboardProofs ---------------------------
(***************************************************************************)
(* Proofs about what the dashboard shows as it happens, for any number of  *)
(* alerts, events and views, and any limits: the list and the threat level *)
(* (AppShell), the live feed (LiveFeed), the hook that listens to the      *)
(* stream (SseClient), and the polling that all views share (ApiPolling).  *)
(***************************************************************************)
EXTENDS AppShell, LiveFeed, SseClient, ApiPolling, FiniteSetTheorems, TLAPS

-----------------------------------------------------------------------------
(* What an answer of /api/alerts shows is the rows, oldest first; when all *)
(* fit and none was cleared, row i is in place i (useMockLiveData.ts:252). *)
LEMMA ShownInOrder ==
  ASSUME NEW f \in Nat \ {0}, NEW l \in 0..MaxRows, f <= l + 1,
         NEW before \in Seq(Rows)
  PROVE  /\ Displayed(ApiAlerts(f, l), before) \in Seq(Rows)
         /\ \/ Displayed(ApiAlerts(f, l), before) = before
            \/ f = 1 /\ l <= ListLimit =>
                 \A i \in 1..Len(Displayed(ApiAlerts(f, l), before)) :
                    Displayed(ApiAlerts(f, l), before)[i] = i
<1> DEFINE n == Least(l - f + 1, ListLimit)
           raw == ApiAlerts(f, l)
           rev == Reverse(raw)
<1>1. n \in Nat /\ n <= l - f + 1 /\ f \in Nat \ {0} /\ l \in Nat /\ l <= MaxRows
      /\ MaxRows \in Nat
  BY ListAssumption DEF Least
<1>2. raw = [i \in 1..n |-> l - i + 1]
  BY DEF ApiAlerts
<1> HIDE DEF n
<1>3. \A i \in 1..n : l - i + 1 \in Rows
  BY <1>1 DEF Rows
<1>4. raw \in Seq(Rows) /\ Len(raw) = n /\ \A i \in 1..n : raw[i] = l - i + 1
  BY <1>1, <1>2, <1>3
<1> HIDE DEF raw
<1>5. rev = [i \in 1..n |-> raw[(n - i) + 1]]
  BY <1>4 DEF Reverse
<1>6. \A i \in 1..n : (n - i) + 1 \in 1..n
  BY <1>1
<1>7. rev \in Seq(Rows) /\ Len(rev) = n /\ \A i \in 1..n : rev[i] = l - n + i
  <2>1. \A i \in 1..n : rev[i] = l - ((n - i) + 1) + 1 /\ rev[i] \in Rows
    BY <1>4, <1>5, <1>6, <1>3
  <2> QED
    BY <1>1, <1>5, <2>1
<1> HIDE DEF rev
<1>8. Displayed(raw, before) = before \/ Displayed(raw, before) = rev
  BY DEF Displayed, rev
<1>9. ASSUME f = 1, l <= ListLimit PROVE \A i \in 1..Len(rev) : rev[i] = i
  <2>1. n = l
    BY <1>1, <1>9, ListAssumption DEF n, Least
  <2> QED
    BY <1>1, <1>7, <2>1
<1>10. Displayed(raw, before) \in Seq(Rows)
  BY <1>7, <1>8
<1> QED
  BY <1>8, <1>9, <1>10 DEF raw

-----------------------------------------------------------------------------
(* The events that an answer of /api/events has are those from From(k) to  *)
(* the newest, a batch of them at most when none is known yet              *)
(* (api_server.rs:419-436).                                                *)
LEMMA AnswerIsInterval ==
  ASSUME FeedTypeOK, NEW k \in 0..MaxEventIds
  PROVE  /\ From(k) \in Nat \ {0}
         /\ From(k) <= published => k = 0 \/ k < From(k)
         /\ ApiEvents(k) \in Seq(EventIds)
         /\ \A id : id \in Range(ApiEvents(k)) <=> id \in From(k)..published
         /\ ApiEvents(k) = <<>> <=> published < From(k)
         /\ From(k) <= published => Len(ApiEvents(k)) = published - From(k) + 1
         /\ k = 0 /\ From(k) <= published => published - From(k) + 1 <= EventBatch
<1> DEFINE n == published
           a == From(k)
           ids == ApiEvents(k)
<1>1. /\ n \in Nat /\ n <= MaxEventIds /\ k \in Nat /\ MaxEventIds \in Nat
      /\ EventBatch \in Nat \ {0} /\ RingLimit \in Nat \ {0}
  BY FeedAssumption DEF FeedTypeOK
<1>2. /\ a \in Nat \ {0} /\ (k = 0 => n - a + 1 <= EventBatch)
      /\ k # 0 => k < a
  BY <1>1 DEF From, OldestKept, Greatest
<1>3. ids = [i \in 1..(n - a + 1) |-> IF k = 0 THEN n - i + 1 ELSE a + i - 1]
  BY DEF ApiEvents
<1> HIDE DEF n, a, ids
<1>4. \A i \in 1..(n - a + 1) : ids[i] \in a..n /\ ids[i] \in EventIds
  BY <1>1, <1>2, <1>3 DEF EventIds
<1>5. \A id \in a..n : \E i \in 1..(n - a + 1) : ids[i] = id
  <2> SUFFICES ASSUME NEW id \in a..n PROVE \E i \in 1..(n - a + 1) : ids[i] = id
    OBVIOUS
  <2>1. CASE k = 0
    <3>1. n - id + 1 \in 1..(n - a + 1) /\ n - (n - id + 1) + 1 = id
      BY <1>1, <1>2
    <3>2. ids[n - id + 1] = n - (n - id + 1) + 1
      BY <1>3, <2>1, <3>1
    <3> QED
      BY <3>1, <3>2
  <2>2. CASE k # 0
    <3>1. id - a + 1 \in 1..(n - a + 1) /\ a + (id - a + 1) - 1 = id
      BY <1>1, <1>2
    <3>2. ids[id - a + 1] = a + (id - a + 1) - 1
      BY <1>3, <2>2, <3>1
    <3> QED
      BY <3>1, <3>2
  <2> QED
    BY <2>1, <2>2
<1>6. DOMAIN ids = 1..(n - a + 1)
  BY <1>3
<1>7. \A id : id \in Range(ids) <=> id \in a..n
  BY <1>4, <1>5, <1>6 DEF Range
<1>8. /\ ids \in Seq(EventIds)
      /\ ids = <<>> <=> n < a
      /\ a <= n => Len(ids) = n - a + 1
  <2>1. CASE a <= n
    <3>1. n - a + 1 \in Nat \ {0}
      BY <1>1, <1>2, <2>1
    <3>2. ids = [i \in 1..(n - a + 1) |-> ids[i]]
      BY <1>3
    <3>3. ids \in Seq(EventIds)
      BY <1>4, <3>1, <3>2
    <3> QED
      BY <1>1, <1>2, <1>6, <2>1, <3>1, <3>3
  <2>2. CASE n < a
    <3>1. 1..(n - a + 1) = {}
      BY <1>1, <1>2, <2>2
    <3>2. ids = <<>>
      BY <1>3, <3>1
    <3> QED
      BY <1>1, <1>2, <2>2, <3>2
  <2> QED
    BY <1>1, <1>2, <2>1, <2>2
<1> QED
  BY <1>1, <1>2, <1>7, <1>8 DEF n, a, ids

-----------------------------------------------------------------------------
(* Only what was received and has an item enters the feed, and all of it   *)
(* when the answer is no longer than the feed (useMockLiveData.ts:286-318).*)
LEMMA EnteringBounds ==
  ASSUME NEW ids \in Seq(EventIds)
  PROVE  /\ Entering(ids) \subseteq Range(ids) \ Silent
         /\ Len(ids) <= FeedLimit => Entering(ids) = Range(ids) \ Silent
<1>1. /\ Len(ids) \in Nat /\ FeedLimit \in Nat
      /\ \A id : id \in Range(ids) <=> \E i \in 1..Len(ids) : ids[i] = id
  BY FeedAssumption DEF Range
<1>2. Entering(ids) \subseteq Range(ids) \ Silent
  BY <1>1 DEF Entering
<1>3. ASSUME Len(ids) <= FeedLimit, NEW i \in 1..Len(ids), ids[i] \notin Silent
      PROVE  ids[i] \in Entering(ids)
  <2> DEFINE before == {j \in 1..i : ids[j] \notin Silent}
  <2>1. IsFiniteSet(1..i) /\ Cardinality(1..i) = i
    BY FS_Interval
  <2>2. Cardinality(before) \in Nat /\ Cardinality(before) <= i
    <3>1. before \subseteq 1..i
      OBVIOUS
    <3> HIDE DEF before
    <3>2. IsFiniteSet(before) /\ Cardinality(before) <= Cardinality(1..i)
      BY <2>1, <3>1, FS_Subset
    <3>3. Cardinality(before) \in Nat
      BY <3>2, FS_CardinalityType
    <3> QED
      BY <2>1, <3>2, <3>3
  <2>3. Cardinality(before) <= FeedLimit
    <3> HIDE DEF before
    <3> QED
      BY <1>1, <1>3, <2>2
  <2> QED
    BY <1>3, <2>3 DEF Entering
<1> QED
  BY <1>1, <1>2, <1>3

(* What the feed makes of an answer with the events a..n                   *)
(* (useMockLiveData.ts).                                                   *)
LEMMA ReceivedInterval ==
  ASSUME FeedTypeOK, NEW a \in Nat \ {0}, NEW n \in 0..MaxEventIds, NEW ids \in Seq(EventIds),
         \A id : id \in Range(ids) <=> id \in a..n,
         ids = <<>> <=> n < a,
         Received(ids)
  PROVE  /\ lastEventId' = IF a <= n /\ lastEventId < n THEN n ELSE lastEventId
         /\ firstEvent' = IF firstEvent = 0 /\ a <= n THEN a ELSE firstEvent
         /\ entered' = [id \in EventIds |-> entered[id] + (IF id \in Entering(ids) THEN 1 ELSE 0)]
<1>1. Range(ids) = a..n
  OBVIOUS
<1>2. MaxEventIds \in Nat /\ n \in Nat /\ lastEventId \in Nat
  BY FeedAssumption DEF FeedTypeOK
<1>3. lastEventId' = IF a <= n /\ lastEventId < n THEN n ELSE lastEventId
  <2> DEFINE m == IF a <= n /\ lastEventId < n THEN n ELSE lastEventId
             S == {lastEventId} \cup a..n
  <2>1. lastEventId' = Max(S)
    BY <1>1 DEF Received
  <2>2. m \in S /\ S \subseteq Nat /\ \A y \in S : m >= y
    BY <1>2
  <2> HIDE DEF m, S
  <2>3. Max(S) = m
    <3>1. \A x \in S : (\A y \in S : x >= y) => x = m
      BY <2>2
    <3> QED
      BY <2>2, <3>1 DEF Max
  <2> QED
    BY <2>1, <2>3 DEF m
<1>4. firstEvent' = IF firstEvent = 0 /\ a <= n THEN a ELSE firstEvent
  <2>1. ids # <<>> <=> a <= n
    BY <1>2
  <2>2. ASSUME a <= n PROVE Min(a..n) = a
    <3>1. a \in a..n /\ \A y \in a..n : a <= y
      BY <1>2, <2>2
    <3>2. \A x \in a..n : (\A y \in a..n : x <= y) => x = a
      BY <1>2, <3>1
    <3> QED
      BY <3>1, <3>2 DEF Min
  <2> QED
    BY <1>1, <2>1, <2>2 DEF Received, ItemsAdded
<1> QED
  BY <1>1, <1>3, <1>4 DEF Received, ItemsAdded

(* With lastEventId there is only an empty answer to fall back on.         *)
LEMMA EmptyAnswerTaken ==
  ASSUME FeedTypeOK, CacheInv, PollEventsFails
  PROVE  UNCHANGED <<backendVars, byCount, byEvent, fellBehind>>
<1> DEFINE ids == <<>>
<1>1. Received(ids)
  BY DEF PollEventsFails, CacheInv
<1>2. /\ 0 \in 0..MaxEventIds /\ 1 \in Nat \ {0} /\ ids \in Seq(EventIds)
      /\ \A id : id \in Range(ids) <=> id \in 1..0
      /\ ids = <<>> <=> 0 < 1
  BY FeedAssumption DEF Range
<1>3. Entering(ids) = {}
  BY DEF Entering
<1> HIDE DEF ids
<1>4. lastEventId' = lastEventId
  <2>1. lastEventId' = IF 1 <= 0 /\ lastEventId < 0 THEN 0 ELSE lastEventId
    BY <1>1, <1>2, ReceivedInterval
  <2> QED
    BY <2>1
<1>5. firstEvent' = firstEvent
  <2>1. firstEvent' = IF firstEvent = 0 /\ 1 <= 0 THEN 1 ELSE firstEvent
    BY <1>1, <1>2, ReceivedInterval
  <2> QED
    BY <2>1
<1>6. entered' = entered
  <2>1. entered' = [id \in EventIds |-> entered[id] + (IF id \in Entering(ids) THEN 1 ELSE 0)]
    BY <1>1, <1>2, ReceivedInterval
  <2> QED
    BY <1>3, <2>1 DEF FeedTypeOK
<1> QED
  BY <1>4, <1>5, <1>6 DEF PollEventsFails, byEvent

(* A poll takes the events from From(lastEventId) on, and all of them      *)
(* enter the feed unless they are more than it holds.                      *)
LEMMA AnswerTaken ==
  ASSUME FeedTypeOK, PollEvents
  PROVE  LET k == lastEventId
             a == From(k)
             n == published IN
         /\ k' = IF a <= n /\ k < n THEN n ELSE k
         /\ firstEvent' = IF firstEvent = 0 /\ a <= n THEN a ELSE firstEvent
         /\ entered' = [id \in EventIds |->
                           entered[id] + (IF id \in Entering(ApiEvents(k)) THEN 1 ELSE 0)]
         /\ Entering(ApiEvents(k)) \subseteq (a..n) \ Silent
         /\ n - a + 1 <= FeedLimit => Entering(ApiEvents(k)) = (a..n) \ Silent
<1> DEFINE k == lastEventId
           a == From(k)
           n == published
           ids == ApiEvents(k)
<1>1. n \in 0..MaxEventIds /\ MaxEventIds \in Nat /\ k \in 0..MaxEventIds /\ FeedLimit \in Nat
  BY FeedAssumption DEF FeedTypeOK
<1>2. /\ a \in Nat \ {0} /\ ids \in Seq(EventIds)
      /\ \A id : id \in Range(ids) <=> id \in a..n
      /\ ids = <<>> <=> n < a
      /\ a <= n => Len(ids) = n - a + 1
  BY <1>1, AnswerIsInterval
<1>3. Received(ids)
  BY DEF PollEvents
<1> HIDE DEF a, n, ids
<1>4. /\ k' = IF a <= n /\ k < n THEN n ELSE k
      /\ firstEvent' = IF firstEvent = 0 /\ a <= n THEN a ELSE firstEvent
      /\ entered' = [id \in EventIds |-> entered[id] + (IF id \in Entering(ids) THEN 1 ELSE 0)]
  BY <1>1, <1>2, <1>3, ReceivedInterval
<1>5. Range(ids) = a..n
  BY <1>2
<1>6. Entering(ids) \subseteq (a..n) \ Silent
  BY <1>2, <1>5, EnteringBounds
<1>7. n - a + 1 <= FeedLimit => Entering(ids) = (a..n) \ Silent
  <2>1. CASE a <= n
    BY <1>2, <1>5, <2>1, EnteringBounds
  <2>2. CASE ~(a <= n)
    <3>1. a..n = {}
      BY <1>1, <1>2, <2>2
    <3> QED
      BY <1>6, <3>1
  <2> QED
    BY <2>1, <2>2
<1> QED
  BY <1>4, <1>6, <1>7 DEF a, n, ids

-----------------------------------------------------------------------------
(* Every step keeps the types (useMockLiveData.ts:245-340).                *)
LEMMA FeedStartTyped ==
  ASSUME lastEventId = 0, firstEvent = 0, eventsCache = NoAnswers, entered = NeverEntered,
         published \in 0..MaxEventIds, restarted = FALSE, fellBehind = FALSE
  PROVE  FeedTypeOK
<1>1. /\ MaxEventIds \in Nat /\ NoAnswers \in [0..MaxEventIds -> Seq(Nat)]
      /\ NeverEntered \in [EventIds -> Nat]
  BY FeedAssumption DEF NoAnswers, NotCached, NeverEntered
<1>2. restarted \in BOOLEAN /\ fellBehind \in BOOLEAN
  OBVIOUS
<1>3. lastEventId \in 0..MaxEventIds /\ firstEvent \in 0..MaxEventIds
  BY <1>1
<1> QED
  BY <1>1, <1>2, <1>3 DEF FeedTypeOK

LEMMA EventsTyped ==
  ASSUME FeedTypeOK, PollEvents
  PROVE  FeedTypeOK'
<1> DEFINE a == From(lastEventId)
           n == published
           ids == ApiEvents(lastEventId)
           E == Entering(ids)
<1>1. n \in 0..MaxEventIds /\ MaxEventIds \in Nat /\ lastEventId \in 0..MaxEventIds
      /\ firstEvent \in 0..MaxEventIds
  BY FeedAssumption DEF FeedTypeOK
<1>2. a \in Nat /\ ids \in Seq(Nat)
  BY <1>1, AnswerIsInterval DEF EventIds
<1>3. eventsCache' \in [0..MaxEventIds -> Seq(Nat)]
  <2> HIDE DEF ids
  <2>1. eventsCache' = [eventsCache EXCEPT ![lastEventId] = ids]
    BY DEF PollEvents, ids
  <2> QED
    BY <1>2, <2>1 DEF FeedTypeOK
<1>4. /\ lastEventId' = IF a <= n /\ lastEventId < n THEN n ELSE lastEventId
      /\ firstEvent' = IF firstEvent = 0 /\ a <= n THEN a ELSE firstEvent
      /\ entered' = [id \in EventIds |-> entered[id] + (IF id \in E THEN 1 ELSE 0)]
  BY AnswerTaken
<1> HIDE DEF a, n, E
<1>5. entered' \in [EventIds -> Nat]
  BY <1>4 DEF FeedTypeOK
<1>6. lastEventId' \in 0..MaxEventIds /\ firstEvent' \in 0..MaxEventIds
  BY <1>1, <1>2, <1>4
<1> QED
  BY <1>3, <1>5, <1>6 DEF PollEvents, FeedTypeOK, backendVars

LEMMA FeedStepTyped ==
  ASSUME FeedTypeOK, CacheInv, [FeedNext]_feedVars
  PROVE  FeedTypeOK'
<1>1. CASE PublishAlert \/ PublishOther
  <2>1. /\ published' = published + 1 /\ published < MaxEventIds
        /\ fellBehind' = (fellBehind \/ FallsBehind(published'))
        /\ UNCHANGED <<restarted, byEvent>>
    BY <1>1 DEF PublishAlert, PublishOther, Publish
  <2>2. published' \in 0..MaxEventIds
    BY <2>1, FeedAssumption DEF FeedTypeOK
  <2>3. FallsBehind(published') \in BOOLEAN /\ fellBehind' \in BOOLEAN
    BY <2>1 DEF FallsBehind
  <2> QED
    BY <2>1, <2>2, <2>3 DEF FeedTypeOK, byEvent
<1>2. CASE RestartBackend
  <2>1. published' = 0 /\ restarted' = TRUE /\ UNCHANGED <<byEvent, fellBehind>>
    BY <1>2 DEF RestartBackend
  <2> QED
    BY <2>1, FeedAssumption DEF FeedTypeOK, byEvent
<1>3. CASE ReloadFeed
  <2>1. /\ lastEventId' = 0 /\ firstEvent' = 0 /\ eventsCache' = NoAnswers
        /\ entered' = NeverEntered /\ published' = published
        /\ restarted' = FALSE /\ fellBehind' = FALSE
    BY <1>3 DEF ReloadFeed
  <2>2. /\ MaxEventIds \in Nat /\ NoAnswers \in [0..MaxEventIds -> Seq(Nat)]
        /\ NeverEntered \in [EventIds -> Nat]
    BY FeedAssumption DEF NoAnswers, NotCached, NeverEntered
  <2>3. restarted' \in BOOLEAN /\ fellBehind' \in BOOLEAN
    BY <2>1
  <2>4. lastEventId' \in 0..MaxEventIds /\ firstEvent' \in 0..MaxEventIds
    BY <2>1, <2>2
  <2>5. published' \in 0..MaxEventIds
    BY <2>1 DEF FeedTypeOK
  <2> QED
    BY <2>1, <2>2, <2>3, <2>4, <2>5 DEF FeedTypeOK
<1>4. CASE ClearTable \/ PollFeedAlerts \/ PollFeedAlertsFails \/ PollEventsFails
           \/ PollStatus \/ UNCHANGED feedVars
  <2>1. UNCHANGED <<published, restarted, byEvent, fellBehind>>
    BY <1>4, EmptyAnswerTaken DEF ClearTable, PollFeedAlerts, PollFeedAlertsFails,
       ListChanges, PollStatus, feedVars, backendVars
  <2> QED
    BY <2>1 DEF FeedTypeOK, byEvent
<1> QED
  BY <1>1, <1>2, <1>3, <1>4, EventsTyped DEF FeedNext

-----------------------------------------------------------------------------
(* While the page has not fallen behind, an answer to a request that named *)
(* lastEventId begins right after it and fits in the feed.                 *)
LEMMA NothingMissed ==
  ASSUME FeedTypeOK, FeedInv, ~restarted, ~fellBehind
  PROVE  /\ lastEventId # 0 => From(lastEventId) = lastEventId + 1
         /\ From(lastEventId) <= published => published - From(lastEventId) + 1 <= FeedLimit
<1>1. /\ published \in Nat /\ lastEventId \in Nat /\ lastEventId \in 0..MaxEventIds
      /\ RingLimit \in Nat \ {0} /\ FeedLimit \in Nat /\ EventBatch \in Nat \ {0}
      /\ EventBatch <= FeedLimit
  BY FeedAssumption DEF FeedTypeOK
<1>2. CASE lastEventId = 0
  BY <1>1, <1>2, AnswerIsInterval
<1>3. CASE lastEventId # 0
  <2>1. /\ published - lastEventId <= RingLimit
        /\ published - lastEventId <= FeedLimit
    BY <1>1, <1>3 DEF FeedInv, Least
  <2>2. From(lastEventId) = lastEventId + 1
    BY <1>1, <1>3, <2>1 DEF From, OldestKept, Greatest
  <2> QED
    BY <1>1, <1>3, <2>1, <2>2
<1> QED
  BY <1>2, <1>3

(* An answer to a request that named lastEventId moves it past all it had, *)
(* and the feed grows by events from there on only.                        *)
LEMMA AnswerFollows ==
  ASSUME FeedTypeOK, FeedInv, PollEvents
  PROVE  FeedInv'
<1> DEFINE k == lastEventId
           n == published
           a == From(k)
           ids == ApiEvents(k)
           E == Entering(ids)
<1>1. /\ n \in 0..MaxEventIds /\ MaxEventIds \in Nat /\ k \in 0..MaxEventIds
      /\ firstEvent \in 0..MaxEventIds
  BY FeedAssumption DEF FeedTypeOK
<1>2. /\ a \in Nat \ {0} /\ (a <= n => k < n) /\ (a <= n => k = 0 \/ k < a)
      /\ ids = <<>> <=> n < a
  BY <1>1, AnswerIsInterval
<1>3. /\ k' = IF a <= n /\ k < n THEN n ELSE k
      /\ firstEvent' = IF firstEvent = 0 /\ a <= n THEN a ELSE firstEvent
      /\ entered' = [id \in EventIds |-> entered[id] + (IF id \in E THEN 1 ELSE 0)]
      /\ E \subseteq (a..n) \ Silent
      /\ n - a + 1 <= FeedLimit => E = (a..n) \ Silent
  BY AnswerTaken
<1>4. /\ eventsCache' = [eventsCache EXCEPT ![k] = ids]
      /\ UNCHANGED <<published, restarted, fellBehind>>
  BY DEF PollEvents, backendVars
<1>5. /\ firstEvent <= k /\ (firstEvent = 0 <=> k = 0)
      /\ ~restarted => k <= n
      /\ eventsCache \in [0..MaxEventIds -> Seq(Nat)]
      /\ \A id \in (k + 1)..MaxEventIds : eventsCache[id] = NotCached
  BY DEF FeedInv, CacheInv, FeedTypeOK
<1>6. ~restarted /\ ~fellBehind => /\ k # 0 => a = k + 1
                                   /\ a <= n => n - a + 1 <= FeedLimit
  BY NothingMissed
<1>7. ASSUME NEW id \in EventIds
      PROVE  entered'[id] = entered[id] + (IF id \in E THEN 1 ELSE 0) /\ id \in Nat \ {0}
             /\ entered[id] \in Nat
  BY <1>3 DEF FeedTypeOK, EventIds
<1> HIDE DEF a, n, ids, E
<1>8. CASE a <= n
  <2>1. k' = n /\ k < n /\ n \in Nat \ {0}
    BY <1>1, <1>2, <1>3, <1>8
  <2>2. CacheInv'
    <3>1. \A id \in (k + 1)..MaxEventIds : eventsCache'[id] = NotCached
      BY <1>1, <1>4, <1>5
    <3>2. \A id \in n..MaxEventIds : id \in (k + 1)..MaxEventIds
      BY <1>1, <2>1
    <3>3. n \in n..MaxEventIds /\ \A id \in (n + 1)..MaxEventIds : id \in n..MaxEventIds
      BY <1>1
    <3> QED
      BY <2>1, <3>1, <3>2, <3>3 DEF CacheInv, NotCached
  <2>3. firstEvent' \in Nat \ {0} /\ firstEvent' <= n /\ k' # 0
    BY <1>1, <1>2, <1>3, <1>5, <1>8, <2>1
  <2>4. ASSUME ~restarted, NEW id \in EventIds
        PROVE  /\ entered'[id] <= (IF Owed(id)' THEN 1 ELSE 0)
               /\ Owed(id)' /\ ~fellBehind => entered'[id] = 1
    <3>1. /\ entered[id] <= (IF Owed(id) THEN 1 ELSE 0)
          /\ Owed(id) /\ ~fellBehind => entered[id] = 1
      BY <2>4 DEF FeedInv, FeedFollowsEvents
    <3>2. Owed(id)' <=> id \notin Silent /\ firstEvent' <= id /\ id <= n
      BY <2>1, <2>3 DEF Owed
    <3>3. Owed(id) <=> id \notin Silent /\ firstEvent # 0 /\ firstEvent <= id /\ id <= k
      BY DEF Owed
    <3>4. id \in E => id \notin Silent /\ a <= id /\ id <= n
      BY <1>1, <1>2, <1>3, <1>7
    <3>5. ~fellBehind => (id \in E <=> id \notin Silent /\ a <= id /\ id <= n)
      BY <1>1, <1>2, <1>3, <1>6, <1>7, <1>8, <2>4
    <3>6. /\ k = 0 => firstEvent' = a /\ ~Owed(id)
          /\ k # 0 => firstEvent' = firstEvent /\ firstEvent # 0 /\ k < a
                      /\ (~fellBehind => a = k + 1)
      BY <1>2, <1>3, <1>5, <1>6, <1>8, <2>4, <3>3
    <3>7. entered'[id] <= (IF Owed(id)' THEN 1 ELSE 0)
      BY <1>1, <1>2, <1>5, <1>7, <2>1, <2>3, <3>1, <3>2, <3>3, <3>4, <3>6
    <3>8. ASSUME Owed(id)', ~fellBehind PROVE entered'[id] = 1
      <4>1. CASE k = 0
        BY <1>7, <3>1, <3>2, <3>5, <3>6, <3>8, <4>1
      <4>2. CASE k # 0
        BY <1>1, <1>2, <1>7, <3>1, <3>2, <3>3, <3>5, <3>6, <3>8, <4>2
      <4> QED
        BY <4>1, <4>2
    <3> QED
      BY <3>7, <3>8
  <2>5. FeedFollowsEvents'
    BY <1>4, <2>4 DEF FeedFollowsEvents
  <2>6. n - n <= Least(RingLimit, FeedLimit)
    BY <1>1, FeedAssumption DEF Least
  <2> QED
    BY <1>1, <1>4, <2>1, <2>2, <2>3, <2>5, <2>6 DEF FeedInv, n
<1>9. CASE ~(a <= n)
  <2>1. k' = k /\ firstEvent' = firstEvent /\ ids = <<>> /\ a..n = {}
    BY <1>1, <1>2, <1>3, <1>9
  <2>2. entered' = entered
    <3>1. E = {}
      BY <1>3, <2>1
    <3> QED
      BY <1>3, <3>1 DEF FeedTypeOK
  <2>3. CacheInv'
    BY <1>1, <1>4, <1>5, <2>1 DEF CacheInv
  <2> QED
    BY <1>4, <2>1, <2>2, <2>3 DEF FeedInv, FeedFollowsEvents, Owed
<1> QED
  BY <1>8, <1>9

(* With no answer yet, nothing is owed.                                    *)
LEMMA FeedStart ==
  ASSUME lastEventId = 0, firstEvent = 0, eventsCache = NoAnswers, entered = NeverEntered,
         published \in 0..MaxEventIds
  PROVE  FeedInv
<1>1. 0 \in 0..MaxEventIds /\ published \in Nat
  BY FeedAssumption
<1>2. CacheInv
  BY <1>1, FeedAssumption DEF CacheInv, NoAnswers
<1>3. FeedFollowsEvents
  BY DEF FeedFollowsEvents, NeverEntered, Owed
<1> QED
  BY <1>1, <1>2, <1>3 DEF FeedInv

(* What the backend publishes is within reach, or the page falls behind.   *)
LEMMA PublishKeeps ==
  ASSUME FeedTypeOK, FeedInv, PublishAlert \/ PublishOther
  PROVE  FeedInv'
<1>1. /\ published' = published + 1
      /\ fellBehind' = (fellBehind \/ FallsBehind(published'))
      /\ UNCHANGED <<restarted, lastEventId, eventsCache, firstEvent, entered>>
  BY DEF PublishAlert, PublishOther, Publish, byEvent
<1>2. /\ published \in Nat /\ lastEventId \in Nat
      /\ RingLimit \in Nat /\ FeedLimit \in Nat /\ Least(RingLimit, FeedLimit) \in Nat
  BY FeedAssumption DEF FeedTypeOK, Least
<1>3. CacheInv' /\ FeedFollowsEvents'
  BY <1>1 DEF FeedInv, CacheInv, FeedFollowsEvents, Owed
<1>4. ~restarted => lastEventId <= published + 1
  BY <1>2 DEF FeedInv
<1>5. ASSUME ~fellBehind', lastEventId # 0
      PROVE  (published + 1) - lastEventId <= Least(RingLimit, FeedLimit)
  <2>1. ~FallsBehind(published + 1)
    BY <1>1, <1>5
  <2>2. ~((published + 1) - lastEventId > Least(RingLimit, FeedLimit))
    BY <1>5, <2>1 DEF FallsBehind
  <2> QED
    BY <1>2, <2>2
<1>6. firstEvent <= lastEventId /\ (firstEvent = 0 <=> lastEventId = 0)
  BY DEF FeedInv
<1> QED
  BY <1>1, <1>3, <1>4, <1>5, <1>6 DEF FeedInv

LEMMA FeedStep ==
  ASSUME FeedTypeOK, FeedInv, [FeedNext]_feedVars
  PROVE  FeedInv'
<1>1. CASE RestartBackend
  <2>1. restarted' = TRUE /\ UNCHANGED <<lastEventId, eventsCache, firstEvent, entered>>
    BY <1>1 DEF RestartBackend, byEvent
  <2>2. CacheInv' /\ firstEvent <= lastEventId /\ (firstEvent = 0 <=> lastEventId = 0)
    BY <2>1 DEF FeedInv, CacheInv
  <2> QED
    BY <2>1, <2>2 DEF FeedInv, FeedFollowsEvents
<1>2. CASE ReloadFeed
  <2>1. /\ lastEventId' = 0 /\ firstEvent' = 0 /\ eventsCache' = NoAnswers
        /\ entered' = NeverEntered /\ published' = published
    BY <1>2 DEF ReloadFeed
  <2>2. 0 \in 0..MaxEventIds /\ published' \in Nat
    BY <2>1, FeedAssumption DEF FeedTypeOK
  <2>3. CacheInv'
    BY <2>1, <2>2, FeedAssumption DEF CacheInv, NoAnswers
  <2>4. FeedFollowsEvents'
    BY <2>1 DEF FeedFollowsEvents, NeverEntered, Owed
  <2> QED
    BY <2>1, <2>2, <2>3, <2>4 DEF FeedInv
<1>3. CASE ClearTable \/ PollFeedAlerts \/ PollFeedAlertsFails \/ PollEventsFails
           \/ PollStatus \/ UNCHANGED feedVars
  <2>1. UNCHANGED <<published, restarted, byEvent, fellBehind>>
    BY <1>3, EmptyAnswerTaken DEF FeedInv, ClearTable, PollFeedAlerts, PollFeedAlertsFails,
       ListChanges, PollStatus, feedVars, backendVars
  <2>2. UNCHANGED <<published, restarted, fellBehind, lastEventId, eventsCache, firstEvent, entered>>
    BY <2>1 DEF byEvent
  <2> QED
    BY <2>2 DEF FeedInv, CacheInv, FeedFollowsEvents, Owed
<1> QED
  BY <1>1, <1>2, <1>3, PublishKeeps, AnswerFollows DEF FeedNext

(***************************************************************************)
(* An item of an event enters the live feed once at most, of every event   *)
(* that has one between the first the page was given and the last id it    *)
(* knows, over polls that succeed, fail and fall back on the cache, for    *)
(* any ring, batch and feed and any number of events; none is missed while *)
(* the backend does not restart and no more events come between two        *)
(* answers than the ring and the feed hold (useMockLiveData.ts:270-320).   *)
(***************************************************************************)
THEOREM FeedComplete == FeedSpec => [](FeedTypeOK /\ FeedFollowsEvents)
<1>1. FeedInit => FeedTypeOK /\ FeedInv
  <2> SUFFICES ASSUME FeedInit PROVE FeedTypeOK /\ FeedInv
    OBVIOUS
  <2>1. /\ lastEventId = 0 /\ firstEvent = 0 /\ eventsCache = NoAnswers
        /\ entered = NeverEntered /\ published = 0
        /\ restarted = FALSE /\ fellBehind = FALSE
    BY DEF FeedInit
  <2>2. published \in 0..MaxEventIds
    BY <2>1, FeedAssumption
  <2> QED
    BY <2>1, <2>2, FeedStartTyped, FeedStart
<1>2. FeedTypeOK /\ FeedInv /\ [FeedNext]_feedVars => (FeedTypeOK /\ FeedInv)'
  BY FeedStepTyped, FeedStep DEF FeedInv
<1>3. FeedInv => FeedFollowsEvents
  BY DEF FeedInv
<1> QED
  BY <1>1, <1>2, <1>3, PTL DEF FeedSpec

-----------------------------------------------------------------------------
(* Every step of the shell keeps the types, and while all alerts fit, so   *)
(* did every answer that fetchApi may have stored (App.tsx).               *)
LEMMA ListTaken ==
  ASSUME TypeOK, PollAlerts \/ PollAlertsFails
  PROVE  /\ liveAlerts' \in Seq(Rows)
         /\ \/ liveAlerts' = liveAlerts
            \/ AllFit => \A i \in 1..Len(liveAlerts') : liveAlerts'[i] = i
<1>1. /\ first \in Nat \ {0} /\ last \in 0..MaxRows /\ first <= last + 1
      /\ last \in Nat /\ ListLimit \in Nat /\ liveAlerts \in Seq(Rows)
  BY ListAssumption DEF TypeOK
<1>2. CASE PollAlerts
  BY <1>1, <1>2, ShownInOrder DEF PollAlerts, AllFit
<1>3. CASE PollAlertsFails
  <2>1. PICK a \in answers : liveAlerts' = Displayed(ApiAlerts(a[1], a[2]), liveAlerts)
    BY <1>3 DEF PollAlertsFails
  <2> DEFINE f == a[1]
             l == a[2]
  <2>2. f \in 1..first /\ l \in 0..last /\ f <= l + 1
    BY DEF TypeOK
  <2>3. liveAlerts' = Displayed(ApiAlerts(f, l), liveAlerts)
    BY <2>1
  <2> HIDE DEF f, l
  <2>4. f \in Nat \ {0} /\ l \in 0..MaxRows /\ (AllFit => f = 1 /\ l <= ListLimit)
    BY <1>1, <2>2, ListAssumption DEF AllFit
  <2> QED
    BY <1>1, <2>2, <2>3, <2>4, ShownInOrder
<1> QED
  BY <1>2, <1>3

LEMMA ShellTyped ==
  ASSUME TypeOK, [Next]_vars
  PROVE  TypeOK'
<1>1. /\ MaxRows \in Nat /\ first \in Nat /\ last \in Nat
      /\ first \in 1..(last + 1) /\ last \in 0..MaxRows /\ liveAlerts \in Seq(Rows)
  BY ListAssumption DEF TypeOK
<1>2. CASE RaiseAlert
  <2>1. last' = last + 1 /\ last < MaxRows /\ UNCHANGED <<first, answers, liveAlerts>>
    BY <1>2 DEF RaiseAlert
  <2>2. last' \in 0..MaxRows /\ first' \in 1..(last' + 1)
    BY <1>1, <2>1
  <2>3. \A a \in answers' : a[1] \in 1..first' /\ a[2] \in 0..last' /\ a[1] <= a[2] + 1
    BY <1>1, <2>1 DEF TypeOK
  <2> QED
    BY <1>1, <2>1, <2>2, <2>3 DEF TypeOK
<1>3. CASE ClearAlerts
  <2>1. first' = last + 1 /\ first <= last /\ UNCHANGED <<last, answers, liveAlerts>>
    BY <1>3 DEF ClearAlerts
  <2>2. last' \in 0..MaxRows /\ first' \in 1..(last' + 1)
    BY <1>1, <2>1
  <2>3. \A a \in answers' : a[1] \in 1..first' /\ a[2] \in 0..last' /\ a[1] <= a[2] + 1
    BY <1>1, <2>1 DEF TypeOK
  <2> QED
    BY <1>1, <2>1, <2>2, <2>3 DEF TypeOK
<1>4. CASE PollAlerts
  <2>1. /\ answers' = answers \cup {<<first, last>>} /\ UNCHANGED <<first, last>>
        /\ liveAlerts' \in Seq(Rows)
    BY <1>4, ListTaken DEF PollAlerts
  <2>2. \A a \in answers' : a[1] \in 1..first' /\ a[2] \in 0..last' /\ a[1] <= a[2] + 1
    BY <1>1, <2>1 DEF TypeOK
  <2> QED
    BY <1>1, <2>1, <2>2 DEF TypeOK
<1>5. CASE PollAlertsFails
  <2>1. UNCHANGED <<first, last, answers>> /\ liveAlerts' \in Seq(Rows)
    BY <1>5, ListTaken DEF PollAlertsFails
  <2> QED
    BY <2>1 DEF TypeOK
<1>6. CASE Reload
  BY <1>6 DEF Reload, TypeOK
<1>7. CASE OpenAlerts \/ CloseAlerts \/ markAllRead
           \/ (\E i \in 1..Len(liveAlerts) : markRead(i)) \/ UNCHANGED vars
  <2>1. UNCHANGED <<first, last, answers, liveAlerts>>
    BY <1>7 DEF OpenAlerts, CloseAlerts, markAllRead, markRead, vars
  <2> QED
    BY <2>1 DEF TypeOK
<1> QED
  BY <1>2, <1>3, <1>4, <1>5, <1>6, <1>7 DEF Next

(* While all alerts fit and none was cleared, the list stays in place, and *)
(* a mark is the user's.                                                   *)
LEMMA MarksStep ==
  ASSUME TypeOK, ListInv, MarksInv, [Next]_vars
  PROVE  (ListInv /\ MarksInv)'
<1>1. AllFit' => AllFit
  <2>1. MaxRows \in Nat /\ ListLimit \in Nat /\ first \in Nat /\ last \in Nat
    BY ListAssumption DEF TypeOK
  <2>2. CASE RaiseAlert
    BY <2>1, <2>2 DEF RaiseAlert, AllFit
  <2>3. CASE ClearAlerts
    BY <2>1, <2>3, ListAssumption DEF ClearAlerts, AllFit, TypeOK
  <2>4. CASE ~RaiseAlert /\ ~ClearAlerts
    BY <2>4 DEF Next, PollAlerts, PollAlertsFails, OpenAlerts, CloseAlerts, markAllRead,
       Reload, markRead, vars, AllFit
  <2> QED
    BY <2>2, <2>3, <2>4
<1>2. ASSUME UNCHANGED <<liveAlerts, readIds, userRead>>
      PROVE  (ListInv /\ MarksInv)'
  BY <1>1, <1>2 DEF ListInv, MarksInv
<1>3. CASE PollAlerts \/ PollAlertsFails
  <2>1. UNCHANGED <<first, last, readIds, userRead>>
    BY <1>3 DEF PollAlerts, PollAlertsFails
  <2> QED
    BY <1>3, <2>1, ListTaken DEF ListInv, MarksInv, AllFit
<1>4. ASSUME NEW i \in 1..Len(liveAlerts), markRead(i)
      PROVE  (ListInv /\ MarksInv)'
  <2>1. /\ readIds' = readIds \cup {IdOf(liveAlerts, i)}
        /\ userRead' = userRead \cup {liveAlerts[i]}
        /\ UNCHANGED <<first, last, liveAlerts>>
    BY <1>4 DEF markRead
  <2>2. (AllFit => liveAlerts[i] = i) /\ liveAlerts[i] \in Rows
    BY DEF ListInv, TypeOK
  <2> QED
    BY <2>1, <2>2 DEF ListInv, MarksInv, AllFit, IdOf
<1>5. CASE markAllRead
  <2>1. /\ readIds' = {IdOf(liveAlerts, i) : i \in 1..Len(liveAlerts)}
        /\ userRead' = userRead \cup Range(liveAlerts)
        /\ UNCHANGED <<first, last, liveAlerts>>
    BY <1>5 DEF markAllRead
  <2>2. AllFit => \A i \in 1..Len(liveAlerts) :
                    liveAlerts[i] = i /\ i \in Range(liveAlerts) /\ i \in Rows
    BY DEF ListInv, Range, TypeOK
  <2> QED
    BY <2>1, <2>2 DEF ListInv, MarksInv, AllFit, IdOf
<1>6. CASE Reload
  <2>1. liveAlerts' = <<>> /\ UNCHANGED <<first, last, readIds, userRead>>
    BY <1>6 DEF Reload
  <2> QED
    BY <2>1 DEF ListInv, MarksInv, AllFit
<1>7. CASE RaiseAlert \/ ClearAlerts \/ OpenAlerts \/ CloseAlerts \/ UNCHANGED vars
  BY <1>2, <1>7 DEF RaiseAlert, ClearAlerts, OpenAlerts, CloseAlerts, vars
<1> QED
  BY <1>3, <1>4, <1>5, <1>6, <1>7 DEF Next

(* What the user did not mark is not marked, and raises the level.         *)
LEMMA MarksRaiseLevel ==
  ASSUME TypeOK, ListInv, MarksInv
  PROVE  CriticalRaisesLevel
<1> SUFFICES ASSUME AllFit, NEW i \in 1..Len(liveAlerts),
                    liveAlerts[i] \in CriticalRows \ userRead
             PROVE  threatLevel = "CRITICAL"
  BY DEF CriticalRaisesLevel, AllFit
<1>1. liveAlerts[i] = i /\ i \in Rows /\ Rows \subseteq Nat
  <2>1. liveAlerts[i] = i /\ liveAlerts[i] \in Rows
    BY DEF ListInv, TypeOK
  <2> QED
    BY <2>1, ListAssumption DEF Rows
<1>2. IdOf(liveAlerts, i) \notin readIds
  <2> SUFFICES ASSUME IdOf(liveAlerts, i) \in readIds PROVE FALSE
    OBVIOUS
  <2>1. PICK r \in Rows \cap userRead : IdOf(liveAlerts, i) = <<TimeOf[r], r - 1>>
    BY DEF MarksInv
  <2>2. i - 1 = r - 1
    BY <2>1 DEF IdOf
  <2>3. r \in Int
    BY <1>1
  <2> QED
    BY <1>1, <2>2, <2>3
<1> QED
  BY <1>2 DEF threatLevel, hasCriticalUnread, Unread

(***************************************************************************)
(* The top bar says CRITICAL while a Critical alert is shown that the user *)
(* never marked, for any alerts, times and limits, as long as no alert was *)
(* cleared and they all fit in one answer: neither new alerts nor a reload *)
(* lend it the mark of another (App.tsx).                                  *)
(***************************************************************************)
THEOREM CriticalShown == Spec => [](TypeOK /\ CriticalRaisesLevel)
<1>1. Init => TypeOK /\ ListInv /\ MarksInv
  <2> SUFFICES ASSUME Init PROVE TypeOK /\ ListInv /\ MarksInv
    OBVIOUS
  <2>1. MaxRows \in Nat /\ liveAlerts \in Seq(Rows) /\ Len(liveAlerts) = 0
    BY ListAssumption DEF Init
  <2> QED
    BY <2>1 DEF Init, TypeOK, ListInv, MarksInv
<1>2. TypeOK /\ ListInv /\ MarksInv /\ [Next]_vars => (TypeOK /\ ListInv /\ MarksInv)'
  BY ShellTyped, MarksStep
<1>3. TypeOK /\ ListInv /\ MarksInv => CriticalRaisesLevel
  BY MarksRaiseLevel
<1> QED
  BY <1>1, <1>2, <1>3, PTL DEF Spec

-----------------------------------------------------------------------------
(***************************************************************************)
(* The hook that listens to the stream, for any number of connections and  *)
(* events and any ring.                                                    *)
(*                                                                         *)
(* OneListener counts; what is inductive is a token that is handed on      *)
(* (OneToken): the hook's only connection, or the timer of the one that    *)
(* failed.  It also has to say that there is no token before the hook is   *)
(* mounted and that an unmounted hook is not mounted again.                *)
(***************************************************************************)
HookTyped ==
    /\ es \in [Conns -> {"none", "resolving", "connecting", "open"}]
    /\ timers \subseteq Conns
    /\ reconnects \in Nat

Idle(t) == \A c \in Conns : c # t => es[c] = "none"
IsConnection(t) == es[t] # "none" /\ timers = {} /\ (Live(t) => eventSourceRef = t)
IsTimer(t) == es[t] = "none" /\ timers = {t}

OneToken == mountedRef /\ reconnects = 0 =>
    \E t \in Conns : Idle(t) /\ (IsConnection(t) \/ IsTimer(t))

Unborn == ~mountedRef /\ ~gone =>
    timers = {} /\ \A c \in Conns : es[c] = "none"

BornOnce == gone => ~mountedRef

ListenInv == HookTyped /\ OneToken /\ Unborn /\ BornOnce

-----------------------------------------------------------------------------
(* One token is one thing under way (useSSE.ts:52-56).                     *)
LEMMA TokenCounts == ListenInv => OneListener
<1> SUFFICES ASSUME ListenInv, mountedRef, reconnects = 0
             PROVE  /\ Cardinality(Conns \ Free) + Cardinality(timers) = 1
                    /\ \A c \in Conns : Live(c) => eventSourceRef = c
  BY DEF OneListener
<1>1. PICK t \in Conns : Idle(t) /\ (IsConnection(t) \/ IsTimer(t))
  BY DEF ListenInv, OneToken
<1>2. Cardinality({}) = 0 /\ Cardinality({t}) = 1
  BY FS_EmptySet, FS_Singleton
<1>3. CASE IsConnection(t)
  <2>1. Conns \ Free = {t} /\ timers = {}
    BY <1>1, <1>3 DEF Free, Idle, IsConnection
  <2>2. \A c \in Conns : Live(c) => eventSourceRef = c
    BY <1>1, <1>3 DEF Idle, IsConnection, Live
  <2> QED
    BY <1>2, <2>1, <2>2
<1>4. CASE IsTimer(t)
  <2>1. Conns \ Free = {} /\ timers = {t}
    BY <1>1, <1>4 DEF Free, Idle, IsTimer
  <2>2. \A c \in Conns : ~Live(c)
    BY <1>1, <1>4 DEF Idle, IsTimer, Live
  <2> QED
    BY <1>2, <2>1, <2>2
<1> QED
  BY <1>1, <1>3, <1>4

(* connect() of a hook with nothing under way but the timer that calls it  *)
(* makes the only connection (useSSE.ts:58-72).                            *)
LEMMA ConnectMakesToken ==
  ASSUME HookTyped, connect, \A c \in Conns : es[c] = "none", timers' = {}
  PROVE  \E t \in Conns : (Idle(t) /\ IsConnection(t))'
<1>1. PICK t \in Conns :
        es' = [d \in Conns |-> IF d = t THEN "resolving"
                               ELSE IF d = eventSourceRef THEN "none" ELSE es[d]]
  BY DEF connect, Free
<1>2. es'[t] = "resolving" /\ \A c \in Conns : c # t => es'[c] = "none"
  BY <1>1
<1> QED
  BY <1>2 DEF Idle, IsConnection, Live

(* connect() keeps the types, whatever becomes of the timers.              *)
LEMMA ConnectTyped ==
  ASSUME HookTyped, connect, timers' \subseteq timers, reconnects' \in Nat
  PROVE  HookTyped'
<1>1. PICK t \in Conns :
        es' = [d \in Conns |-> IF d = t THEN "resolving"
                               ELSE IF d = eventSourceRef THEN "none" ELSE es[d]]
  BY DEF connect, Free
<1> QED
  BY <1>1 DEF HookTyped

-----------------------------------------------------------------------------
(* Mounting starts the one connection.                                     *)
LEMMA MountStep == ASSUME ListenInv, MountHook PROVE ListenInv'
<1>1. /\ connect /\ ~mountedRef /\ ~gone /\ mountedRef' = TRUE
      /\ UNCHANGED <<gone, reconnects, timers>>
  BY DEF MountHook
<1>2. timers = {} /\ \A c \in Conns : es[c] = "none"
  BY <1>1 DEF ListenInv, Unborn
<1>3. HookTyped'
  BY <1>1, ConnectTyped DEF ListenInv, HookTyped
<1>4. OneToken'
  BY <1>1, <1>2, ConnectMakesToken DEF ListenInv, OneToken
<1> QED
  BY <1>1, <1>3, <1>4 DEF ListenInv, Unborn, BornOnce

(* After the clean-up nothing is claimed.                                  *)
LEMMA UnmountStep == ASSUME ListenInv, UnmountHook PROVE ListenInv'
<1>1. /\ mountedRef' = FALSE /\ gone' = TRUE /\ reconnects' = reconnects
      /\ es' = [c \in Conns |-> IF c = eventSourceRef THEN "none" ELSE es[c]]
      /\ timers' \subseteq timers
  BY DEF UnmountHook
<1>2. HookTyped'
  BY <1>1 DEF ListenInv, HookTyped
<1> QED
  BY <1>1, <1>2 DEF ListenInv, OneToken, Unborn, BornOnce

(* Nor once reconnect() was called.                                        *)
LEMMA ReconnectStep == ASSUME ListenInv, reconnect PROVE ListenInv'
<1>1. /\ connect /\ mountedRef /\ reconnects' = reconnects + 1
      /\ timers' \subseteq timers /\ UNCHANGED <<mountedRef, gone>>
  BY DEF reconnect
<1>2. reconnects' \in Nat /\ reconnects' # 0
  BY <1>1 DEF ListenInv, HookTyped
<1>3. HookTyped'
  BY <1>1, <1>2, ConnectTyped DEF ListenInv
<1> QED
  BY <1>1, <1>2, <1>3 DEF ListenInv, OneToken, Unborn, BornOnce

(* The timer hands the token to the connection it makes.                   *)
LEMMA TimerStep == ASSUME ListenInv, NEW c \in Conns, ReconnectTimer(c) PROVE ListenInv'
<1>1. /\ c \in timers /\ timers' = timers \ {c}
      /\ UNCHANGED <<mountedRef, gone, reconnects>>
  BY DEF ReconnectTimer, calls
<1>2. CASE mountedRef
  <2>1. connect
    BY <1>2 DEF ReconnectTimer
  <2>2. HookTyped'
    BY <1>1, <2>1, ConnectTyped DEF ListenInv, HookTyped
  <2>3. ASSUME reconnects = 0
        PROVE  (\A d \in Conns : es[d] = "none") /\ timers' = {}
    BY <1>1, <1>2, <2>3 DEF ListenInv, OneToken, Idle, IsConnection, IsTimer
  <2>4. OneToken'
    BY <1>1, <2>1, <2>3, ConnectMakesToken DEF ListenInv, OneToken
  <2> QED
    BY <1>1, <1>2, <2>2, <2>4 DEF ListenInv, Unborn, BornOnce
<1>3. CASE ~mountedRef
  <2>1. es' = es
    BY <1>3 DEF ReconnectTimer
  <2> QED
    BY <1>1, <1>3, <2>1 DEF ListenInv, HookTyped, OneToken, Unborn, BornOnce
<1> QED
  BY <1>2, <1>3

(* The end of the await, and the opening of the stream, keep the token.    *)
LEMMA ResolvedStep == ASSUME ListenInv, NEW c \in Conns, BaseResolved(c) PROVE ListenInv'
<1>1. /\ es[c] = "resolving" /\ es' = [es EXCEPT ![c] = "connecting"]
      /\ eventSourceRef' = c /\ UNCHANGED <<mountedRef, gone, reconnects, timers>>
  BY DEF BaseResolved, calls
<1>2. HookTyped'
  BY <1>1 DEF ListenInv, HookTyped
<1>3. OneToken'
  BY <1>1 DEF ListenInv, HookTyped, OneToken, Idle, IsConnection, IsTimer, Live
<1> QED
  BY <1>1, <1>2, <1>3 DEF ListenInv, Unborn, BornOnce

LEMMA OpensStep == ASSUME ListenInv, NEW c \in Conns, Opens(c) PROVE ListenInv'
<1>1. /\ es[c] = "connecting" /\ es' = [es EXCEPT ![c] = "open"]
      /\ UNCHANGED <<mountedRef, gone, reconnects, timers, eventSourceRef>>
  BY DEF Opens, calls, refs
<1>2. HookTyped'
  BY <1>1 DEF ListenInv, HookTyped
<1>3. OneToken'
  BY <1>1 DEF ListenInv, HookTyped, OneToken, Idle, IsConnection, IsTimer, Live
<1> QED
  BY <1>1, <1>2, <1>3 DEF ListenInv, Unborn, BornOnce

(* A failure hands the token to the timer (useSSE.ts:123-135).             *)
LEMMA ErrorStep == ASSUME ListenInv, NEW c \in Conns, OnError(c) PROVE ListenInv'
<1>1. Live(c) /\ UNCHANGED <<mountedRef, gone, reconnects>>
  BY DEF OnError, calls
<1>2. CASE mountedRef
  <2>1. es' = [es EXCEPT ![c] = "none"] /\ timers' = timers \cup {c}
    BY <1>2 DEF OnError
  <2>2. HookTyped'
    BY <1>1, <2>1 DEF ListenInv, HookTyped
  <2>3. ASSUME reconnects = 0
        PROVE  (Idle(c) /\ IsTimer(c))'
    BY <1>1, <1>2, <2>1, <2>3
      DEF ListenInv, HookTyped, OneToken, Idle, IsConnection, IsTimer, Live
  <2> QED
    BY <1>1, <1>2, <2>2, <2>3 DEF ListenInv, OneToken, Unborn, BornOnce
<1>3. CASE ~mountedRef
  <2>1. es' = [es EXCEPT ![c] = "connecting"] /\ timers' = timers
    BY <1>3 DEF OnError, refs
  <2>2. HookTyped'
    BY <1>1, <2>1 DEF ListenInv, HookTyped
  <2>3. gone
    BY <1>1, <1>3 DEF ListenInv, Unborn, Live
  <2> QED
    BY <1>1, <1>3, <2>2, <2>3 DEF ListenInv, OneToken, Unborn, BornOnce
<1> QED
  BY <1>2, <1>3

(* Events and the network do not touch what the hook has under way.        *)
LEMMA OtherStep ==
  ASSUME ListenInv, UNCHANGED <<calls, refs, es>>
  PROVE  ListenInv'
BY DEF ListenInv, HookTyped, OneToken, Unborn, BornOnce, Idle, IsConnection, IsTimer, Live, calls, refs

-----------------------------------------------------------------------------
(***************************************************************************)
(* Until it is unmounted, and if nobody calls reconnect(), the hook has    *)
(* one await, stream or timer under way, and its stream is the one the     *)
(* clean-up closes, for any number of failures (useSSE.ts:52-178).         *)
(***************************************************************************)
THEOREM OneAtATime == HookSpec => []OneListener
<1>1. HookInit => ListenInv
  BY DEF HookInit, ListenInv, HookTyped, OneToken, Unborn, BornOnce
<1>2. ListenInv /\ [HookNext]_hookVars => ListenInv'
  <2> SUFFICES ASSUME ListenInv, [HookNext]_hookVars PROVE ListenInv'
    OBVIOUS
  <2>1. ASSUME NEW c \in Conns, EventArrives(c) PROVE ListenInv'
    BY <2>1, OtherStep DEF EventArrives
  <2>2. CASE Push \/ UpChanges \/ UNCHANGED hookVars
    BY <2>2, OtherStep DEF Push, UpChanges, hookVars
  <2> QED
    BY <2>1, <2>2, MountStep, UnmountStep, ReconnectStep, TimerStep, ResolvedStep,
      OpensStep, ErrorStep DEF HookNext, ConnStep
<1> QED
  BY <1>1, <1>2, TokenCounts, PTL DEF HookSpec


-----------------------------------------------------------------------------
(***************************************************************************)
(* Polling through the base, the back-off and the cache that all views     *)
(* share, for any endpoints, views and numbers of versions.                *)
(***************************************************************************)
LEMMA ReadsType ==
  ASSUME NEW i \in Instances
  PROVE  HookOf[i].reads \in Seq(Endpoints) /\ Len(HookOf[i].reads) \in Nat \ {0}
<1>1. HookOf[i] \in Hooks /\ \A n \in 1..Len(HookOf[i].reads) : HookOf[i].reads[n] \in Endpoints
  BY PollAssumption
<1>2. \A h \in Hooks : Len(h.reads) \in Nat \ {0} /\ h.reads = [n \in 1..Len(h.reads) |-> h.reads[n]]
  BY DEF Hooks, useScannedNetworks, useLiveAlerts, useSystemStatus, useTrafficHistory
<1> DEFINE r == HookOf[i].reads
<1>3. Len(r) \in Nat \ {0} /\ r = [n \in 1..Len(r) |-> r[n]] /\ \A n \in 1..Len(r) : r[n] \in Endpoints
  BY <1>1, <1>2
<1> HIDE DEF r
<1>4. r \in Seq(Endpoints)
  BY <1>3
<1> QED
  BY <1>3, <1>4 DEF r

(* A loop that waits for an endpoint asks for the one after those it got.  *)
LEMMA HeadInTurn ==
  ASSUME PollTypeOK, NEW i \in Instances, InTurn(i),
         loop[i].pc \in {"next", "asked", "reading"}, loop[i].todo # <<>>
  PROVE  /\ Head(loop[i].todo) \in Endpoints
         /\ Head(loop[i].todo) = HookOf[i].reads[Len(loop[i].got) + 1]
<1> DEFINE t == loop[i].todo
           k == Len(loop[i].got)
<1>1. t \in Seq(Endpoints) /\ t # <<>>
  BY DEF PollTypeOK, PollLoops
<1>2. \A m \in 1..Len(t) : t[m] = HookOf[i].reads[k + m]
  BY DEF InTurn
<1> HIDE DEF t, k
<1>3. Head(t) = t[1] /\ 1 \in 1..Len(t) /\ Head(t) \in Endpoints
  BY <1>1
<1> QED
  BY <1>2, <1>3 DEF t, k

(* What a loop got are answers of the endpoints of its hook, in turn.      *)
LEMMA GotInTurn ==
  ASSUME PollTypeOK, NEW i \in Instances, InTurn(i), NEW n \in 1..Len(loop[i].got)
  PROVE  HookOf[i].reads[n] \in Endpoints /\ loop[i].got[n] \in Answers
<1> DEFINE g == loop[i].got
           t == loop[i].todo
           r == HookOf[i].reads
           k == Len(g)
           m == Len(t)
           s == Len(r)
<1>1. g \in Seq(Answers) /\ t \in Seq(Endpoints) /\ r \in Seq(Endpoints)
  BY ReadsType DEF PollTypeOK, PollLoops
<1>2. k + m = s \/ g = <<>>
  BY DEF InTurn
<1> HIDE DEF g, t, r
<1>3. k \in Nat /\ m \in Nat /\ s \in Nat /\ (g = <<>> => k = 0)
  BY <1>1
<1>4. n \in 1..k
  BY DEF g
<1> HIDE DEF k, m, s
<1>5. n \in 1..s
  BY <1>2, <1>3, <1>4
<1> QED
  BY <1>1, <1>4, <1>5 DEF k, s, g, r

(* What other steps leave alone stays good: versions only grow, and what   *)
(* is cached stays cached.                                                 *)
LEMMA ViewKept ==
  ASSUME PollTypeOK, PollInv, PollTypeOK',
         \A e \in Endpoints : /\ version[e] <= version'[e]
                              /\ responseCache'[e].v <= version'[e]
                              /\ responseCache[e].v > 0 => responseCache'[e].v > 0,
         NEW i \in Instances, shown'[i] = shown[i] \/ shown'[i] = NotShown,
         loop'[i] = loop[i]
  PROVE  InTurn(i)' /\ Known(i)' /\ GotGood(i)' /\ BodyGood(i)'
<1>1. /\ InTurn(i) /\ Known(i) /\ GotGood(i) /\ BodyGood(i)
      /\ \A e \in Endpoints : /\ version[e] \in Nat /\ version'[e] \in Nat
                              /\ responseCache[e].v \in Nat /\ responseCache'[e].v \in Nat
                              /\ shown[i][e] \in Nat /\ shown'[i][e] \in Nat
                              /\ shown'[i][e] = shown[i][e] \/ shown'[i][e] = 0
  BY DEF PollInv, PollTypeOK, Answers, NotShown
<1>2. InTurn(i)'
  BY <1>1 DEF InTurn
<1>3. Known(i)'
  BY <1>1 DEF Known
<1>4. GotGood(i)'
  <2> SUFFICES ASSUME NEW n \in 1..Len(loop[i].got)
               PROVE  Good(i, HookOf[i].reads[n], loop[i].got[n])'
    BY DEF GotGood
  <2> DEFINE e == HookOf[i].reads[n]
             a == loop[i].got[n]
  <2>1. e \in Endpoints /\ a \in Answers
    BY <1>1, GotInTurn
  <2>2. a.v \in Nat
    BY <2>1 DEF Answers
  <2>3. Good(i, e, a)
    BY <1>1 DEF GotGood
  <2> HIDE DEF e, a
  <2>4. /\ a.v <= version'[e] /\ (a.v > 0 => responseCache'[e].v > 0)
        /\ shown'[i][e] > 0 => a.v > 0
        /\ a.fresh => shown'[i][e] <= a.v
    BY <1>1, <2>1, <2>2, <2>3 DEF Good
  <2> QED
    BY <2>4 DEF Good, e, a
<1>5. BodyGood(i)'
  <2> SUFFICES ASSUME loop[i].pc = "reading" PROVE BodyGood(i)'
    BY DEF BodyGood
  <2> DEFINE e == Head(loop[i].todo)
             b == loop[i].body
  <2>1. e \in Endpoints /\ b.v \in Nat
    <3>1. loop[i].todo # <<>> /\ b \in Answers
      BY <1>1 DEF InTurn, PollTypeOK, PollLoops
    <3> QED
      BY <1>1, <3>1, HeadInTurn DEF Answers
  <2>2. b.fresh /\ 0 < b.v /\ shown[i][e] <= b.v /\ b.v <= version[e]
    BY <1>1 DEF BodyGood
  <2> HIDE DEF e, b
  <2>3. b.fresh /\ 0 < b.v /\ shown'[i][e] <= b.v /\ b.v <= version'[e]
    BY <1>1, <2>1, <2>2
  <2> QED
    BY <2>3 DEF BodyGood, e, b
<1> QED
  BY <1>2, <1>3, <1>4, <1>5

(* The call returns: the loop got one answer more, for the endpoint it     *)
(* waited for (useMockLiveData.ts:26-88).                                  *)
LEMMA ReturnedGood ==
  ASSUME PollTypeOK, PollInv, PollTypeOK', NEW i \in Instances, NEW a \in Answers,
         loop[i].pc \in {"next", "asked", "reading"}, loop[i].todo # <<>>,
         loop'[i] = Returned(loop[i], a), UNCHANGED <<version, shown>>,
         \A e \in Endpoints : /\ responseCache'[e].v <= version[e]
                              /\ responseCache[e].v > 0 => responseCache'[e].v > 0,
         a.v <= version[Head(loop[i].todo)],
         a.v > 0 => responseCache'[Head(loop[i].todo)].v > 0,
         shown[i][Head(loop[i].todo)] > 0 => a.v > 0,
         a.fresh => shown[i][Head(loop[i].todo)] <= a.v
  PROVE  InTurn(i)' /\ Known(i)' /\ GotGood(i)' /\ BodyGood(i)'
<1> DEFINE g == loop[i].got
           t == loop[i].todo
           r == HookOf[i].reads
           k == Len(g)
           m == Len(t)
           s == Len(r)
<1>1. /\ InTurn(i) /\ Known(i) /\ GotGood(i)
      /\ \A e \in Endpoints : /\ version[e] \in Nat /\ responseCache[e].v \in Nat
                              /\ responseCache'[e].v \in Nat /\ shown[i][e] \in Nat
  BY DEF PollInv, PollTypeOK, Answers
<1>2. loop[i] \in PollLoops /\ loop'[i] \in PollLoops
  BY DEF PollTypeOK
<1>3. /\ loop'[i].pc = "next" /\ loop'[i].got = Append(g, a) /\ loop'[i].todo = Tail(t)
  BY <1>2 DEF Returned, PollLoops
<1>4. g \in Seq(Answers) /\ t \in Seq(Endpoints) /\ t # <<>> /\ r \in Seq(Endpoints)
  BY <1>2, ReadsType DEF PollLoops
<1>5. k + m = s /\ \A j \in 1..m : t[j] = r[k + j]
  BY <1>1 DEF InTurn
<1>6. Head(t) \in Endpoints /\ Head(t) = r[k + 1]
  BY <1>1, HeadInTurn
<1>7. /\ k \in Nat /\ m \in Nat \ {0} /\ s \in Nat
      /\ Len(Tail(t)) = m - 1 /\ \A j \in 1..(m - 1) : Tail(t)[j] = t[j + 1]
      /\ Len(Append(g, a)) = k + 1 /\ Append(g, a)[k + 1] = a
      /\ \A n \in 1..k : Append(g, a)[n] = g[n]
  <2> HIDE DEF g, t, r
  <2> QED
    BY <1>4
<1>8. InTurn(i)'
  <2> HIDE DEF g, t, r
  <2> DEFINE g1 == Append(g, a)
             t1 == Tail(t)
  <2>1. Len(g1) = k + 1 /\ Len(t1) = m - 1
    BY <1>7
  <2>2. Len(g1) + Len(t1) = s
    <3> HIDE DEF k, m, s, g1, t1
    <3> QED
      BY <1>5, <1>7, <2>1
  <2>3. \A j \in 1..Len(t1) : t1[j] = r[Len(g1) + j]
    <3> SUFFICES ASSUME NEW j \in 1..Len(t1) PROVE t1[j] = r[Len(g1) + j]
      OBVIOUS
    <3>1. j \in 1..(m - 1) /\ t1[j] = t[j + 1]
      BY <1>7, <2>1
    <3> HIDE DEF k, m, s, g1, t1
    <3>2. j + 1 \in 1..m /\ k + (j + 1) = (k + 1) + j
      BY <1>7, <3>1
    <3>3. t[j + 1] = r[k + (j + 1)]
      BY <1>5, <3>2
    <3> QED
      BY <2>1, <3>1, <3>2, <3>3
  <2>4. loop'[i].got = g1 /\ loop'[i].todo = t1 /\ r = HookOf[i].reads /\ s = Len(r)
    BY <1>3 DEF r
  <2> HIDE DEF g1, t1, s
  <2> QED
    BY <1>3, <2>2, <2>3, <2>4 DEF InTurn
<1>9. Known(i)'
  BY <1>1 DEF Known
<1>10. GotGood(i)'
  <2> DEFINE g1 == Append(g, a)
  <2>1. ASSUME NEW n \in 1..(k + 1)
        PROVE  /\ g1[n].v <= version'[r[n]] /\ (g1[n].v > 0 => responseCache'[r[n]].v > 0)
               /\ shown'[i][r[n]] > 0 => g1[n].v > 0
               /\ g1[n].fresh => shown'[i][r[n]] <= g1[n].v
    <3>1. CASE n = k + 1
      <4>1. g1[n] = a /\ r[n] = Head(t)
        BY <1>6, <1>7, <3>1
      <4> HIDE DEF g1, r, t
      <4> QED
        BY <1>6, <4>1 DEF t
    <3>2. CASE n \in 1..k
      <4>1. g1[n] = g[n] /\ Good(i, r[n], g[n])
        BY <1>1, <1>7, <3>2 DEF GotGood
      <4>2. r[n] \in Endpoints /\ g[n].v \in Nat
        BY <1>1, <3>2, GotInTurn DEF Answers
      <4> DEFINE e == r[n]
                 x == g[n]
      <4> HIDE DEF g1, e, x
      <4>3. Good(i, e, x) /\ e \in Endpoints /\ x.v \in Nat
        BY <4>1, <4>2 DEF e, x
      <4>4. /\ x.v <= version'[e] /\ (x.v > 0 => responseCache'[e].v > 0)
            /\ shown'[i][e] > 0 => x.v > 0
            /\ x.fresh => shown'[i][e] <= x.v
        BY <1>1, <4>3 DEF Good
      <4> QED
        BY <4>1, <4>4 DEF e, x
    <3>3. n = k + 1 \/ n \in 1..k
      <4> HIDE DEF k
      <4> QED
        BY <1>7
    <3> QED
      BY <3>1, <3>2, <3>3
  <2>2. loop'[i].got = g1 /\ Len(g1) = k + 1
    BY <1>3, <1>7
  <2> HIDE DEF g1, k
  <2> QED
    BY <2>1, <2>2 DEF GotGood, Good
<1>11. BodyGood(i)'
  BY <1>3 DEF BodyGood
<1> QED
  BY <1>8, <1>9, <1>10, <1>11

(* The call's request is on its way, or answered: what the loop got is as  *)
(* it was.                                                                 *)
LEMMA AskedGood ==
  ASSUME PollTypeOK, PollInv, PollTypeOK', NEW i \in Instances,
         loop[i].pc \in {"next", "asked", "reading"}, loop[i].todo # <<>>,
         loop'[i].got = loop[i].got, loop'[i].todo = loop[i].todo,
         loop'[i].pc \in {"asked", "reading"},
         UNCHANGED <<version, shown, responseCache>>
  PROVE  InTurn(i)' /\ Known(i)' /\ GotGood(i)' /\ (loop'[i].pc = "asked" => BodyGood(i)')
<1>1. InTurn(i) /\ Known(i) /\ GotGood(i)
  BY DEF PollInv
<1>2. InTurn(i)'
  BY <1>1 DEF InTurn
<1>3. Known(i)'
  BY <1>1 DEF Known
<1>4. GotGood(i)'
  BY <1>1 DEF GotGood, Good
<1>5. loop'[i].pc = "asked" => BodyGood(i)'
  BY DEF BodyGood
<1> QED
  BY <1>2, <1>3, <1>4, <1>5

(* The loops between two polls, and at the start of one.                   *)
LEMMA RestLoops ==
  ASSUME NEW i \in Instances, NEW none, none = <<>>
  PROVE  /\ Off = [pc |-> "off", todo |-> none, got |-> none, route |-> "relative", body |-> Null]
         /\ StartPoll(i) = [pc |-> "next", todo |-> HookOf[i].reads, got |-> none,
                            route |-> "relative", body |-> Null]
         /\ [Off EXCEPT !.pc = "timer"]
              = [pc |-> "timer", todo |-> none, got |-> none, route |-> "relative", body |-> Null]
<1> DEFINE noids == <<>>
           r == HookOf[i].reads
<1>1. none = noids
  OBVIOUS
<1>2. Off = [pc |-> "off", todo |-> noids, got |-> noids, route |-> "relative", body |-> Null]
  BY DEF Off
<1>3. StartPoll(i) = [Off EXCEPT !.pc = "next", !.todo = r]
  BY DEF StartPoll
<1> HIDE DEF noids, r
<1>4. StartPoll(i) = [pc |-> "next", todo |-> r, got |-> noids, route |-> "relative", body |-> Null]
  BY <1>2, <1>3
<1>5. [Off EXCEPT !.pc = "timer"]
        = [pc |-> "timer", todo |-> noids, got |-> noids, route |-> "relative", body |-> Null]
  BY <1>2
<1> QED
  BY <1>1, <1>2, <1>4, <1>5 DEF r

(* A loop that starts, or sleeps, or has ended, has got nothing.           *)
LEMMA RestGood ==
  ASSUME PollTypeOK, PollInv, NEW i \in Instances,
         loop'[i] = StartPoll(i) \/ loop'[i] = Off \/ loop'[i] = [Off EXCEPT !.pc = "timer"],
         Known(i)'
  PROVE  InTurn(i)' /\ Known(i)' /\ GotGood(i)' /\ BodyGood(i)'
<1> DEFINE r == HookOf[i].reads
           g == loop'[i].got
           none == <<>>
<1>0. /\ Off = [pc |-> "off", todo |-> none, got |-> none, route |-> "relative", body |-> Null]
      /\ StartPoll(i) = [pc |-> "next", todo |-> r, got |-> none, route |-> "relative", body |-> Null]
      /\ [Off EXCEPT !.pc = "timer"]
           = [pc |-> "timer", todo |-> none, got |-> none, route |-> "relative", body |-> Null]
  BY RestLoops
<1> HIDE DEF none
<1>1. \/ loop'[i].pc = "next" /\ loop'[i].todo = r
      \/ loop'[i].pc \in {"off", "timer"} /\ loop'[i].todo = none
  BY <1>0
<1>2. g = none
  BY <1>0
<1>3. r \in Seq(Endpoints) /\ Len(r) \in Nat
  BY ReadsType
<1> HIDE DEF r, g
<1>4. Len(g) = 0 /\ none = <<>> /\ g = <<>>
  BY <1>2 DEF none
<1>5. Len(g) + Len(r) = Len(r) /\ \A k \in 1..Len(r) : r[k] = r[Len(g) + k]
  BY <1>3, <1>4
<1>6. InTurn(i)'
  BY <1>1, <1>2, <1>4, <1>5 DEF InTurn, r, g
<1>7. GotGood(i)'
  BY <1>4 DEF GotGood, g
<1>8. BodyGood(i)'
  BY <1>1 DEF BodyGood
<1> QED
  BY <1>6, <1>7, <1>8

LEMMA LoopTypes ==
  ASSUME PollTypeOK, NEW i \in Instances
  PROVE  /\ loop[i] \in PollLoops /\ Off \in PollLoops /\ StartPoll(i) \in PollLoops
         /\ [Off EXCEPT !.pc = "timer"] \in PollLoops
         /\ \A l \in PollLoops : Becomes(i, l) =>
               /\ loop' \in [Instances -> PollLoops] /\ loop'[i] = l
               /\ \A j \in Instances \ {i} : loop'[j] = loop[j]
         /\ loop[i].todo # <<>> =>
               \A a \in Answers : Returned(loop[i], a) \in PollLoops
<1> DEFINE r == HookOf[i].reads
           noids == <<>>
<1>1. r \in Seq(Endpoints)
  BY ReadsType
<1>2. noids \in Seq(Endpoints) /\ noids \in Seq(Answers)
  OBVIOUS
<1>3. Null \in Answers
  BY DEF Null, Answers
<1>4. /\ Off = [pc |-> "off", todo |-> noids, got |-> noids, route |-> "relative", body |-> Null]
      /\ StartPoll(i) = [pc |-> "next", todo |-> r, got |-> noids, route |-> "relative", body |-> Null]
      /\ [Off EXCEPT !.pc = "timer"]
           = [pc |-> "timer", todo |-> noids, got |-> noids, route |-> "relative", body |-> Null]
  BY RestLoops
<1> HIDE DEF r, noids
<1>5. Off \in PollLoops /\ StartPoll(i) \in PollLoops /\ [Off EXCEPT !.pc = "timer"] \in PollLoops
  BY <1>1, <1>2, <1>3, <1>4 DEF PollLoops, Routes
<1>6. loop[i] \in PollLoops /\ loop \in [Instances -> PollLoops]
  BY DEF PollTypeOK
<1>7. \A l \in PollLoops : Becomes(i, l) =>
         /\ loop' \in [Instances -> PollLoops] /\ loop'[i] = l
         /\ \A j \in Instances \ {i} : loop'[j] = loop[j]
  BY <1>6 DEF Becomes
<1>8. ASSUME loop[i].todo # <<>>, NEW a \in Answers
      PROVE  Returned(loop[i], a) \in PollLoops
  <2> DEFINE l == loop[i]
             t == l.todo
             g == l.got
  <2>1. l \in PollLoops /\ t \in Seq(Endpoints) /\ t # <<>> /\ g \in Seq(Answers)
    BY <1>6, <1>8 DEF PollLoops
  <2>2. Returned(l, a) = [l EXCEPT !.pc = "next", !.todo = Tail(t), !.got = Append(g, a), !.body = Null]
    BY <2>1 DEF Returned, PollLoops
  <2> HIDE DEF t, g
  <2>3. Tail(t) \in Seq(Endpoints) /\ Append(g, a) \in Seq(Answers)
    BY <2>1
  <2> HIDE DEF l
  <2>4. Returned(l, a) \in PollLoops
    BY <1>3, <2>1, <2>2, <2>3 DEF PollLoops
  <2> QED
    BY <2>4 DEF l
<1> QED
  BY <1>5, <1>6, <1>7, <1>8

LEMMA CachedAnswer ==
  ASSUME PollTypeOK, NEW e \in Endpoints
  PROVE  Cached(e) \in Answers /\ Cached(e).v = responseCache[e].v /\ ~Cached(e).fresh
BY DEF PollTypeOK, Answers, Cached

LEMMA CallApiKeeps ==
  ASSUME PollTypeOK, PollInv, NEW i \in Instances, CallApi(i)
  PROVE  PollTypeOK' /\ PollInv' /\ shown' = shown
<1> DEFINE h == Head(loop[i].todo)
<1>0. UNCHANGED <<version, shown, responseCache>>
  BY DEF CallApi, backend, fetches, polls
<1>1. InTurn(i) /\ Known(i) /\ loop[i].pc = "next" /\ loop[i].todo # <<>> /\ h \in Endpoints
  BY HeadInTurn DEF CallApi, Busy, PollInv
<1>2. /\ Cached(h) \in Answers /\ Cached(h).v = responseCache[h].v /\ ~Cached(h).fresh
      /\ Returned(loop[i], Cached(h)) \in PollLoops
  BY <1>1, CachedAnswer, LoopTypes
<1> DEFINE l1 == [loop[i] EXCEPT !.pc = "asked",
                     !.route = IF resolvedBase = "direct" THEN "base" ELSE "relative"]
<1>3. l1 \in PollLoops /\ l1.got = loop[i].got /\ l1.todo = loop[i].todo /\ l1.pc = "asked"
  BY LoopTypes DEF PollLoops, Routes
<1>4. Becomes(i, Returned(loop[i], Cached(h))) \/ Becomes(i, l1)
  BY DEF CallApi
<1> HIDE DEF l1
<1>5. /\ loop' \in [Instances -> PollLoops]
      /\ loop'[i] = Returned(loop[i], Cached(h)) \/ loop'[i] = l1
      /\ \A j \in Instances \ {i} : loop'[j] = loop[j]
  BY <1>2, <1>3, <1>4, LoopTypes
<1>6. PollTypeOK'
  BY <1>0, <1>5 DEF PollTypeOK
<1>7. \A e \in Endpoints : /\ version[e] <= version'[e] /\ responseCache'[e].v <= version'[e]
                           /\ responseCache'[e].v <= version[e]
                           /\ responseCache[e].v > 0 => responseCache'[e].v > 0
  BY <1>0, <1>1 DEF Known, PollTypeOK
<1>8. InTurn(i)' /\ Known(i)' /\ GotGood(i)' /\ BodyGood(i)'
  <2>1. CASE loop'[i] = l1
    BY <1>0, <1>1, <1>3, <1>6, <2>1, AskedGood
  <2>2. CASE loop'[i] = Returned(loop[i], Cached(h))
    <3> DEFINE a == Cached(h)
    <3>1. /\ a.v <= version[h] /\ (a.v > 0 => responseCache'[h].v > 0)
          /\ shown[i][h] > 0 => a.v > 0
          /\ a.fresh => shown[i][h] <= a.v
      BY <1>0, <1>1, <1>2 DEF Known
    <3>2. a \in Answers /\ loop'[i] = Returned(loop[i], a)
      BY <1>2, <2>2
    <3> HIDE DEF a
    <3> QED
      BY <1>0, <1>1, <1>6, <1>7, <3>1, <3>2, ReturnedGood
  <2> QED
    BY <1>5, <2>1, <2>2
<1>9. \A j \in Instances \ {i} : InTurn(j)' /\ Known(j)' /\ GotGood(j)' /\ BodyGood(j)'
  BY <1>0, <1>5, <1>6, <1>7, ViewKept
<1> QED
  BY <1>0, <1>6, <1>8, <1>9 DEF PollInv

(* A step of one loop that leaves the data, the cache and what is shown.   *)
LEMMA LoopMoves ==
  ASSUME PollTypeOK, PollInv, NEW i \in Instances, NEW l \in PollLoops, Becomes(i, l),
         version' \in [Endpoints -> Nat \ {0}], responseCache' \in [Endpoints -> Answers],
         shown' \in [Instances -> [Endpoints -> Nat]],
         \A e \in Endpoints : /\ version[e] <= version'[e]
                              /\ responseCache'[e].v <= version'[e]
                              /\ responseCache[e].v > 0 => responseCache'[e].v > 0,
         \A j \in Instances \ {i} : shown'[j] = shown[j],
         PollTypeOK' => InTurn(i)' /\ Known(i)' /\ GotGood(i)' /\ BodyGood(i)'
  PROVE  PollTypeOK' /\ PollInv'
<1>1. /\ loop' \in [Instances -> PollLoops]
      /\ \A j \in Instances \ {i} : loop'[j] = loop[j]
  BY LoopTypes
<1>2. PollTypeOK'
  BY <1>1 DEF PollTypeOK
<1>3. \A j \in Instances \ {i} : InTurn(j)' /\ Known(j)' /\ GotGood(j)' /\ BodyGood(j)'
  BY <1>1, <1>2, ViewKept
<1> QED
  BY <1>2, <1>3 DEF PollInv

LEMMA RespondsKeeps ==
  ASSUME PollTypeOK, PollInv, NEW i \in Instances, Responds(i)
  PROVE  PollTypeOK' /\ PollInv' /\ shown' = shown
<1> DEFINE h == Head(loop[i].todo)
           b == [v |-> version[h], fresh |-> TRUE]
           l == [loop[i] EXCEPT !.pc = "reading", !.body = b]
<1>0. UNCHANGED <<version, shown, responseCache>> /\ Becomes(i, l)
  BY DEF Responds, backend, polls
<1>1. /\ InTurn(i) /\ Known(i) /\ loop[i].pc = "asked" /\ loop[i].todo # <<>>
      /\ h \in Endpoints
  BY HeadInTurn DEF Responds, Busy, PollInv, InTurn
<1>2. b \in Answers /\ version[h] \in Nat \ {0}
  BY <1>1 DEF Answers, PollTypeOK
<1>3. /\ l \in PollLoops /\ l.got = loop[i].got /\ l.todo = loop[i].todo
      /\ l.pc = "reading" /\ l.body = b
  <2> HIDE DEF b
  <2> QED
    BY <1>2, LoopTypes DEF PollLoops
<1> HIDE DEF l
<1>4. loop'[i] = l
  BY <1>0, <1>3, LoopTypes
<1>5. \A e \in Endpoints : /\ version[e] <= version'[e] /\ responseCache'[e].v <= version'[e]
                           /\ responseCache[e].v > 0 => responseCache'[e].v > 0
  BY <1>0, <1>1 DEF Known, PollTypeOK
<1>6. BodyGood(i)'
  <2>1. b.fresh /\ 0 < b.v /\ shown[i][h] <= b.v /\ b.v <= version[h]
    BY <1>1, <1>2 DEF Known
  <2> HIDE DEF b
  <2> QED
    BY <1>0, <1>3, <1>4, <2>1 DEF BodyGood
<1>7. PollTypeOK' => InTurn(i)' /\ Known(i)' /\ GotGood(i)' /\ BodyGood(i)'
  BY <1>0, <1>1, <1>3, <1>4, <1>6, AskedGood
<1> QED
  BY <1>0, <1>3, <1>5, <1>7, LoopMoves DEF PollTypeOK

LEMMA BodyReadKeeps ==
  ASSUME PollTypeOK, PollInv, NEW i \in Instances, BodyRead(i)
  PROVE  PollTypeOK' /\ PollInv' /\ shown' = shown
<1> DEFINE h == Head(loop[i].todo)
           b == loop[i].body
           l == Returned(loop[i], b)
<1>0. /\ UNCHANGED <<version, shown>> /\ Becomes(i, l)
      /\ responseCache' = [responseCache EXCEPT ![h] = b]
  BY DEF BodyRead, backend, polls
<1>1. /\ InTurn(i) /\ Known(i) /\ loop[i].pc = "reading" /\ loop[i].todo # <<>>
      /\ h \in Endpoints
  BY HeadInTurn DEF BodyRead, Busy, PollInv, InTurn
<1>2. b \in Answers /\ b.v \in Nat /\ l \in PollLoops
  BY <1>1, LoopTypes DEF PollLoops, Answers
<1>3. b.fresh /\ 0 < b.v /\ shown[i][h] <= b.v /\ b.v <= version[h]
  BY <1>1 DEF PollInv, BodyGood
<1> HIDE DEF l
<1>4. loop'[i] = l
  BY <1>0, <1>2, LoopTypes
<1> DEFINE c == responseCache
<1>5. c \in [Endpoints -> Answers] /\ version \in [Endpoints -> Nat \ {0}]
  BY DEF PollTypeOK
<1> HIDE DEF b, h
<1>6. /\ responseCache' \in [Endpoints -> Answers] /\ responseCache'[h] = b
      /\ \A e \in Endpoints \ {h} : responseCache'[e] = c[e]
  BY <1>0, <1>1, <1>2, <1>5
<1>7. \A e \in Endpoints : /\ version[e] <= version'[e] /\ responseCache'[e].v <= version'[e]
                           /\ responseCache'[e].v <= version[e]
                           /\ responseCache[e].v > 0 => responseCache'[e].v > 0
  BY <1>0, <1>1, <1>3, <1>5, <1>6 DEF Known
<1>8. PollTypeOK' => InTurn(i)' /\ Known(i)' /\ GotGood(i)' /\ BodyGood(i)'
  <2> SUFFICES ASSUME PollTypeOK' PROVE InTurn(i)' /\ Known(i)' /\ GotGood(i)' /\ BodyGood(i)'
    OBVIOUS
  <2>1. loop'[i] = Returned(loop[i], b)
    BY <1>4 DEF l
  <2>2. /\ b.v <= version[h] /\ (b.v > 0 => responseCache'[h].v > 0)
        /\ (shown[i][h] > 0 => b.v > 0) /\ (b.fresh => shown[i][h] <= b.v)
    BY <1>2, <1>3, <1>6
  <2> QED
    BY <1>0, <1>1, <1>2, <1>7, <2>1, <2>2, ReturnedGood DEF h
<1> QED
  BY <1>0, <1>2, <1>5, <1>6, <1>7, <1>8, LoopMoves DEF PollTypeOK

LEMMA BaseRejectsKeeps ==
  ASSUME PollTypeOK, PollInv, NEW i \in Instances, BaseRejects(i)
  PROVE  PollTypeOK' /\ PollInv' /\ shown' = shown
<1> DEFINE l == [loop[i] EXCEPT !.route = "relative"]
<1>0. UNCHANGED <<version, shown, responseCache>> /\ Becomes(i, l)
  BY DEF BaseRejects, backend, polls
<1>1. InTurn(i) /\ Known(i) /\ loop[i].pc = "asked" /\ loop[i].todo # <<>>
  BY DEF BaseRejects, Busy, PollInv, InTurn
<1>2. /\ l \in PollLoops /\ l.got = loop[i].got /\ l.todo = loop[i].todo /\ l.pc = "asked"
  BY <1>1, LoopTypes DEF PollLoops, Routes
<1> HIDE DEF l
<1>3. loop'[i] = l
  BY <1>0, <1>2, LoopTypes
<1>4. \A e \in Endpoints : /\ version[e] <= version'[e] /\ responseCache'[e].v <= version'[e]
                           /\ responseCache[e].v > 0 => responseCache'[e].v > 0
  BY <1>0, <1>1 DEF Known, PollTypeOK
<1>5. PollTypeOK' => InTurn(i)' /\ Known(i)' /\ GotGood(i)' /\ BodyGood(i)'
  BY <1>0, <1>1, <1>2, <1>3, AskedGood
<1> QED
  BY <1>0, <1>2, <1>4, <1>5, LoopMoves DEF PollTypeOK

LEMMA RequestFailsKeeps ==
  ASSUME PollTypeOK, PollInv, NEW i \in Instances, RequestFails(i)
  PROVE  PollTypeOK' /\ PollInv' /\ shown' = shown
<1> DEFINE h == Head(loop[i].todo)
           a == Cached(h)
           l1 == [loop[i] EXCEPT !.pc = "asked", !.route = "direct", !.body = Null]
           l2 == Returned(loop[i], a)
<1>0. UNCHANGED <<version, shown, responseCache>> /\ (Becomes(i, l1) \/ Becomes(i, l2))
  BY DEF RequestFails, backend, polls
<1>1. /\ InTurn(i) /\ Known(i) /\ loop[i].pc \in {"asked", "reading"} /\ loop[i].todo # <<>>
      /\ h \in Endpoints
  BY HeadInTurn DEF RequestFails, Busy, PollInv, InTurn
<1>2. /\ l1 \in PollLoops /\ l1.got = loop[i].got /\ l1.todo = loop[i].todo /\ l1.pc = "asked"
  <2>1. loop[i] \in PollLoops
    BY LoopTypes
  <2> QED
    BY <2>1 DEF PollLoops, Routes, Null, Answers
<1>3. a \in Answers /\ a.v = responseCache[h].v /\ ~a.fresh /\ l2 \in PollLoops
  BY <1>1, CachedAnswer, LoopTypes
<1>4. \A e \in Endpoints : /\ version[e] <= version'[e] /\ responseCache'[e].v <= version'[e]
                           /\ responseCache'[e].v <= version[e]
                           /\ responseCache[e].v > 0 => responseCache'[e].v > 0
  BY <1>0, <1>1 DEF Known, PollTypeOK
<1> HIDE DEF l1, a
<1>5. CASE Becomes(i, l1)
  <2>1. loop'[i] = l1
    BY <1>2, <1>5, LoopTypes
  <2>2. PollTypeOK' => InTurn(i)' /\ Known(i)' /\ GotGood(i)' /\ BodyGood(i)'
    BY <1>0, <1>1, <1>2, <2>1, AskedGood
  <2> QED
    BY <1>0, <1>2, <1>4, <1>5, <2>2, LoopMoves DEF PollTypeOK
<1>6. CASE Becomes(i, l2)
  <2>1. loop'[i] = Returned(loop[i], a)
    BY <1>3, <1>6, LoopTypes
  <2>2. /\ a.v <= version[h] /\ (a.v > 0 => responseCache'[h].v > 0)
        /\ (shown[i][h] > 0 => a.v > 0) /\ (a.fresh => shown[i][h] <= a.v)
    BY <1>0, <1>1, <1>3 DEF Known
  <2>3. PollTypeOK' => InTurn(i)' /\ Known(i)' /\ GotGood(i)' /\ BodyGood(i)'
    BY <1>0, <1>1, <1>3, <1>4, <2>1, <2>2, ReturnedGood
  <2> HIDE DEF l2
  <2> QED
    BY <1>0, <1>3, <1>4, <1>6, <2>3, LoopMoves DEF PollTypeOK
<1> QED
  BY <1>0, <1>5, <1>6

(* What a view comes to show, for each endpoint, is what it shows already  *)
(* or one of the answers its fetcher returned.                             *)
LEMMA ShownAnswer ==
  ASSUME PollTypeOK, PollInv, NEW i \in Instances
  PROVE  /\ ShownAfter(i, loop[i].got) \in [Endpoints -> Nat]
         /\ \A e \in Endpoints :
               \/ ShownAfter(i, loop[i].got)[e] = shown[i][e]
               \/ \E n \in 1..Len(loop[i].got) :
                     HookOf[i].reads[n] = e /\ ShownAfter(i, loop[i].got)[e] = loop[i].got[n].v
<1> DEFINE g == loop[i].got
           r == HookOf[i].reads
           part(e) == \E n \in 1..Len(g) : r[n] = e
           at(e) == CHOOSE n \in 1..Len(g) : r[n] = e
           new == [e \in Endpoints |-> IF part(e) THEN g[at(e)].v ELSE shown[i][e]]
<1>1. ShownAfter(i, g) = shown[i] \/ ShownAfter(i, g) = new
  BY DEF ShownAfter
<1>2. shown[i] \in [Endpoints -> Nat]
  BY DEF PollTypeOK
<1>3. \A n \in 1..Len(g) : g[n].v \in Nat
  BY GotInTurn DEF PollInv, Answers
<1>4. ASSUME NEW e \in Endpoints
      PROVE  /\ new[e] \in Nat
             /\ new[e] = shown[i][e] \/ \E n \in 1..Len(g) : r[n] = e /\ new[e] = g[n].v
  <2>1. CASE part(e)
    <3>1. at(e) \in 1..Len(g) /\ r[at(e)] = e
      BY <2>1
    <3>2. new[e] = g[at(e)].v
      BY <2>1
    <3> QED
      BY <1>3, <3>1, <3>2
  <2>2. CASE ~part(e)
    BY <1>2, <2>2
  <2> QED
    BY <2>1, <2>2
<1>5. new \in [Endpoints -> Nat]
  BY <1>4
<1> HIDE DEF new
<1>6. CASE ShownAfter(i, g) = shown[i]
  BY <1>2, <1>6
<1>7. CASE ShownAfter(i, g) = new
  <2> HIDE DEF g, r
  <2>1. ShownAfter(i, g) \in [Endpoints -> Nat]
    BY <1>5, <1>7
  <2>2. \A e \in Endpoints :
          \/ ShownAfter(i, g)[e] = shown[i][e]
          \/ \E n \in 1..Len(g) : r[n] = e /\ ShownAfter(i, g)[e] = g[n].v
    BY <1>4, <1>7
  <2> QED
    BY <2>1, <2>2 DEF g, r
<1> QED
  BY <1>1, <1>6, <1>7

LEMMA DeliverKeeps ==
  ASSUME PollTypeOK, PollInv, NEW i \in Instances, Deliver(i)
  PROVE  PollTypeOK' /\ PollInv'
<1> DEFINE l == IF i \in cancelledRef THEN Off ELSE [Off EXCEPT !.pc = "timer"]
           s == ShownAfter(i, loop[i].got)
<1>0. UNCHANGED <<version, responseCache>> /\ Becomes(i, l)
  BY DEF Deliver, backend, fetches
<1>1. shown' = shown \/ shown' = [shown EXCEPT ![i] = s]
  BY DEF Deliver
<1>2. l \in PollLoops
  BY LoopTypes
<1>3. InTurn(i) /\ Known(i) /\ GotGood(i) /\ shown \in [Instances -> [Endpoints -> Nat]]
  BY DEF PollInv, PollTypeOK
<1>4. s \in [Endpoints -> Nat]
  BY ShownAnswer
<1>5. \A e \in Endpoints : s[e] <= version[e] /\ (s[e] > 0 => responseCache[e].v > 0)
  <2> SUFFICES ASSUME NEW e \in Endpoints
               PROVE  s[e] <= version[e] /\ (s[e] > 0 => responseCache[e].v > 0)
    OBVIOUS
  <2>1. CASE s[e] = shown[i][e]
    BY <1>3, <2>1 DEF Known
  <2>2. CASE \E n \in 1..Len(loop[i].got) : HookOf[i].reads[n] = e /\ s[e] = loop[i].got[n].v
    BY <1>3, <2>2 DEF GotGood, Good
  <2> QED
    BY <2>1, <2>2, ShownAnswer
<1> HIDE DEF s
<1>6. /\ shown' \in [Instances -> [Endpoints -> Nat]]
      /\ shown'[i] = shown[i] \/ shown'[i] = s
      /\ \A j \in Instances \ {i} : shown'[j] = shown[j]
  BY <1>1, <1>3, <1>4
<1>7. Known(i)'
  BY <1>0, <1>3, <1>5, <1>6 DEF Known
<1>8. \A e \in Endpoints : /\ version[e] <= version'[e] /\ responseCache'[e].v <= version'[e]
                           /\ responseCache[e].v > 0 => responseCache'[e].v > 0
  BY <1>0, <1>3 DEF Known, PollTypeOK
<1>9. loop'[i] = Off \/ loop'[i] = [Off EXCEPT !.pc = "timer"]
  <2>1. loop'[i] = l
    <3> HIDE DEF l
    <3> QED
      BY <1>0, <1>2, LoopTypes
  <2> QED
    BY <2>1
<1>10. PollTypeOK' => InTurn(i)' /\ Known(i)' /\ GotGood(i)' /\ BodyGood(i)'
  BY <1>7, <1>9, RestGood
<1> HIDE DEF l
<1> QED
  BY <1>0, <1>2, <1>6, <1>8, <1>10, LoopMoves DEF PollTypeOK

(* A poll starts, when a view mounts or when its timer fires, or a view    *)
(* goes and takes its timer along.                                         *)
LEMMA StartsAndEnds ==
  ASSUME PollTypeOK, PollInv, NEW i \in Instances, Mount(i) \/ TimerFires(i) \/ Unmount(i)
  PROVE  PollTypeOK' /\ PollInv'
<1>0. /\ UNCHANGED <<version, responseCache>>
      /\ shown' = shown \/ shown' = [shown EXCEPT ![i] = NotShown]
      /\ Becomes(i, StartPoll(i)) \/ Becomes(i, Off) \/ Becomes(i, loop[i])
  BY DEF Mount, TimerFires, Unmount, backend, fetches, polls
<1>1. Known(i) /\ shown \in [Instances -> [Endpoints -> Nat]] /\ NotShown \in [Endpoints -> Nat]
  BY DEF PollInv, PollTypeOK, NotShown
<1>2. /\ shown' \in [Instances -> [Endpoints -> Nat]]
      /\ shown'[i] = shown[i] \/ shown'[i] = NotShown
      /\ \A j \in Instances \ {i} : shown'[j] = shown[j]
  <2> DEFINE n == NotShown
  <2> HIDE DEF n
  <2>1. n \in [Endpoints -> Nat] /\ (shown' = shown \/ shown' = [shown EXCEPT ![i] = n])
    BY <1>0, <1>1 DEF n
  <2>2. /\ shown' \in [Instances -> [Endpoints -> Nat]]
        /\ shown'[i] = shown[i] \/ shown'[i] = n
        /\ \A j \in Instances \ {i} : shown'[j] = shown[j]
    BY <1>1, <2>1
  <2> QED
    BY <2>2 DEF n
<1>3. Known(i)'
  <2>1. \A e \in Endpoints : shown'[i][e] = shown[i][e] \/ shown'[i][e] = 0
    BY <1>2 DEF NotShown
  <2>2. \A e \in Endpoints : version[e] \in Nat /\ responseCache[e].v \in Nat
    BY DEF PollTypeOK, Answers
  <2> QED
    BY <1>0, <1>1, <2>1, <2>2 DEF Known
<1>4. \A e \in Endpoints : /\ version[e] <= version'[e] /\ responseCache'[e].v <= version'[e]
                           /\ responseCache[e].v > 0 => responseCache'[e].v > 0
  BY <1>0, <1>1 DEF Known, PollTypeOK
<1>5. CASE Becomes(i, StartPoll(i)) \/ Becomes(i, Off)
  <2> DEFINE l == IF Becomes(i, StartPoll(i)) THEN StartPoll(i) ELSE Off
  <2>1. l \in PollLoops /\ Becomes(i, l) /\ (l = StartPoll(i) \/ l = Off)
    BY <1>5, LoopTypes
  <2> HIDE DEF l
  <2>2. loop'[i] = l
    BY <2>1, LoopTypes
  <2>3. PollTypeOK' => InTurn(i)' /\ Known(i)' /\ GotGood(i)' /\ BodyGood(i)'
    BY <1>3, <2>1, <2>2, RestGood
  <2> QED
    BY <1>0, <1>2, <1>4, <2>1, <2>3, LoopMoves DEF PollTypeOK
<1>6. CASE Becomes(i, loop[i])
  <2>1. loop[i] \in PollLoops /\ loop'[i] = loop[i]
    BY <1>6, LoopTypes
  <2>2. PollTypeOK' => InTurn(i)' /\ Known(i)' /\ GotGood(i)' /\ BodyGood(i)'
    BY <1>2, <1>4, <2>1, ViewKept
  <2> QED
    BY <1>0, <1>2, <1>4, <1>6, <2>1, <2>2, LoopMoves DEF PollTypeOK
<1> QED
  BY <1>0, <1>5, <1>6

(* A step of the backend or of the back-off, or no step at all.            *)
LEMMA OutsideKeeps ==
  ASSUME PollTypeOK, PollInv,
         \/ \E e \in Endpoints : BackendChanges(e)
         \/ \E r \in Routes : ReachableChanges(r)
         \/ BackoffEnds
         \/ UNCHANGED pollVars
  PROVE  PollTypeOK' /\ PollInv' /\ shown' = shown
<1>0. /\ UNCHANGED <<responseCache, shown, loop>>
      /\ version' = version \/ \E e \in Endpoints : version' = [version EXCEPT ![e] = @ + 1]
  BY DEF BackendChanges, ReachableChanges, BackoffEnds, pollVars, backend, fetches, polls
<1>1. version \in [Endpoints -> Nat \ {0}]
  BY DEF PollTypeOK
<1>2. /\ version' \in [Endpoints -> Nat \ {0}]
      /\ \A e \in Endpoints : version[e] <= version'[e]
  BY <1>0, <1>1
<1>3. PollTypeOK'
  BY <1>0, <1>2 DEF PollTypeOK
<1>4. ASSUME NEW i \in Instances
      PROVE  InTurn(i)' /\ Known(i)' /\ GotGood(i)' /\ BodyGood(i)'
  <2>1. \A e \in Endpoints :
           /\ version[e] <= version'[e] /\ responseCache'[e].v <= version'[e]
           /\ responseCache[e].v > 0 => responseCache'[e].v > 0
    <3>1. \A e \in Endpoints : responseCache[e].v \in Nat /\ responseCache[e].v <= version[e]
      BY DEF PollInv, Known, PollTypeOK, Answers
    <3> QED
      BY <1>0, <1>1, <1>2, <3>1
  <2> QED
    BY <1>0, <1>3, <2>1, ViewKept
<1> QED
  BY <1>0, <1>3, <1>4 DEF PollInv

(* What a view shows only changes when its fetcher has returned, or when   *)
(* the view goes.                                                          *)
LEMMA PollStep ==
  ASSUME PollTypeOK, PollInv, [PollNext]_pollVars
  PROVE  /\ PollTypeOK' /\ PollInv'
         /\ \/ shown' = shown
            \/ \E i \in Instances : Deliver(i) \/ Unmount(i)
<1>1. CASE \/ \E e \in Endpoints : BackendChanges(e)
           \/ \E r \in Routes : ReachableChanges(r)
           \/ BackoffEnds
           \/ UNCHANGED pollVars
  BY <1>1, OutsideKeeps
<1>2. ASSUME NEW i \in Instances, Mount(i) \/ Unmount(i) \/ LoopStep(i)
      PROVE  /\ PollTypeOK' /\ PollInv'
             /\ shown' = shown \/ Deliver(i) \/ Unmount(i)
  <2>1. CASE Mount(i) \/ Unmount(i) \/ TimerFires(i)
    <3>1. shown' = shown \/ Unmount(i)
      BY <2>1 DEF Mount, TimerFires, polls
    <3> QED
      BY <2>1, <3>1, StartsAndEnds
  <2>2. CASE Deliver(i)
    BY <2>2, DeliverKeeps
  <2>3. CASE CallApi(i)
    BY <2>3, CallApiKeeps
  <2>4. CASE Responds(i)
    BY <2>4, RespondsKeeps
  <2>5. CASE BodyRead(i)
    BY <2>5, BodyReadKeeps
  <2>6. CASE BaseRejects(i)
    BY <2>6, BaseRejectsKeeps
  <2>7. CASE RequestFails(i)
    BY <2>7, RequestFailsKeeps
  <2> QED
    BY <1>2, <2>1, <2>2, <2>3, <2>4, <2>5, <2>6, <2>7 DEF LoopStep
<1> QED
  BY <1>1, <1>2 DEF PollNext

LEMMA PollStart ==
  ASSUME PollInit
  PROVE  PollTypeOK /\ PollInv
<1> DEFINE none == <<>>
           o == Off
<1>1. /\ none \in Seq(Endpoints) /\ none \in Seq(Answers) /\ Len(none) = 0
      /\ Null \in Answers /\ Null.v = 0
  BY DEF Null, Answers
<1>2. o = [pc |-> "off", todo |-> none, got |-> none, route |-> "relative", body |-> Null]
  BY DEF Off
<1> HIDE DEF none, o
<1>3. o \in PollLoops /\ o.pc = "off" /\ o.got = none /\ o.todo = none
  BY <1>1, <1>2 DEF PollLoops, Routes
<1>4. /\ loop = [i \in Instances |-> o] /\ shown = [i \in Instances |-> NotShown]
      /\ version = [e \in Endpoints |-> 1] /\ responseCache = [e \in Endpoints |-> Null]
  BY DEF PollInit, o
<1>5. NotShown \in [Endpoints -> Nat]
  BY DEF NotShown
<1>6. PollTypeOK
  BY <1>1, <1>3, <1>4, <1>5 DEF PollTypeOK
<1>7. \A e \in Endpoints : version[e] = 1 /\ responseCache[e].v = 0
  BY <1>1, <1>4
<1>8. ASSUME NEW i \in Instances
      PROVE  InTurn(i) /\ Known(i) /\ GotGood(i) /\ BodyGood(i)
  <2>1. loop[i] = o /\ \A e \in Endpoints : shown[i][e] = 0
    BY <1>4 DEF NotShown
  <2>2. InTurn(i)
    BY <1>3, <2>1 DEF InTurn, none
  <2>3. Known(i)
    BY <1>7, <2>1 DEF Known
  <2>4. GotGood(i)
    BY <1>1, <1>3, <2>1 DEF GotGood
  <2>5. BodyGood(i)
    BY <1>3, <2>1 DEF BodyGood
  <2> QED
    BY <2>2, <2>3, <2>4, <2>5
<1> QED
  BY <1>6, <1>8 DEF PollInv

(* A view only goes back in time when its fetcher got an answer from the   *)
(* cache, and then it shows that answer, which is none of null.            *)
LEMMA StepBack ==
  ASSUME PollTypeOK, PollInv, [PollNext]_pollVars,
         NEW i \in Instances, NEW e \in Endpoints,
         shown'[i][e] < shown[i][e], i \notin cancelledRef'
  PROVE  /\ shown'[i][e] > 0
         /\ \E n \in 1..Len(loop[i].got) :
               HookOf[i].reads[n] = e /\ ~loop[i].got[n].fresh
<1>1. shown \in [Instances -> [Endpoints -> Nat]] /\ shown[i][e] \in Nat
  BY DEF PollTypeOK
<1>2. shown'[i] # shown[i]
  BY <1>1
<1>3. PICK j \in Instances : Deliver(j) \/ Unmount(j)
  BY <1>2, PollStep
<1>4. j = i
  BY <1>1, <1>2, <1>3 DEF Deliver, Unmount
<1>5. Deliver(i)
  BY <1>3, <1>4 DEF Unmount
<1> DEFINE s == ShownAfter(i, loop[i].got)
<1>6. shown'[i] = s
  BY <1>1, <1>2, <1>5 DEF Deliver
<1>7. PICK n \in 1..Len(loop[i].got) :
         HookOf[i].reads[n] = e /\ s[e] = loop[i].got[n].v
  <2>1. s \in [Endpoints -> Nat]
        /\ (\/ s[e] = shown[i][e]
            \/ \E n \in 1..Len(loop[i].got) :
                  HookOf[i].reads[n] = e /\ s[e] = loop[i].got[n].v)
    BY ShownAnswer
  <2> HIDE DEF s
  <2>2. s[e] # shown[i][e]
    BY <1>1, <1>6, <2>1
  <2> QED
    BY <2>1, <2>2
<1> HIDE DEF s
<1> DEFINE a == loop[i].got[n]
<1>8. Good(i, e, a) /\ a \in Answers
  BY <1>7, GotInTurn DEF PollInv, GotGood
<1> HIDE DEF a
<1>9. a.v = shown'[i][e] /\ a.v \in Nat
  BY <1>6, <1>7, <1>8 DEF a, Answers
<1>10. a.v > 0 /\ ~a.fresh
  BY <1>1, <1>8, <1>9 DEF Good
<1> QED
  BY <1>7, <1>9, <1>10 DEF a

(* For any views, endpoints and numbers of versions: whatever the other    *)
(* views fetch meanwhile, what a view shows is never replaced by an older  *)
(* answer, unless fetchApi fell back on the cache, and then it still shows *)
(* an answer and not a blank (useMockLiveData.ts:26-148).                  *)
THEOREM NoOlderAnswer == PollSpec => [](PollTypeOK /\ PollInv) /\ NoStepBack
<1> DEFINE I == PollTypeOK /\ PollInv
           A == \A i \in Instances, e \in Endpoints :
                   shown'[i][e] < shown[i][e] /\ i \notin cancelledRef' =>
                      /\ shown'[i][e] > 0
                      /\ \E n \in 1..Len(loop[i].got) :
                            HookOf[i].reads[n] = e /\ ~loop[i].got[n].fresh
<1>1. PollInit => I
  BY PollStart
<1>2. I /\ [PollNext]_pollVars => I'
  BY PollStep
<1>3. I /\ [PollNext]_pollVars => [A]_pollVars
  BY StepBack
<1> HIDE DEF I, A
<1>4. PollInit /\ [][PollNext]_pollVars => []I /\ [][A]_pollVars
  BY <1>1, <1>2, <1>3, PTL
<1> QED
  BY <1>4 DEF PollSpec, NoStepBack, I, A

=============================================================================
