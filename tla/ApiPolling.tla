----------------------------- MODULE ApiPolling -----------------------------
(***************************************************************************)
(* How the dashboard's views get the backend's data (useMockLiveData.ts):  *)
(* fetchApi, with the base URL, the back-off and the response cache that   *)
(* all the views share, and useSequentialPoll, the loop every view runs:   *)
(* fetch, show, sleep, fetch again.  A view is one mounted component       *)
(* instance; several views read the same endpoints at once.                *)
(*                                                                         *)
(* An answer is the version of the endpoint's data the backend held when   *)
(* it answered.  Time is not counted: a timer fires some time after it is  *)
(* set, the 10 s back-off ends some time after it began, so the growing    *)
(* delay of a failing poll (up to 30 s) is any delay.  The build is the    *)
(* production one: React's StrictMode, which runs every effect twice on    *)
(* one instance and so starts two loops, acts in development only.         *)
(***************************************************************************)
EXTENDS Integers, Sequences

CONSTANTS
    Endpoints,   \* what is asked of the backend
    Instances,   \* the component instances that are mounted at some time
    HookOf,      \* the hook each of them uses, a member of Hooks
    Versions,    \* bound: how many versions of its data an endpoint has
    Empty        \* the <<endpoint, version>> that are an empty list

(***************************************************************************)
(* The data hooks: the endpoints a hook's fetcher awaits, in order, and    *)
(* whether it keeps what it shows when the answer is empty.                *)
(***************************************************************************)
(* The networks heard, with those that only an alert's text names. *)
useScannedNetworks == [reads |-> <<"networks", "alerts">>, keepsOnEmpty |-> TRUE]
useLiveAlerts == [reads |-> <<"alerts">>, keepsOnEmpty |-> TRUE]
useSystemStatus == [reads |-> <<"status">>, keepsOnEmpty |-> FALSE]
useTrafficHistory == [reads |-> <<"traffic">>, keepsOnEmpty |-> TRUE]

Hooks == {useScannedNetworks, useLiveAlerts, useSystemStatus, useTrafficHistory}

ASSUME PollAssumption ==
    /\ HookOf \in [Instances -> {h \in Hooks : \A n \in 1..Len(h.reads) : h.reads[n] \in Endpoints}]
    /\ Versions \in [Endpoints -> Nat \ {0}]

VARIABLES
    version,        \* the backend's data, by endpoint
    reachable,      \* the routes on which the backend answers OK
    resolvedBase,   \* "none", "relative" ('', which is falsy) or "direct"
    backingOff,     \* less than BACKOFF_MS since lastFailTime
    responseCache,  \* the last answer stored for each endpoint
    mounted,        \* the instances mounted so far
    cancelledRef,   \* the instances whose effect was cleaned up
    shown,          \* the answer each instance shows, by endpoint
    loop            \* the poll loop of each instance

polls == <<mounted, cancelledRef, shown>>
fetches == <<resolvedBase, backingOff, responseCache>>
backend == <<version, reachable>>
pollVars == <<backend, fetches, polls, loop>>

Routes == {"relative", "direct"}

(* null: what fetchApi returns when it failed and nothing is cached. *)
Null == [v |-> 0, fresh |-> FALSE]

(* A loop that does not run. *)
Off == [pc |-> "off", todo |-> <<>>, got |-> <<>>, route |-> "relative", body |-> Null]

(* What a view shows before its first answer. *)
NotShown == [e \in Endpoints |-> 0]

PollInit ==
    /\ version = [e \in Endpoints |-> 1]
    /\ reachable \in SUBSET Routes
    /\ resolvedBase = "none"
    /\ backingOff = FALSE
    /\ responseCache = [e \in Endpoints |-> Null]
    /\ mounted = {}
    /\ cancelledRef = {}
    /\ shown = [i \in Instances |-> NotShown]
    /\ loop = [i \in Instances |-> Off]

(***************************************************************************)
(* The backend, and the network to it.                                     *)
(***************************************************************************)
BackendChanges(e) ==
    /\ version[e] < Versions[e]
    /\ version' = [version EXCEPT ![e] = @ + 1]
    /\ UNCHANGED <<reachable, fetches, polls, loop>>

ReachableChanges(r) ==
    /\ reachable' = IF r \in reachable THEN reachable \ {r} ELSE reachable \cup {r}
    /\ UNCHANGED <<version, fetches, polls, loop>>

(***************************************************************************)
(* fetchApi.                                                               *)
(***************************************************************************)
Cached(e) == [responseCache[e] EXCEPT !.fresh = FALSE]

(* The call returns a: the fetcher goes on to its next endpoint. *)
Returned(l, a) ==
    [l EXCEPT !.pc = "next", !.todo = Tail(@), !.got = Append(@, a), !.body = Null]

Becomes(i, l) == loop' = [loop EXCEPT ![i] = l]

Busy(i, pcs) == loop[i].pc \in pcs

(* On entry: the cache during a back-off without a base, else a request to *)
(* the base, or to the relative URL when there is none.                    *)
CallApi(i) ==
    LET l == loop[i] IN
    /\ Busy(i, {"next"})
    /\ l.todo # <<>>
    /\ IF backingOff /\ resolvedBase # "direct"
       THEN Becomes(i, Returned(l, Cached(Head(l.todo))))
       ELSE Becomes(i, [l EXCEPT !.pc = "asked",
                           !.route = IF resolvedBase = "direct" THEN "base" ELSE "relative"])
    /\ UNCHANGED <<backend, fetches, polls>>

Target(route) == IF route = "base" THEN "direct" ELSE route

(* The status line is OK: the base is remembered, the body is awaited. *)
Responds(i) ==
    LET l == loop[i]  e == Head(l.todo) IN
    /\ Busy(i, {"asked"})
    /\ Target(l.route) \in reachable
    /\ resolvedBase' = IF l.route = "base" THEN resolvedBase ELSE l.route
    /\ Becomes(i, [l EXCEPT !.pc = "reading",
                      !.body = [v |-> version[e], fresh |-> TRUE]])
    /\ UNCHANGED <<backend, backingOff, responseCache, polls>>

(* Mutant: the base's branch does not store the answer it returns. *)
BodyReadUncached(i) ==
    LET l == loop[i] IN
    /\ Busy(i, {"reading"})
    /\ responseCache' = IF l.route = "base" THEN responseCache
                        ELSE [responseCache EXCEPT ![Head(l.todo)] = l.body]
    /\ Becomes(i, Returned(l, l.body))
    /\ UNCHANGED <<backend, resolvedBase, backingOff, polls>>

(* The body is read: it is cached under the endpoint and returned. *)
BodyRead(i) ==
    LET l == loop[i] IN
    /\ Busy(i, {"reading"})
    /\ responseCache' = [responseCache EXCEPT ![Head(l.todo)] = l.body]
    /\ Becomes(i, Returned(l, l.body))
    /\ UNCHANGED <<backend, resolvedBase, backingOff, polls>>

(* The base answered, but not with OK: it is forgotten, and the other      *)
(* routes are tried at once.                                               *)
BaseRejects(i) ==
    /\ Busy(i, {"asked"})
    /\ loop[i].route = "base"
    /\ "direct" \notin reachable
    /\ resolvedBase' = "none"
    /\ Becomes(i, [loop[i] EXCEPT !.route = "relative"])
    /\ UNCHANGED <<backend, backingOff, responseCache, polls>>

(* Mutant: a base that fails is kept. *)
RequestFailsKeepsBase(i) ==
    LET l == loop[i] IN
    /\ Busy(i, {"asked", "reading"})
    /\ Target(l.route) \notin reachable
    /\ IF l.route = "relative"
       THEN /\ Becomes(i, [l EXCEPT !.pc = "asked", !.route = "direct", !.body = Null])
            /\ UNCHANGED <<resolvedBase, backingOff>>
       ELSE /\ UNCHANGED resolvedBase
            /\ backingOff' = TRUE
            /\ Becomes(i, Returned(l, Cached(Head(l.todo))))
    /\ UNCHANGED <<backend, responseCache, polls>>

(* The request or its body fails.  The relative route gives way to the     *)
(* direct ones; after the base or the last of them every view backs off,   *)
(* and the cached answer is returned.                                      *)
RequestFails(i) ==
    LET l == loop[i] IN
    /\ Busy(i, {"asked", "reading"})
    /\ Target(l.route) \notin reachable
    /\ IF l.route = "relative"
       THEN /\ Becomes(i, [l EXCEPT !.pc = "asked", !.route = "direct", !.body = Null])
            /\ UNCHANGED <<resolvedBase, backingOff>>
       ELSE /\ resolvedBase' = IF l.route = "base" THEN "none" ELSE resolvedBase
            /\ backingOff' = TRUE
            /\ Becomes(i, Returned(l, Cached(Head(l.todo))))
    /\ UNCHANGED <<backend, responseCache, polls>>

BackoffEnds ==
    /\ backingOff
    /\ backingOff' = FALSE
    /\ UNCHANGED <<backend, resolvedBase, responseCache, polls, loop>>

(***************************************************************************)
(* useSequentialPoll.                                                      *)
(***************************************************************************)
StartPoll(i) == [Off EXCEPT !.pc = "next", !.todo = HookOf[i].reads]

(* The effect of a new instance starts its loop. *)
Mount(i) ==
    /\ i \notin mounted
    /\ mounted' = mounted \cup {i}
    /\ Becomes(i, StartPoll(i))
    /\ UNCHANGED <<backend, fetches, cancelledRef, shown>>

(* The clean-up cancels the instance and clears its timer; its state goes. *)
Unmount(i) ==
    /\ i \in mounted \ cancelledRef
    /\ cancelledRef' = cancelledRef \cup {i}
    /\ Becomes(i, IF Busy(i, {"timer"}) THEN Off ELSE loop[i])
    /\ shown' = [shown EXCEPT ![i] = NotShown]
    /\ UNCHANGED <<backend, fetches, mounted>>

(* What an instance shows once its fetcher has returned got.  A hook with  *)
(* one endpoint treats null as a failure; the one with two gets a pair,    *)
(* never null, and keeps what it shows when both parts are empty.          *)
ShownAfter(i, got) ==
    LET h == HookOf[i]
        part(e) == \E n \in 1..Len(got) : h.reads[n] = e
        answer(e) == got[CHOOSE n \in 1..Len(got) : h.reads[n] = e]
        failed == Len(got) = 1 /\ got[1].v = 0
        nothing == \A n \in 1..Len(got) : got[n].v = 0 \/ <<h.reads[n], got[n].v>> \in Empty
    IN IF failed \/ (nothing /\ h.keepsOnEmpty)
       THEN shown[i]
       ELSE [e \in Endpoints |-> IF part(e) THEN answer(e).v ELSE shown[i][e]]

(* The fetcher has returned: a cancelled loop ends here; another shows the *)
(* data and only then sets the timer of the next poll.                     *)
Deliver(i) ==
    LET l == loop[i] IN
    /\ Busy(i, {"next"})
    /\ l.todo = <<>>
    /\ IF i \in cancelledRef
       THEN Becomes(i, Off) /\ UNCHANGED shown
       ELSE /\ shown' = [shown EXCEPT ![i] = ShownAfter(i, l.got)]
            /\ Becomes(i, [Off EXCEPT !.pc = "timer"])
    /\ UNCHANGED <<backend, fetches, mounted, cancelledRef>>

TimerFires(i) ==
    /\ Busy(i, {"timer"})
    /\ Becomes(i, StartPoll(i))
    /\ UNCHANGED <<backend, fetches, polls>>

(***************************************************************************)
(* The specification.                                                      *)
(***************************************************************************)
LoopStep(i) ==
    \/ CallApi(i)
    \/ Responds(i)
    \/ BodyRead(i)
    \/ BaseRejects(i)
    \/ RequestFails(i)
    \/ Deliver(i)
    \/ TimerFires(i)

PollNext ==
    \/ \E e \in Endpoints : BackendChanges(e)
    \/ \E r \in Routes : ReachableChanges(r)
    \/ BackoffEnds
    \/ \E i \in Instances : Mount(i) \/ Unmount(i)
    \/ \E i \in Instances : LoopStep(i)

(* Timers fire, a request is answered or fails, and the back-off runs out. *)
Fairness ==
    /\ WF_pollVars(BackoffEnds)
    /\ \A i \in Instances : WF_pollVars(LoopStep(i))

PollSpec == PollInit /\ [][PollNext]_pollVars /\ Fairness

(***************************************************************************)
(* Properties.                                                             *)
(***************************************************************************)
Answers == [v : Nat, fresh : BOOLEAN]
PollLoops == [pc : {"off", "next", "asked", "reading", "timer"}, todo : Seq(Endpoints),
              got : Seq(Answers), route : Routes \cup {"base"}, body : Answers]

(* Versions are numbered from 1, 0 is no answer; an instance is cancelled  *)
(* after it was mounted.                                                   *)
PollTypeOK ==
    /\ version \in [Endpoints -> Nat \ {0}]
    /\ responseCache \in [Endpoints -> Answers]
    /\ shown \in [Instances -> [Endpoints -> Nat]]
    /\ loop \in [Instances -> PollLoops]

(* Whatever the other views fetch meanwhile, what a view shows is never    *)
(* replaced by an older answer, unless fetchApi fell back on the cache,     *)
(* and then it still shows some answer, not a blank.                       *)
NoStepBack ==
    [][\A i \in Instances, e \in Endpoints :
          shown'[i][e] < shown[i][e] /\ i \notin cancelledRef' =>
             /\ shown'[i][e] > 0
             /\ \E n \in 1..Len(loop[i].got) :
                   HookOf[i].reads[n] = e /\ ~loop[i].got[n].fresh]_pollVars

(* Why: what a view shows was answered, and cached, before.  An answer it   *)
(* gets later is at least as new unless it comes from the cache, and then  *)
(* it is not null.                                                         *)
InTurn(i) ==
    LET l == loop[i]  reads == HookOf[i].reads IN
    IF l.pc \in {"next", "asked", "reading"}
    THEN /\ Len(l.got) + Len(l.todo) = Len(reads)
         /\ \A k \in 1..Len(l.todo) : l.todo[k] = reads[Len(l.got) + k]
         /\ l.pc # "next" => l.todo # <<>>
    ELSE l.got = <<>> /\ l.todo = <<>>
Known(i) ==
    \A e \in Endpoints :
        /\ shown[i][e] <= version[e] /\ responseCache[e].v <= version[e]
        /\ shown[i][e] > 0 => responseCache[e].v > 0
Good(i, e, a) ==
    /\ a.v <= version[e] /\ (a.v > 0 => responseCache[e].v > 0)
    /\ shown[i][e] > 0 => a.v > 0
    /\ a.fresh => shown[i][e] <= a.v
GotGood(i) ==
    \A n \in 1..Len(loop[i].got) : Good(i, HookOf[i].reads[n], loop[i].got[n])
BodyGood(i) ==
    loop[i].pc = "reading" =>
        LET e == Head(loop[i].todo)  b == loop[i].body IN
        b.fresh /\ 0 < b.v /\ shown[i][e] <= b.v /\ b.v <= version[e]
PollInv == \A i \in Instances : InTurn(i) /\ Known(i) /\ GotGood(i) /\ BodyGood(i)

(* Whatever failed before, once some route to the backend stays up and the *)
(* data stays the same, a view that stays mounted comes to show it, unless *)
(* it is empty and the hook ignores empty answers.                         *)
ViewsCatchUp ==
    \A i \in Instances, r \in Routes :
       <>[](i \in mounted \ cancelledRef /\ r \in reachable)
       => <>[](\A n \in 1..Len(HookOf[i].reads) :
                  LET e == HookOf[i].reads[n] IN
                  shown[i][e] = version[e] \/ <<e, version[e]>> \in Empty)

=============================================================================
