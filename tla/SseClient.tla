----------------------------- MODULE SseClient -----------------------------
(***************************************************************************)
(* useSSEAlerts (useSSE.ts): the hook that listens to /api/stream with an  *)
(* EventSource, and connects again when the stream breaks.  No page mounts *)
(* it yet (useMockLiveData.ts re-exports it "for components that want      *)
(* real-time push").                                                       *)
(*                                                                         *)
(* A connection is one call of connect() with the EventSource it makes.    *)
(* Between the two lies an await, during which the hook may be unmounted   *)
(* or told to reconnect.  The model has one instance of the hook, mounted  *)
(* once.  The backend serves one stream at                                 *)
(* a time (EventStream) and never learns a Last-Event-ID, as each          *)
(* EventSource is new: it sends its whole ring first.  Time is not counted,*)
(* so the delay of a reconnect is any delay.                               *)
(***************************************************************************)
EXTENDS Integers, FiniteSets

CONSTANTS
    MaxConns,      \* bound on the connections there are at once
    MaxEvents,     \* bound on the events pushed
    RingSize,      \* events the backend's ring holds (200)
    MaxReconnects  \* bound on the calls of reconnect()

ASSUME SseAssumption ==
    {MaxConns, MaxEvents, RingSize, MaxReconnects} \subseteq Nat

Conns == 1..MaxConns
Events == 1..MaxEvents
None == 0

VARIABLES
    up,                \* the backend is up
    pushed,            \* how many events the backend has pushed
    stream,            \* the connection whose stream the backend serves
    mountedRef,        \* the hook is mounted
    gone,              \* the hook was unmounted
    reconnects,        \* how often reconnect() was called
    status,            \* "connecting", "connected" or "disconnected"
    eventSourceRef,    \* the connection the hook would close
    reconnectTimeoutRef, \* the timer the hook would clear
    timers,            \* the timers running, by the connection that failed
    es,                \* the connections: "none", "resolving", "connecting",
                       \* or "open"; a closed one is "none" again
    sent,              \* the last event sent on each connection
    listed             \* the events the hook listed

server == <<up, pushed, stream>>
calls == <<mountedRef, gone, reconnects>>
refs == <<eventSourceRef, reconnectTimeoutRef, timers>>
hookVars == <<server, calls, status, refs, es, sent, listed>>

Free == {c \in Conns : es[c] = "none"}
Live(c) == es[c] \in {"connecting", "open"}

HookInit ==
    /\ up \in BOOLEAN /\ pushed = 0 /\ stream = None
    /\ mountedRef = FALSE /\ gone = FALSE /\ reconnects = 0
    /\ status = "connecting"
    /\ eventSourceRef = None /\ reconnectTimeoutRef = None /\ timers = {}
    /\ es = [c \in Conns |-> "none"]
    /\ sent = [c \in Conns |-> 0]
    /\ listed = {}

(***************************************************************************)
(* connect, reconnect, and the effect that mounts and unmounts.            *)
(***************************************************************************)
(* connect() up to its await: the current EventSource is closed.  It is a  *)
(* step of another action, which says what becomes of the timers.          *)
connect ==
    \E c \in Free \ timers :
        /\ \A d \in Free \ timers : c <= d
        /\ es' = [d \in Conns |-> IF d = c THEN "resolving"
                                  ELSE IF d = eventSourceRef THEN "none" ELSE es[d]]
        /\ stream' = IF stream = eventSourceRef THEN None ELSE stream
        /\ eventSourceRef' = None
        /\ status' = "connecting"

(* The await ends.  Whether the hook is still mounted, and whether another *)
(* connect() ran meanwhile, is not looked at.                              *)
BaseResolved(c) ==
    /\ es[c] = "resolving"
    /\ es' = [es EXCEPT ![c] = "connecting"]
    /\ eventSourceRef' = c
    /\ UNCHANGED <<server, calls, status, reconnectTimeoutRef, timers, sent, listed>>

MountHook ==
    /\ ~mountedRef /\ ~gone
    /\ mountedRef' = TRUE
    /\ connect
    /\ UNCHANGED <<up, pushed, gone, reconnects, reconnectTimeoutRef, timers, sent, listed>>

(* The clean-up. *)
UnmountHook ==
    /\ mountedRef
    /\ mountedRef' = FALSE
    /\ gone' = TRUE
    /\ es' = [c \in Conns |-> IF c = eventSourceRef THEN "none" ELSE es[c]]
    /\ stream' = IF stream = eventSourceRef THEN None ELSE stream
    /\ timers' = timers \ {reconnectTimeoutRef}
    /\ UNCHANGED <<up, pushed, reconnects, status, eventSourceRef,
                   reconnectTimeoutRef, sent, listed>>

reconnect ==
    /\ mountedRef /\ reconnects < MaxReconnects
    /\ reconnects' = reconnects + 1
    /\ timers' = timers \ {reconnectTimeoutRef}
    /\ connect
    /\ UNCHANGED <<up, pushed, mountedRef, gone, reconnectTimeoutRef, sent, listed>>

(* A timer of onerror: connect() returns at once when unmounted. *)
ReconnectTimer(c) ==
    /\ c \in timers
    /\ timers' = timers \ {c}
    /\ IF mountedRef THEN connect ELSE UNCHANGED <<es, stream, eventSourceRef, status>>
    /\ UNCHANGED <<up, pushed, calls, reconnectTimeoutRef, sent, listed>>

(***************************************************************************)
(* The EventSource and its handlers.                                       *)
(***************************************************************************)
(* Mutant: a new stream is sent only what is pushed from then on. *)
OpensAtEnd(c) ==
    /\ es[c] = "connecting" /\ up /\ stream = None
    /\ stream' = c
    /\ es' = [es EXCEPT ![c] = "open"]
    /\ sent' = [sent EXCEPT ![c] = pushed]
    /\ status' = IF mountedRef THEN "connected" ELSE status
    /\ UNCHANGED <<up, pushed, calls, refs, listed>>

(* The backend takes the request up when it serves no other stream.  An    *)
(* EventSource that onerror has not closed asks again by itself.           *)
Opens(c) ==
    /\ es[c] = "connecting" /\ up /\ stream = None
    /\ stream' = c
    /\ es' = [es EXCEPT ![c] = "open"]
    /\ sent' = [sent EXCEPT ![c] = IF pushed > RingSize THEN pushed - RingSize ELSE 0]
    /\ status' = IF mountedRef THEN "connected" ELSE status
    /\ UNCHANGED <<up, pushed, calls, refs, listed>>

(* The next event, of the ring or new, arrives and is listed.  The ids of  *)
(* the list are random, so an event sent again is listed again.            *)
EventArrives(c) ==
    /\ es[c] = "open" /\ stream = c /\ sent[c] < pushed
    /\ sent' = [sent EXCEPT ![c] = @ + 1]
    /\ listed' = IF mountedRef THEN listed \cup {sent[c] + 1} ELSE listed
    /\ UNCHANGED <<server, calls, status, refs, es>>

(* Mutant: onerror does not close the EventSource. *)
OnErrorLeavesOpen(c) ==
    /\ Live(c) /\ ~up
    /\ stream' = IF stream = c THEN None ELSE stream
    /\ IF mountedRef
       THEN /\ status' = "disconnected"
            /\ es' = [es EXCEPT ![c] = "connecting"]
            /\ eventSourceRef' = None
            /\ timers' = timers \cup {c}
            /\ reconnectTimeoutRef' = c
       ELSE /\ es' = [es EXCEPT ![c] = "connecting"]
            /\ UNCHANGED <<status, refs>>
    /\ UNCHANGED <<up, pushed, calls, sent, listed>>

(* onerror.  Unmounted, it leaves the EventSource to the browser, which    *)
(* connects it again; mounted, it closes it and sets a timer, forgetting   *)
(* whichever connection and timer the refs held.                           *)
OnError(c) ==
    /\ Live(c) /\ ~up
    /\ stream' = IF stream = c THEN None ELSE stream
    /\ IF mountedRef
       THEN /\ status' = "disconnected"
            /\ es' = [es EXCEPT ![c] = "none"]
            /\ eventSourceRef' = None
            /\ timers' = timers \cup {c}
            /\ reconnectTimeoutRef' = c
       ELSE /\ es' = [es EXCEPT ![c] = "connecting"]
            /\ UNCHANGED <<status, refs>>
    /\ UNCHANGED <<up, pushed, calls, sent, listed>>

(***************************************************************************)
(* The backend.                                                            *)
(***************************************************************************)
Push ==
    /\ up /\ pushed < MaxEvents
    /\ pushed' = pushed + 1
    /\ UNCHANGED <<up, stream, calls, status, refs, es, sent, listed>>

(* The network to the backend breaks, or comes back. *)
UpChanges ==
    /\ up' = ~up
    /\ UNCHANGED <<pushed, stream, calls, status, refs, es, sent, listed>>

(***************************************************************************)
(* The specification.                                                      *)
(***************************************************************************)
ConnStep(c) ==
    \/ BaseResolved(c) \/ ReconnectTimer(c) \/ Opens(c) \/ EventArrives(c) \/ OnError(c)

HookNext ==
    \/ MountHook \/ UnmountHook \/ reconnect \/ Push \/ UpChanges
    \/ \E c \in Conns : ConnStep(c)

(* A request ends, a timer fires, and a stream the backend serves is read. *)
HookSpec == HookInit /\ [][HookNext]_hookVars /\ \A c \in Conns : WF_hookVars(ConnStep(c))

(***************************************************************************)
(* Properties.                                                             *)
(***************************************************************************)
(* Until it is unmounted, and if nobody calls reconnect(), the hook has    *)
(* one thing under way and never two: a connect() at its await, a stream,  *)
(* or a timer that will connect; and a stream is the one the clean-up will *)
(* close.  So no event comes on two streams, and no failure is the last.   *)
OneListener ==
    mountedRef /\ reconnects = 0 =>
        /\ Cardinality(Conns \ Free) + Cardinality(timers) = 1
        /\ \A c \in Conns : Live(c) => eventSourceRef = c

(* Even with calls of reconnect() at any time: once the network stays up,  *)
(* a hook that stays mounted comes to list every event that the ring still *)
(* holds, although it never tells the backend the last id it saw.          *)
EventsReachList ==
    <>[](mountedRef /\ up)
    => <>[](\A e \in Events : pushed - RingSize < e /\ e <= pushed => e \in listed)

=============================================================================
