---------------------------- MODULE EventStream ----------------------------
(***************************************************************************)
(* The SSE half of the backend: SseBroadcaster (sse.rs) with its ring of   *)
(* recent events, the /api/stream handler and ChannelReader                *)
(* (api_server.rs).  An event is its id.                                   *)
(*                                                                         *)
(* A connection passes through four places: the broadcaster appends to the *)
(* inbox (an unbounded channel) of each subscriber; a worker thread moves  *)
(* its messages to the pipe (a bounded channel); the API thread, which     *)
(* stays inside respond() for the whole life of the stream, reads the pipe *)
(* through ChannelReader; and writes what it reads to the socket.          *)
(***************************************************************************)
EXTENDS Integers, Sequences, FiniteSets, SequencesExt

CONSTANTS
  Conns,       \* connections to /api/stream; each is made once
  Nobody,      \* the API thread is not inside respond()
  MAX_EVENTS,  \* size of the ring (200 in sse.rs)
  PipeSize,    \* capacity of the worker's sync_channel (64)
  MaxId,       \* bound: events pushed between two restarts
  MaxRestarts  \* bound: restarts

ASSUME ConnsAssumption == Nobody \notin Conns
ASSUME SizeAssumption ==
  MAX_EVENTS \in Nat \ {0} /\ PipeSize \in Nat \ {0} /\ MaxId \in Nat /\ MaxRestarts \in Nat

VARIABLES
  nextId,      \* SseBroadcaster.next_id
  events,      \* SseBroadcaster.events: the ring, oldest first
  subscribers, \* SseBroadcaster.subscribers
  api,         \* the connection the API thread is serving, or Nobody
  client,      \* "new", "open" or "left": the client's end of each connection
  worker,      \* where the worker thread of each connection is
  catchUp,     \* the worker's catch-up chunk, until it is sent
  inbox,       \* messages of the broadcaster the worker has not taken
  pipe,        \* chunks the worker sent and the reader has not taken
  buffer,      \* ChannelReader.buffer: the unread rest of a chunk
  written,     \* events written to the socket
  start,       \* history: the first event owed to the connection
  restarts

ringVars == <<nextId, events, subscribers>>
connVars == <<api, client, worker, catchUp, inbox, pipe, buffer, written, start>>
vars == <<ringVars, connVars, restarts>>

----------------------------------------------------------------------------
\* The worker's loop is "loop"; before it come the two first sends.
WorkerAlive(c) == worker[c] \in {"catchup", "hello", "loop"}

\* The "connected" message and keepalives carry no event.
NoEvent == <<>>

\* Mutant of Since: the last event the client saw is sent again.
SinceInclusive(last) == SelectSeq(events, LAMBDA id : id >= last)

\* events_since, which catch_up_since puts in one chunk: one pass over the
\* ring, oldest first, that collects the events after last.
Since(last) ==
  LET collected[i \in 0..Len(events)] ==
        IF i = 0 THEN <<>>
        ELSE IF events[i] > last THEN Append(collected[i - 1], events[i])
                                 ELSE collected[i - 1]
  IN  collected[Len(events)]

\* Everything the connection has been or will be given.
Delivery(c) == written[c] \o buffer[c] \o FlattenSeq(pipe[c]) \o catchUp[c] \o inbox[c]

Consecutive(ids) == \A i \in 1..(Len(ids) - 1) : ids[i + 1] = ids[i] + 1

Init ==
  /\ nextId = 1 /\ events = <<>> /\ subscribers = {}
  /\ api = Nobody
  /\ client = [c \in Conns |-> "new"]
  /\ worker = [c \in Conns |-> "none"]
  /\ catchUp = [c \in Conns |-> <<>>]
  /\ inbox = [c \in Conns |-> <<>>]
  /\ pipe = [c \in Conns |-> <<>>]
  /\ buffer = [c \in Conns |-> <<>>]
  /\ written = [c \in Conns |-> <<>>]
  /\ start = [c \in Conns |-> 1]
  /\ restarts = 0

----------------------------------------------------------------------------
Kept(ids) == IF Len(ids) > MAX_EVENTS THEN Tail(ids) ELSE ids

\* Mutant of Push: the oldest event is never dropped.
PushKeepingAll ==
  /\ nextId <= MaxId
  /\ nextId' = nextId + 1
  /\ subscribers' = {c \in subscribers : WorkerAlive(c)}
  /\ inbox' = [c \in Conns |-> IF c \in subscribers /\ WorkerAlive(c)
                                 THEN Append(inbox[c], nextId) ELSE inbox[c]]
  /\ events' = Append(events, nextId)
  /\ UNCHANGED <<api, client, worker, catchUp, pipe, buffer, written, start, restarts>>

\* push, under the broadcaster mutex: number the event, send it to every
\* subscriber, forget the subscribers whose receiver is gone, keep the last
\* MAX_EVENTS.
Push ==
  /\ nextId <= MaxId
  /\ nextId' = nextId + 1
  /\ subscribers' = {c \in subscribers : WorkerAlive(c)}
  /\ inbox' = [c \in Conns |-> IF c \in subscribers' THEN Append(inbox[c], nextId)
                                                      ELSE inbox[c]]
  /\ events' = Kept(Append(events, nextId))
  /\ UNCHANGED <<api, client, worker, catchUp, pipe, buffer, written, start, restarts>>

----------------------------------------------------------------------------
\* Mutant of Accept: the mutex is given back between catch-up and subscribe.
AcceptInTwoSteps(c, last) ==
  \/ /\ api = Nobody /\ client[c] = "new"
     /\ api' = c
     /\ client' = [client EXCEPT ![c] = "open"]
     /\ catchUp' = [catchUp EXCEPT ![c] = Since(last)]
     /\ start' = [start EXCEPT ![c] = IF Since(last) = <<>> THEN nextId
                                                            ELSE Head(Since(last))]
     /\ UNCHANGED <<ringVars, worker, inbox, pipe, buffer, written, restarts>>
  \/ /\ api = c /\ worker[c] = "none"
     /\ subscribers' = subscribers \union {c}
     /\ worker' = [worker EXCEPT ![c] = "catchup"]
     /\ UNCHANGED <<nextId, events, api, client, catchUp, inbox, pipe, buffer,
                    written, start, restarts>>

\* GET /api/stream: with the broadcaster mutex held, collect the events after
\* Last-Event-ID (0 without the header) and subscribe; then spawn the worker
\* and stay inside respond().
Accept(c, last) ==
  /\ api = Nobody /\ client[c] = "new"
  /\ api' = c
  /\ client' = [client EXCEPT ![c] = "open"]
  /\ catchUp' = [catchUp EXCEPT ![c] = Since(last)]
  /\ start' = [start EXCEPT ![c] = IF Since(last) = <<>> THEN nextId
                                                         ELSE Head(Since(last))]
  /\ subscribers' = subscribers \union {c}
  /\ worker' = [worker EXCEPT ![c] = "catchup"]
  /\ UNCHANGED <<nextId, events, inbox, pipe, buffer, written, restarts>>

\* writer_tx.send: blocks while the pipe is full and the reader is there.
Send(c, chunk) ==
  /\ api = c
  /\ Len(pipe[c]) < PipeSize
  /\ pipe' = [pipe EXCEPT ![c] = Append(@, chunk)]

\* A send fails because the reader was dropped (a blocked one too): the
\* thread ends and drops its receiver.  This is the only way for a worker to
\* learn that its connection is gone.
SendFails(c) ==
  /\ api # c
  /\ worker' = [worker EXCEPT ![c] = "done"]
  /\ catchUp' = [catchUp EXCEPT ![c] = <<>>]
  /\ inbox' = [inbox EXCEPT ![c] = <<>>]
  /\ UNCHANGED pipe

SendCatchUp(c) ==
  /\ worker[c] = "catchup"
  /\ \/ /\ \/ catchUp[c] # <<>> /\ Send(c, catchUp[c])
           \/ catchUp[c] = <<>> /\ pipe' = pipe
        /\ catchUp' = [catchUp EXCEPT ![c] = <<>>]
        /\ worker' = [worker EXCEPT ![c] = "hello"]
        /\ UNCHANGED inbox
     \/ catchUp[c] # <<>> /\ SendFails(c)
  /\ UNCHANGED <<ringVars, api, client, buffer, written, start, restarts>>

SendConnected(c) ==
  /\ worker[c] = "hello"
  /\ \/ /\ Send(c, NoEvent)
        /\ worker' = [worker EXCEPT ![c] = "loop"]
        /\ UNCHANGED <<catchUp, inbox>>
     \/ SendFails(c)
  /\ UNCHANGED <<ringVars, api, client, buffer, written, start, restarts>>

\* The loop: recv_timeout gave a message.
Forward(c) ==
  /\ worker[c] = "loop" /\ inbox[c] # <<>>
  /\ \/ /\ Send(c, <<Head(inbox[c])>>)
        /\ inbox' = [inbox EXCEPT ![c] = Tail(@)]
        /\ UNCHANGED <<worker, catchUp>>
     \/ SendFails(c)
  /\ UNCHANGED <<ringVars, api, client, buffer, written, start, restarts>>

\* Mutants of Keepalive: a timeout is waited out in silence; a keepalive is
\* sent, but the thread does not mind that it fails.
KeepSilent(c) ==
  /\ worker[c] = "loop" /\ inbox[c] = <<>>
  /\ UNCHANGED vars

KeepTrying(c) ==
  /\ worker[c] = "loop" /\ inbox[c] = <<>>
  /\ Send(c, NoEvent) \/ (api # c /\ UNCHANGED pipe)
  /\ UNCHANGED <<ringVars, api, client, worker, catchUp, inbox, buffer, written,
                 start, restarts>>

\* The loop: 15 seconds without a message.
Keepalive(c) ==
  /\ worker[c] = "loop" /\ inbox[c] = <<>>
  /\ \/ Send(c, NoEvent) /\ UNCHANGED <<worker, catchUp, inbox>>
     \/ SendFails(c)
  /\ UNCHANGED <<ringVars, api, client, buffer, written, start, restarts>>

----------------------------------------------------------------------------
\* One ChannelReader::read and the write of what it returned: the next k
\* events of the buffer, or else of the next chunk, whose rest is kept.
Available(c) == IF buffer[c] # <<>> THEN buffer[c] ELSE Head(pipe[c])
CanRead(c) == api = c /\ (buffer[c] # <<>> \/ pipe[c] # <<>>)
TakeChunk(c) == IF buffer[c] # <<>> THEN pipe' = pipe
                                    ELSE pipe' = [pipe EXCEPT ![c] = Tail(@)]

\* Mutant of Read: the rest of a chunk that did not fit is dropped.
ReadDroppingRest(c, k) ==
  /\ CanRead(c) /\ client[c] = "open"
  /\ k <= Len(Available(c)) /\ (k = 0 => Available(c) = NoEvent)
  /\ TakeChunk(c)
  /\ written' = [written EXCEPT ![c] = @ \o SubSeq(Available(c), 1, k)]
  /\ buffer' = [buffer EXCEPT ![c] = <<>>]
  /\ UNCHANGED <<ringVars, api, client, worker, catchUp, inbox, start, restarts>>

Read(c, k) ==
  /\ CanRead(c) /\ client[c] = "open"
  /\ k <= Len(Available(c)) /\ (k = 0 => Available(c) = NoEvent)
  /\ TakeChunk(c)
  /\ written' = [written EXCEPT ![c] = @ \o SubSeq(Available(c), 1, k)]
  /\ buffer' = [buffer EXCEPT ![c] = SubSeq(Available(c), k + 1, Len(Available(c)))]
  /\ UNCHANGED <<ringVars, api, client, worker, catchUp, inbox, start, restarts>>

\* The write failed: respond() returns and drops the reader with its channel.
\* Until something is written the API thread does not notice that the client
\* left.
RespondFails(c) ==
  /\ CanRead(c) /\ client[c] = "left"
  /\ api' = Nobody
  /\ pipe' = [pipe EXCEPT ![c] = <<>>]
  /\ buffer' = [buffer EXCEPT ![c] = <<>>]
  /\ UNCHANGED <<ringVars, client, worker, catchUp, inbox, written, start, restarts>>

ClientLeaves(c) ==
  /\ client[c] = "open"
  /\ client' = [client EXCEPT ![c] = "left"]
  /\ UNCHANGED <<ringVars, api, worker, catchUp, inbox, pipe, buffer, written,
                 start, restarts>>

\* The process is killed and started again: the broadcaster starts empty and
\* numbers from 1.
Restart ==
  /\ restarts < MaxRestarts
  /\ restarts' = restarts + 1
  /\ nextId' = 1 /\ events' = <<>> /\ subscribers' = {}
  /\ api' = Nobody
  /\ client' = [c \in Conns |-> IF client[c] = "new" THEN "new" ELSE "left"]
  /\ worker' = [c \in Conns |-> IF worker[c] = "none" THEN "none" ELSE "done"]
  /\ catchUp' = [c \in Conns |-> <<>>]
  /\ inbox' = [c \in Conns |-> <<>>]
  /\ pipe' = [c \in Conns |-> <<>>]
  /\ buffer' = [c \in Conns |-> <<>>]
  /\ UNCHANGED <<written, start>>

WorkerStep(c) == SendCatchUp(c) \/ SendConnected(c) \/ Forward(c) \/ Keepalive(c)
ReadStep(c) == RespondFails(c) \/ \E k \in 0..MAX_EVENTS : Read(c, k)

Next ==
  \/ Push
  \/ \E c \in Conns : \/ \E last \in 0..MaxId : Accept(c, last)
                      \/ WorkerStep(c) \/ ReadStep(c) \/ ClientLeaves(c)
  \/ Restart

Spec == Init /\ [][Next]_vars

\* Worker threads and the API thread keep running, and the 15-second timeout
\* of recv_timeout expires.  Nothing makes events or clients come or go.
FairSpec == Spec /\ \A c \in Conns : WF_vars(WorkerStep(c)) /\ WF_vars(ReadStep(c))

----------------------------------------------------------------------------
Ids == Seq(Nat)
RingTypeOK ==
  /\ nextId \in Nat \ {0} /\ events \in Ids /\ subscribers \subseteq Conns
  /\ restarts \in Nat
ConnTypeOK ==
  /\ api \in Conns \union {Nobody}
  /\ client \in [Conns -> {"new", "open", "left"}]
  /\ worker \in [Conns -> {"none", "catchup", "hello", "loop", "done"}]
  /\ start \in [Conns -> Nat]
QueueTypeOK ==
  /\ catchUp \in [Conns -> Ids] /\ inbox \in [Conns -> Ids]
  /\ pipe \in [Conns -> Seq(Ids)]
  /\ buffer \in [Conns -> Ids] /\ written \in [Conns -> Ids]
\* A connection that was not accepted has no worker, and every worker that has
\* not ended is subscribed.
ThreadsMatch ==
  /\ \A c \in Conns : client[c] = "new" <=> worker[c] = "none"
  /\ \A c \in Conns : WorkerAlive(c) => c \in subscribers
  /\ \A c \in Conns : api = c => WorkerAlive(c)
TypeOK == RingTypeOK /\ ConnTypeOK /\ QueueTypeOK /\ ThreadsMatch

(***************************************************************************)
(* The ring holds exactly the last MAX_EVENTS events, in order, so that    *)
(* catch-up after an outage of at most MAX_EVENTS events is complete       *)
(* (sse.rs:45-48, 61-66).                                                  *)
(***************************************************************************)
RingIsRecent ==
  /\ Len(events) = IF nextId - 1 < MAX_EVENTS THEN nextId - 1 ELSE MAX_EVENTS
  /\ \A i \in DOMAIN events : events[i] = nextId - 1 - Len(events) + i

(***************************************************************************)
(* As long as the API thread serves a connection, what it wrote, what is   *)
(* under way in the reader, the pipe and the worker, and what waits in the *)
(* inbox are together every event from the connection's first to the       *)
(* newest, once and in order: nothing falls between catch-up and           *)
(* subscription, or is pushed ahead of the catch-up, although push runs in *)
(* other threads all the while (sse.rs:43, api_server.rs:228-262).         *)
(***************************************************************************)
NothingFallsBetween ==
  \A c \in Conns : api = c =>
    /\ Consecutive(Delivery(c))
    /\ Len(Delivery(c)) = nextId - start[c]
    /\ Delivery(c) # <<>> => Head(Delivery(c)) = start[c]

\* The events from one id up to, but not including, another, in order.
EventsFrom(from, to) == [i \in 1..(to - from) |-> from + i - 1]

\* Why: a connection that was not accepted holds nothing, the worker sends
\* the catch-up before anything else, and every step keeps the order of what
\* is under way.
NewIsEmpty == \A c \in Conns : client[c] = "new" =>
  written[c] = <<>> /\ buffer[c] = <<>> /\ pipe[c] = <<>> /\ inbox[c] = <<>>
CatchUpFirst == \A c \in Conns : worker[c] # "catchup" => catchUp[c] = <<>>
ServedInFull == \A c \in Conns : api = c =>
  start[c] \in 1..nextId /\ Delivery(c) = EventsFrom(start[c], nextId)
DeliveryInv == NewIsEmpty /\ CatchUpFirst /\ ServedInFull

(***************************************************************************)
(* A client that comes back with the last id it saw is owed exactly what   *)
(* came after it, as far as the ring still reaches; an id of the future,   *)
(* which a client brings from before a restart, is owed only what is yet   *)
(* to come (sse.rs:61-66, api_server.rs:223-233).                          *)
(***************************************************************************)
Oldest == IF nextId > MAX_EVENTS THEN nextId - MAX_EVENTS ELSE 1
ResumePoint(last) ==
  IF last >= nextId THEN nextId ELSE IF last >= Oldest THEN last + 1 ELSE Oldest
ResumeIsExact ==
  [][\A c \in Conns, last \in 0..MaxId : Accept(c, last) => start'[c] = ResumePoint(last)]_vars

(***************************************************************************)
(* The API thread, the only one that answers requests, gets out of         *)
(* respond() after the client of a stream left, even if no event is ever   *)
(* pushed again (api_server.rs:254-257).                                   *)
(***************************************************************************)
StreamIsGivenUp == \A c \in Conns : (api = c /\ client[c] = "left") ~> (api # c)

(***************************************************************************)
(* The worker thread of a connection ends once the API thread dropped the  *)
(* reader, wherever the worker was and although no event may ever be       *)
(* pushed again: nobody tells it, it must try to send something by itself  *)
(* to find out (api_server.rs:239-262).  No thread and no subscriber's     *)
(* queue is leaked per connection.                                         *)
(***************************************************************************)
WorkerIsReaped == \A c \in Conns : (WorkerAlive(c) /\ api # c) ~> (worker[c] = "done")

\* The stream implements the event log.
Log == INSTANCE EventLog WITH
  given <- written, first <- start,
  live <- {c \in Conns : api = c}
LogSpec == Log!Spec

============================================================================
