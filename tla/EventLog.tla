------------------------------ MODULE EventLog ------------------------------
(***************************************************************************)
(* What the event stream promises its clients: events are numbered in the  *)
(* order they are published, and a client that opened the stream is given, *)
(* from a point fixed when it opened, every later event, once and in       *)
(* order, until it is dropped.  EventStream implements it.                 *)
(***************************************************************************)
EXTENDS Integers, Sequences

CONSTANT Conns                \* connections

VARIABLES
  nextId,                     \* the number of the next event
  given,                      \* the events each connection has been given
  first,                      \* the first event owed to each connection
  live                        \* connections that are open

vars == <<nextId, given, first, live>>

Init ==
  /\ nextId = 1
  /\ given = [c \in Conns |-> <<>>]
  /\ first = [c \in Conns |-> 1]
  /\ live = {}

Publish == nextId' = nextId + 1 /\ UNCHANGED <<given, first, live>>

Open(c) ==
  /\ c \notin live /\ given[c] = <<>>
  /\ live' = live \union {c}
  /\ \E k \in 1..nextId : first' = [first EXCEPT ![c] = k]
  /\ UNCHANGED <<nextId, given>>

\* The next k events owed to c.
Give(c, k) ==
  /\ c \in live
  /\ LET from == first[c] + Len(given[c]) IN
       /\ from + k <= nextId
       /\ given' = [given EXCEPT ![c] = @ \o [i \in 1..k |-> from + i - 1]]
  /\ UNCHANGED <<nextId, first, live>>

Drop(c) == live' = live \ {c} /\ UNCHANGED <<nextId, given, first>>

\* A restart of the publisher: every connection is lost and numbering starts
\* again.
Restart == nextId' = 1 /\ live' = {} /\ UNCHANGED <<given, first>>

Next ==
  \/ Publish \/ Restart
  \/ \E c \in Conns : Open(c) \/ Drop(c) \/ \E k \in 1..(nextId - 1) : Give(c, k)

Spec == Init /\ [][Next]_vars

=============================================================================
