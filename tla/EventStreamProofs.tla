------------------------- MODULE EventStreamProofs -------------------------
(***************************************************************************)
(* Theorems about EventStream, for any connections, any size of the ring   *)
(* and of the pipes, and any number of events and restarts.                *)
(***************************************************************************)
EXTENDS EventStream, TLAPS, WellFoundedInduction, SequenceTheorems

RingInv == nextId \in Nat \ {0} /\ events \in Seq(Nat) /\ RingIsRecent

\* Steps that leave the ring alone: all but Push and Restart.
LEMMA RingUntouched ==
  ASSUME NEW c \in Conns,
         \/ \E last \in 0..MaxId : Accept(c, last)
         \/ WorkerStep(c) \/ ReadStep(c) \/ ClientLeaves(c)
  PROVE  UNCHANGED <<nextId, events>>
<1>1. CASE \E last \in 0..MaxId : Accept(c, last)
  BY <1>1 DEF Accept
<1>2. CASE WorkerStep(c)
  BY <1>2 DEF WorkerStep, SendCatchUp, SendConnected, Forward, Keepalive,
              SendFails, ringVars
<1>3. CASE ReadStep(c)
  BY <1>3 DEF ReadStep, RespondFails, Read, ringVars
<1>4. CASE ClientLeaves(c)
  BY <1>4 DEF ClientLeaves, ringVars
<1> QED
  BY <1>1, <1>2, <1>3, <1>4

\* push: the new event goes to the end, and the oldest one goes when the ring
\* is full.
LEMMA PushKeepsRing ==
  ASSUME RingInv, Push
  PROVE  RingInv'
<1> DEFINE more == Append(events, nextId)
<1>1. /\ more \in Seq(Nat) /\ Len(more) = Len(events) + 1
      /\ \A i \in 1..Len(events) : more[i] = events[i]
      /\ more[Len(more)] = nextId
  BY DEF RingInv
<1>2. nextId' = nextId + 1 /\ events' = Kept(more)
  BY DEF Push
<1>3. \A i \in 1..Len(more) : more[i] = nextId - Len(more) + i
  BY <1>1 DEF RingInv, RingIsRecent
<1>6. /\ Len(events) \in Nat /\ Len(more) \in Nat /\ nextId \in Nat \ {0}
      /\ Len(events) = IF nextId - 1 < MAX_EVENTS THEN nextId - 1 ELSE MAX_EVENTS
  BY <1>1 DEF RingInv, RingIsRecent
<1> HIDE DEF more
<1>4. CASE Len(more) > MAX_EVENTS
  <2>1. events' = Tail(more)
    BY <1>2, <1>4 DEF Kept
  <2>2. /\ events' \in Seq(Nat) /\ Len(events') = Len(more) - 1
        /\ \A i \in 1..(Len(more) - 1) : events'[i] = more[i + 1]
    BY <2>1, <1>1, <1>4, SizeAssumption
  <2>3. Len(more) = MAX_EVENTS + 1 /\ nextId - 1 >= MAX_EVENTS
    BY <1>1, <1>4, SizeAssumption DEF RingInv, RingIsRecent
  <2>4. \A i \in DOMAIN events' : events'[i] = nextId' - 1 - Len(events') + i
    BY <2>2, <2>3, <1>2, <1>3, SizeAssumption DEF RingInv
  <2> QED
    BY <2>2, <2>3, <2>4, <1>2, SizeAssumption DEF RingInv, RingIsRecent
<1>5. CASE ~ (Len(more) > MAX_EVENTS)
  <2>1. events' = more
    BY <1>2, <1>5 DEF Kept
  <2>2. Len(more) = nextId /\ nextId <= MAX_EVENTS
    <3>1. Len(more) = Len(events) + 1
      BY <1>1
    <3> QED
      BY <3>1, <1>5, <1>6, SizeAssumption
  <2>3. nextId' - 1 = nextId /\ nextId' \in Nat \ {0}
    BY <1>2, <1>6
  <2>4. Len(events') = Len(more) /\ DOMAIN events' = 1..Len(more) /\ events' \in Seq(Nat)
    BY <2>1, <1>1
  <2>5. \A i \in DOMAIN events' : events'[i] = nextId' - 1 - Len(events') + i
    BY <2>1, <2>3, <2>4, <1>3
  <2>6. Len(events') = IF nextId' - 1 < MAX_EVENTS THEN nextId' - 1 ELSE MAX_EVENTS
    <3>1. Len(events') = nextId /\ nextId <= MAX_EVENTS
      BY <2>2, <2>4
    <3>2. nextId \in Nat /\ MAX_EVENTS \in Nat
      BY <1>6, SizeAssumption
    <3>3. nextId = IF nextId < MAX_EVENTS THEN nextId ELSE MAX_EVENTS
      BY <3>1, <3>2
    <3> QED
      BY <3>1, <3>3, <2>3
  <2> QED
    BY <2>3, <2>4, <2>5, <2>6 DEF RingInv, RingIsRecent
<1> QED
  BY <1>4, <1>5

(***************************************************************************)
(* The ring is always exactly the last MAX_EVENTS events, in order, so     *)
(* that a client that missed no more than that is given all of them        *)
(* (sse.rs:34-66).                                                         *)
(***************************************************************************)
LEMMA RingInvariant == Spec => []RingInv
<1>1. Init => RingInv
  BY SizeAssumption DEF Init, RingInv, RingIsRecent
<1>2. RingInv /\ [Next]_vars => RingInv'
  <2> SUFFICES ASSUME RingInv, [Next]_vars PROVE RingInv'
    OBVIOUS
  <2>1. CASE UNCHANGED <<nextId, events>>
    BY <2>1 DEF RingInv, RingIsRecent
  <2>2. CASE Push
    BY <2>2, PushKeepsRing
  <2>3. CASE Restart
    BY <2>3, SizeAssumption DEF Restart, RingInv, RingIsRecent
  <2>4. CASE UNCHANGED vars
    BY <2>4, <2>1 DEF vars, ringVars
  <2> QED
    BY <2>1, <2>2, <2>3, <2>4, RingUntouched DEF Next
<1> QED
  BY <1>1, <1>2, PTL DEF Spec

(***************************************************************************)
(* The ring holds exactly the last MAX_EVENTS events, with consecutive     *)
(* ids, for any size and through restarts (sse.rs:34-59).                  *)
(***************************************************************************)
THEOREM RingRecent == Spec => []RingIsRecent
<1>1. RingInv => RingIsRecent
  BY DEF RingInv
<1> QED
  BY <1>1, RingInvariant, PTL

(***************************************************************************)
(* Induction over the naturals as a fact about sets, and what it gives for *)
(* recursive definitions over an interval: they have a solution.           *)
(***************************************************************************)
LEMMA SetInduction ==
  ASSUME NEW T, 0 \in T, \A n \in Nat : n \in T => n + 1 \in T
  PROVE  Nat \subseteq T
<1> SUFFICES ASSUME Nat \ T # {} PROVE FALSE
  OBVIOUS
<1> DEFINE R == OpToRel(<, Nat)
<1>1. IsWellFoundedOn(R, Nat)
  BY NatLessThanWellFounded
<1>2. Nat \ T \subseteq Nat
  OBVIOUS
<1> HIDE DEF R
<1>3. PICK x \in Nat \ T : \A y \in Nat \ T : ~ (<<y, x>> \in R)
  BY <1>1, <1>2, WFMin
<1>4. x # 0 /\ x - 1 \in Nat
  OBVIOUS
<1>5. <<x - 1, x>> \in R
  BY <1>4 DEF R, OpToRel
<1>6. x - 1 \in T
  BY <1>3, <1>4, <1>5
<1> QED
  BY <1>4, <1>6

Iterates(g, S, base, D, n) ==
  /\ g \in [0..n -> S]
  /\ g[0] = base /\ \A i \in 1..n : g[i] = D[<<g[i - 1], i>>]

LEMMA IterationExists ==
  ASSUME NEW S, NEW base \in S, NEW D \in [S \X Nat -> S], NEW n \in Nat
  PROVE  \E g : Iterates(g, S, base, D, n)
<1> DEFINE Sol(m, g) == g[0] = base /\ \A i \in 1..m : g[i] = D[<<g[i - 1], i>>]
           T == {m \in Nat : \E g \in [0..m -> S] : Sol(m, g)}
<1>1. 0 \in T
  <2>1. [i \in 0..0 |-> base] \in [0..0 -> S] /\ Sol(0, [i \in 0..0 |-> base])
    OBVIOUS
  <2> QED
    BY <2>1
<1>2. ASSUME NEW m \in Nat, m \in T PROVE m + 1 \in T
  <2>1. PICK g \in [0..m -> S] : Sol(m, g)
    BY <1>2
  <2> DEFINE h == [i \in 0..(m + 1) |-> IF i = m + 1 THEN D[<<g[m], m + 1>>] ELSE g[i]]
  <2>2. D[<<g[m], m + 1>>] \in S
    OBVIOUS
  <2>3. h \in [0..(m + 1) -> S]
    BY <2>2
  <2>4. h[0] = base
    BY <2>1
  <2>5. ASSUME NEW i \in 1..(m + 1) PROVE h[i] = D[<<h[i - 1], i>>]
    <3>1. i - 1 \in 0..m /\ h[i - 1] = g[i - 1]
      OBVIOUS
    <3>2. CASE i = m + 1
      <4>1. h[m + 1] = D[<<g[m], m + 1>>] /\ i - 1 = m
        BY <3>2
      <4> HIDE DEF h
      <4> QED
        BY <3>1, <3>2, <4>1
    <3>3. CASE i # m + 1
      <4>1. i \in 1..m
        BY <3>3
      <4> QED
        BY <2>1, <3>1, <3>3, <4>1
    <3> QED
      BY <3>2, <3>3
  <2> HIDE DEF h
  <2> QED
    BY <2>3, <2>4, <2>5
<1> HIDE DEF T
<1>3. Nat \subseteq T
  BY <1>1, <1>2, SetInduction
<1> QED
  BY <1>3 DEF T, Iterates

(***************************************************************************)
(* Sequences of events as a monoid.  Concatenation has a name of its own   *)
(* here, so that the provers treat it as the operation of a monoid and     *)
(* nothing more.                                                           *)
(***************************************************************************)
Cat(s, t) == s \o t

LEMMA CatEmpty == <<>> \in Ids /\ \A s \in Ids : Cat(s, <<>>) = s /\ Cat(<<>>, s) = s
  BY ConcatEmptySeq DEF Ids, Cat

LEMMA CatClosed == \A s, t \in Ids : Cat(s, t) \in Ids
  BY DEF Ids, Cat

LEMMA ConcatIsAssociative ==
  \A s, t, u \in Seq(Nat) : (s \o t) \o u = s \o (t \o u)
  BY SMTT(30)

LEMMA CatAssociative == \A s, t, u \in Ids : Cat(Cat(s, t), u) = Cat(s, Cat(t, u))
  BY ConcatIsAssociative DEF Ids, Cat

(***************************************************************************)
(* What the chunks of a pipe hold: nothing for an empty pipe, and one more *)
(* chunk at either end adds its events at that end.                        *)
(***************************************************************************)
LEMMA FlattenSteps ==
  ASSUME NEW p \in Seq(Ids)
  PROVE  \E g \in [0..Len(p) -> Ids] :
           /\ g[0] = <<>> /\ g[Len(p)] = FlattenSeq(p)
           /\ \A i \in 1..Len(p) : g[i] = g[i - 1] \o p[i]
<1> DEFINE n == Len(p)
           D == [x \in Ids \X Nat |-> IF x[2] \in 1..n THEN x[1] \o p[x[2]] ELSE <<>>]
<1>1. n \in Nat /\ \A i \in 1..n : p[i] \in Ids
  OBVIOUS
<1>2. \A s, t \in Ids : s \o t \in Ids
  BY DEF Ids
<1>3. <<>> \in Ids
  BY DEF Ids
<1>4. D \in [Ids \X Nat -> Ids]
  BY <1>1, <1>2, <1>3
<1> HIDE DEF D, n
<1>5. PICK g \in [0..n -> Ids] : g[0] = <<>> /\ \A i \in 1..n : g[i] = D[<<g[i - 1], i>>]
  <2>1. n \in Nat
    BY <1>1
  <2>2. \E g : Iterates(g, Ids, <<>>, D, n)
    BY <1>3, <1>4, <2>1, IterationExists
  <2> QED
    BY <2>2 DEF Iterates
<1> USE DEF D, n
<1>6. \A i \in 1..n : g[i] = g[i - 1] \o p[i]
  BY <1>1, <1>5
<1>7. g[n] = FlattenSeq(p)
  <2>1. CASE n = 0
    BY <1>5, <2>1 DEF FlattenSeq
  <2>2. CASE n # 0
    <3> DEFINE Eq(f) == f = [i \in 1..n |-> IF i = 1 THEN p[i] ELSE f[i - 1] \o p[i]]
               g1 == [i \in 1..n |-> g[i]]
    <3>1. g[1] = p[1]
      <4>1. 1 \in 1..n /\ 1 - 1 = 0
        BY <1>1, <2>2
      <4>2. g[1] = <<>> \o p[1] /\ p[1] \in Ids
        BY <1>1, <1>5, <1>6, <4>1
      <4> QED
        BY <4>2, ConcatEmptySeq DEF Ids
    <3>2. Eq(g1)
      <4> HIDE DEF n, D
      <4>1. ASSUME NEW i \in 1..n
            PROVE  g[i] = IF i = 1 THEN p[i] ELSE g1[i - 1] \o p[i]
        <5>1. i # 1 => i - 1 \in 1..n
          BY <1>1
        <5>2. i # 1 => g1[i - 1] = g[i - 1]
          BY <5>1
        <5> HIDE DEF g1
        <5> QED
          BY <1>6, <3>1, <5>2
      <4>2. g1 = [i \in 1..n |-> g[i]]
        OBVIOUS
      <4> HIDE DEF g1
      <4> QED
        BY <4>1, <4>2
    <3>3. PICK f : Eq(f) /\ FlattenSeq(p) = f[n]
      BY <2>2, <3>2 DEF FlattenSeq
    <3>4. \A i \in 1..n : f[i] = IF i = 1 THEN p[i] ELSE f[i - 1] \o p[i]
      BY <3>3
    <3> HIDE DEF n, D, Eq, g1
    <3> DEFINE P(i) == i \in 1..n => f[i] = g[i]
               T == {i \in Nat : P(i)}
    <3>5. P(0)
      OBVIOUS
    <3>6. ASSUME NEW i \in Nat, P(i) PROVE P(i + 1)
      <4> SUFFICES ASSUME i + 1 \in 1..n PROVE f[i + 1] = g[i + 1]
        OBVIOUS
      <4>1. CASE i = 0
        BY <3>1, <3>4, <4>1
      <4>2. CASE i # 0
        <5>1. f[i] = g[i] /\ i + 1 # 1 /\ (i + 1) - 1 = i
          BY <1>1, <3>6, <4>2
        <5>2. f[i + 1] = f[i] \o p[i + 1]
          BY <3>4, <5>1
        <5>3. g[i + 1] = g[i] \o p[i + 1]
          BY <1>6, <5>1
        <5> QED
          BY <5>1, <5>2, <5>3
      <4> QED
        BY <4>1, <4>2
    <3> HIDE DEF P
    <3>7. 0 \in T /\ \A i \in Nat : i \in T => i + 1 \in T
      BY <3>5, <3>6
    <3>8. Nat \subseteq T
      BY <3>7, SetInduction
    <3>9. P(n)
      BY <1>1, <3>8
    <3> QED
      BY <1>1, <2>2, <3>3, <3>9 DEF P
  <2> QED
    BY <2>1, <2>2
<1> QED
  BY <1>5, <1>6, <1>7

LEMMA FlattenEmpty == FlattenSeq(<<>>) = <<>>
  BY DEF FlattenSeq

LEMMA FlattenType ==
  ASSUME NEW p \in Seq(Ids)
  PROVE  FlattenSeq(p) \in Ids
<1>1. PICK g \in [0..Len(p) -> Ids] : g[Len(p)] = FlattenSeq(p)
  BY FlattenSteps
<1>2. Len(p) \in 0..Len(p)
  OBVIOUS
<1> QED
  BY <1>1, <1>2

LEMMA FlattenAppend ==
  ASSUME NEW p \in Seq(Ids), NEW chunk \in Ids
  PROVE  FlattenSeq(Append(p, chunk)) = FlattenSeq(p) \o chunk
<1> DEFINE q == Append(p, chunk)
           n == Len(p)
<1>1. /\ q \in Seq(Ids) /\ Len(q) = n + 1 /\ n \in Nat
      /\ \A i \in 1..n : q[i] = p[i]
      /\ q[n + 1] = chunk
  OBVIOUS
<1> HIDE DEF q
<1>2. PICK g \in [0..n -> Ids] :
        /\ g[0] = <<>> /\ g[n] = FlattenSeq(p)
        /\ \A i \in 1..n : g[i] = g[i - 1] \o p[i]
  BY FlattenSteps
<1>3. PICK h \in [0..(n + 1) -> Ids] :
        /\ h[0] = <<>> /\ h[n + 1] = FlattenSeq(q)
        /\ \A i \in 1..(n + 1) : h[i] = h[i - 1] \o q[i]
  BY <1>1, FlattenSteps
<1> HIDE DEF n
<1> DEFINE T == {i \in Nat : i <= n => g[i] = h[i]}
<1>4. 0 \in T
  BY <1>2, <1>3
<1>5. ASSUME NEW i \in Nat, i \in T PROVE i + 1 \in T
  <2> SUFFICES ASSUME i + 1 <= n PROVE g[i + 1] = h[i + 1]
    OBVIOUS
  <2>1. g[i] = h[i] /\ i + 1 \in 1..n /\ i + 1 \in 1..(n + 1) /\ (i + 1) - 1 = i
    BY <1>1, <1>5
  <2>2. g[i + 1] = g[i] \o p[i + 1]
    BY <1>2, <2>1
  <2>3. h[i + 1] = h[i] \o q[i + 1]
    BY <1>3, <2>1
  <2> QED
    BY <1>1, <2>1, <2>2, <2>3
<1> HIDE DEF T
<1>6. Nat \subseteq T
  BY <1>4, <1>5, SetInduction
<1>7. g[n] = h[n]
  BY <1>1, <1>6 DEF T
<1>8. n + 1 \in 1..(n + 1) /\ (n + 1) - 1 = n
  BY <1>1
<1>9. h[n + 1] = h[n] \o chunk
  BY <1>1, <1>3, <1>8
<1> QED
  BY <1>2, <1>3, <1>7, <1>9 DEF q

LEMMA FlattenHead ==
  ASSUME NEW p \in Seq(Ids), p # <<>>
  PROVE  FlattenSeq(p) = Head(p) \o FlattenSeq(Tail(p))
<1> DEFINE q == Tail(p)
           m == Len(q)
<1>1. /\ q \in Seq(Ids) /\ Len(p) = m + 1 /\ Len(q) = m /\ m \in Nat
      /\ \A i \in 1..m : q[i] = p[i + 1] /\ q[i] \in Ids
      /\ Head(p) = p[1] /\ p[1] \in Ids
  OBVIOUS
<1> HIDE DEF q, m
<1>2. PICK g \in [0..(m + 1) -> Ids] :
        /\ g[0] = <<>> /\ g[m + 1] = FlattenSeq(p)
        /\ \A i \in 1..(m + 1) : g[i] = g[i - 1] \o p[i]
  <2>1. \E g \in [0..Len(p) -> Ids] :
          /\ g[0] = <<>> /\ g[Len(p)] = FlattenSeq(p)
          /\ \A i \in 1..Len(p) : g[i] = g[i - 1] \o p[i]
    BY FlattenSteps
  <2>2. Len(p) = m + 1
    BY <1>1
  <2> QED
    BY <2>1, <2>2
<1>3. PICK h \in [0..m -> Ids] :
        /\ h[0] = <<>> /\ h[m] = FlattenSeq(q)
        /\ \A i \in 1..m : h[i] = h[i - 1] \o q[i]
  BY <1>1, FlattenSteps
<1> DEFINE P(i) == i <= m => g[i + 1] = p[1] \o h[i]
           T == {i \in Nat : P(i)}
<1>4. P(0)
  <2>1. 1 \in 1..(m + 1) /\ 1 - 1 = 0 /\ 0 + 1 = 1
    BY <1>1
  <2>2. g[1] = <<>> \o p[1]
    BY <1>2, <2>1
  <2>3. <<>> \o p[1] = p[1] /\ p[1] \o <<>> = p[1]
    BY <1>1, ConcatEmptySeq DEF Ids
  <2>4. g[0 + 1] = p[1] \o h[0]
    BY <1>3, <2>1, <2>2, <2>3
  <2> QED
    BY <2>4
<1>5. ASSUME NEW i \in Nat, P(i) PROVE P(i + 1)
  <2> SUFFICES ASSUME i + 1 <= m PROVE g[(i + 1) + 1] = p[1] \o h[i + 1]
    OBVIOUS
  <2>1. /\ i + 1 \in 1..m /\ i + 2 \in 1..(m + 1) /\ i \in 0..m /\ i <= m
        /\ (i + 1) - 1 = i /\ (i + 2) - 1 = i + 1 /\ (i + 1) + 1 = i + 2
    BY <1>1
  <2>2. g[i + 1] = p[1] \o h[i]
    BY <1>5, <2>1
  <2>3. g[i + 2] = (p[1] \o h[i]) \o p[i + 2]
    BY <1>2, <2>1, <2>2
  <2>4. h[i + 1] = h[i] \o p[i + 2]
    <3>1. q[i + 1] = p[i + 2]
      BY <1>1, <2>1
    <3>2. h[i + 1] = h[i] \o q[i + 1]
      BY <1>3, <2>1
    <3> QED
      BY <3>1, <3>2
  <2>5. p[1] \in Seq(Nat) /\ p[i + 2] \in Seq(Nat) /\ h[i] \in Seq(Nat)
    BY <1>1, <2>1 DEF Ids
  <2>6. (p[1] \o h[i]) \o p[i + 2] = p[1] \o (h[i] \o p[i + 2])
    <3> DEFINE u == p[1]
               v == h[i]
               w == p[i + 2]
    <3>1. u \in Seq(Nat) /\ v \in Seq(Nat) /\ w \in Seq(Nat)
      BY <2>5
    <3> HIDE DEF u, v, w
    <3>2. (u \o v) \o w = u \o (v \o w)
      BY <3>1, ConcatIsAssociative
    <3> QED
      BY <3>2 DEF u, v, w
  <2> QED
    BY <2>1, <2>3, <2>4, <2>6
<1> HIDE DEF P
<1>6. 0 \in T /\ \A i \in Nat : i \in T => i + 1 \in T
  BY <1>4, <1>5
<1>7. Nat \subseteq T
  BY <1>6, SetInduction
<1>8. P(m)
  BY <1>1, <1>7
<1>9. g[m + 1] = p[1] \o h[m]
  BY <1>1, <1>8 DEF P
<1> QED
  BY <1>1, <1>2, <1>3, <1>9 DEF q

(***************************************************************************)
(* Runs of consecutive events.                                             *)
(***************************************************************************)
LEMMA EventsFromType ==
  ASSUME NEW a \in Nat, NEW b \in Nat, a <= b
  PROVE  /\ EventsFrom(a, b) \in Ids /\ Len(EventsFrom(a, b)) = b - a
         /\ \A i \in 1..(b - a) : EventsFrom(a, b)[i] = a + i - 1
<1>1. b - a \in Nat /\ \A i \in 1..(b - a) : a + i - 1 \in Nat
  OBVIOUS
<1>2. [i \in 1..(b - a) |-> a + i - 1] \in [1..(b - a) -> Nat]
  BY <1>1
<1> QED
  BY <1>1, <1>2 DEF EventsFrom, Ids

LEMMA EventsFromEmpty ==
  ASSUME NEW a \in Nat
  PROVE  EventsFrom(a, a) = <<>>
<1>1. EventsFrom(a, a) \in Ids /\ Len(EventsFrom(a, a)) = 0
  BY EventsFromType
<1> QED
  BY <1>1 DEF Ids

LEMMA EventsFromAppend ==
  ASSUME NEW a \in Nat, NEW b \in Nat, a <= b
  PROVE  Append(EventsFrom(a, b), b) = EventsFrom(a, b + 1)
<1> DEFINE s == EventsFrom(a, b)
           t == EventsFrom(a, b + 1)
<1>1. /\ s \in Seq(Nat) /\ Len(s) = b - a
      /\ \A i \in 1..(b - a) : s[i] = a + i - 1
  BY EventsFromType DEF Ids
<1>2. /\ t \in Seq(Nat) /\ Len(t) = (b - a) + 1
      /\ \A i \in 1..((b - a) + 1) : t[i] = a + i - 1
  BY EventsFromType DEF Ids
<1> HIDE DEF s, t
<1>3. /\ Append(s, b) \in Seq(Nat) /\ Len(Append(s, b)) = Len(t)
      /\ \A i \in 1..Len(Append(s, b)) : Append(s, b)[i] = t[i]
  <2>1. /\ Append(s, b) \in Seq(Nat) /\ Len(Append(s, b)) = (b - a) + 1
        /\ \A i \in 1..(b - a) : Append(s, b)[i] = s[i]
        /\ Append(s, b)[(b - a) + 1] = b
    BY <1>1, AppendProperties
  <2>2. ASSUME NEW i \in 1..((b - a) + 1) PROVE Append(s, b)[i] = a + i - 1
    <3>1. CASE i = (b - a) + 1
      BY <2>1, <3>1
    <3>2. CASE i # (b - a) + 1
      <4>1. i \in 1..(b - a)
        BY <3>2
      <4> QED
        BY <1>1, <2>1, <4>1
    <3> QED
      BY <3>1, <3>2
  <2> QED
    BY <1>2, <2>1, <2>2
<1> QED
  BY <1>2, <1>3, SeqEqual DEF s, t

(***************************************************************************)
(* events_since: of the ring, it collects exactly what a client that saw   *)
(* last is still owed.                                                     *)
(***************************************************************************)
LEMMA SinceSteps ==
  ASSUME events \in Ids, NEW last \in Nat
  PROVE  \E g :
           /\ g[0] = <<>> /\ g[Len(events)] = Since(last)
           /\ \A i \in 1..Len(events) :
                g[i] = IF events[i] > last THEN Append(g[i - 1], events[i]) ELSE g[i - 1]
<1> DEFINE n == Len(events)
           D == [x \in Ids \X Nat |->
                   IF x[2] \in 1..n /\ events[x[2]] > last
                     THEN Append(x[1], events[x[2]]) ELSE x[1]]
           Eq(f) == f = [i \in 0..n |->
                           IF i = 0 THEN <<>>
                           ELSE IF events[i] > last THEN Append(f[i - 1], events[i])
                                                    ELSE f[i - 1]]
<1>1. n \in Nat /\ (\A i \in 1..n : events[i] \in Nat) /\ <<>> \in Ids
  BY DEF Ids
<1>2. D \in [Ids \X Nat -> Ids]
  <2>1. \A v \in Ids, e \in Nat : Append(v, e) \in Ids
    BY DEF Ids
  <2> QED
    BY <1>1, <2>1
<1>3. PICK g : Iterates(g, Ids, <<>>, D, n)
  <2> HIDE DEF n, D
  <2>1. n \in Nat /\ <<>> \in Ids
    BY <1>1
  <2> QED
    BY <1>2, <2>1, IterationExists
<1>4. \A i \in 1..n :
        g[i] = IF events[i] > last THEN Append(g[i - 1], events[i]) ELSE g[i - 1]
  <2> SUFFICES ASSUME NEW i \in 1..n
               PROVE  g[i] = IF events[i] > last THEN Append(g[i - 1], events[i])
                                                 ELSE g[i - 1]
    OBVIOUS
  <2>1. g[i - 1] \in Ids /\ g[i] = D[<<g[i - 1], i>>] /\ i \in Nat
    <3> HIDE DEF n, D
    <3>1. i - 1 \in 0..n
      BY <1>1
    <3> QED
      BY <1>1, <1>3, <3>1 DEF Iterates
  <2> QED
    BY <2>1
<1>5. Eq([i \in 0..n |-> g[i]])
  <2> HIDE DEF D
  <2>1. g[0] = <<>> /\ \A i \in 0..n : i # 0 => i \in 1..n /\ i - 1 \in 0..n
    BY <1>1, <1>3 DEF Iterates
  <2> QED
    BY <1>4, <2>1
<1>6. PICK f : Eq(f) /\ Since(last) = f[n]
  BY <1>5 DEF Since
<1>7. n \in 0..n /\ 0 \in 0..n /\ \A i \in 1..n : i # 0 /\ i \in 0..n
  BY <1>1
<1>8. f[0] = <<>>
  BY <1>6, <1>7
<1>9. \A i \in 1..n :
        f[i] = IF events[i] > last THEN Append(f[i - 1], events[i]) ELSE f[i - 1]
  BY <1>6, <1>7
<1> QED
  BY <1>6, <1>8, <1>9

LEMMA SinceIsOwed ==
  ASSUME RingInv, NEW last \in Nat
  PROVE  /\ ResumePoint(last) \in 1..nextId
         /\ Since(last) = EventsFrom(ResumePoint(last), nextId)
<1> DEFINE n == Len(events)
           base == nextId - 1 - n
           r == ResumePoint(last)
<1>1. /\ n \in Nat /\ base \in Nat /\ nextId \in Nat /\ nextId = base + 1 + n
      /\ events \in Ids
      /\ \A i \in 1..n : events[i] = base + i
      /\ Oldest = base + 1
  BY SizeAssumption DEF RingInv, RingIsRecent, Oldest, Ids
<1>2. r \in (base + 1)..nextId /\ \A i \in 1..n : events[i] > last <=> base + i >= r
  BY <1>1 DEF ResumePoint
<1>3. PICK g :
        /\ g[0] = <<>> /\ g[n] = Since(last)
        /\ \A i \in 1..n :
             g[i] = IF events[i] > last THEN Append(g[i - 1], events[i]) ELSE g[i - 1]
  BY <1>1, SinceSteps
<1> HIDE DEF n, base, r
<1> DEFINE P(i) == i <= n =>
                     g[i] = IF base + 1 + i <= r THEN <<>> ELSE EventsFrom(r, base + 1 + i)
           T == {i \in Nat : P(i)}
<1>4. P(0)
  BY <1>1, <1>2, <1>3
<1>5. ASSUME NEW i \in Nat, P(i) PROVE P(i + 1)
  <2> SUFFICES ASSUME i + 1 <= n
               PROVE  g[i + 1] = IF base + 2 + i <= r THEN <<>>
                                                     ELSE EventsFrom(r, base + 2 + i)
    BY <1>1
  <2>1. /\ i <= n /\ i + 1 \in 1..n /\ (i + 1) - 1 = i /\ r \in Nat /\ base + 1 + i \in Nat
        /\ events[i + 1] = base + 1 + i
        /\ (base + 1 + i) + 1 = base + 2 + i
    BY <1>1, <1>2
  <2>2. g[i] = IF base + 1 + i <= r THEN <<>> ELSE EventsFrom(r, base + 1 + i)
    BY <1>5, <2>1
  <2>3. g[i + 1] = IF base + 1 + i >= r THEN Append(g[i], base + 1 + i) ELSE g[i]
    <3>1. events[i + 1] > last <=> base + (i + 1) >= r
      BY <1>2, <2>1
    <3> QED
      BY <1>1, <1>3, <2>1, <3>1
  <2>4. CASE base + 1 + i < r
    BY <2>1, <2>2, <2>3, <2>4
  <2>5. CASE base + 1 + i >= r
    <3>1. g[i] = EventsFrom(r, base + 1 + i)
      <4>1. CASE base + 1 + i = r
        BY <2>1, <2>2, <4>1, EventsFromEmpty
      <4>2. CASE base + 1 + i > r
        BY <2>1, <2>2, <4>2
      <4> QED
        BY <2>1, <2>5, <4>1, <4>2
    <3>2. Append(EventsFrom(r, base + 1 + i), base + 1 + i) = EventsFrom(r, base + 2 + i)
      BY <2>1, <2>5, EventsFromAppend
    <3>3. ~ (base + 2 + i <= r)
      BY <2>1, <2>5, <1>1
    <3> QED
      BY <2>3, <2>5, <3>1, <3>2, <3>3
  <2> QED
    BY <2>1, <2>4, <2>5
<1> HIDE DEF P
<1>6. 0 \in T /\ \A i \in Nat : i \in T => i + 1 \in T
  BY <1>4, <1>5
<1>7. P(n)
  BY <1>1, <1>6, SetInduction
<1>8. CASE r = nextId
  BY <1>1, <1>2, <1>3, <1>7, <1>8, EventsFromEmpty DEF P, r
<1>9. CASE r < nextId
  BY <1>1, <1>2, <1>3, <1>7, <1>9 DEF P, r
<1> QED
  BY <1>1, <1>2, <1>8, <1>9 DEF r

(***************************************************************************)
(* The state stays well typed; a connection has a worker once it was       *)
(* accepted, a worker that has not ended is subscribed, and the API thread *)
(* only serves a connection whose worker is alive.                         *)
(***************************************************************************)
LEMMA InitTypeOK == Init => TypeOK
  BY ConnsAssumption
  DEF Init, TypeOK, RingTypeOK, ConnTypeOK, QueueTypeOK, ThreadsMatch, Ids, WorkerAlive

LEMMA KeptType ==
  ASSUME NEW s \in Ids
  PROVE  Kept(s) \in Ids
<1>1. CASE Len(s) > MAX_EVENTS
  <2>1. s # <<>>
    BY <1>1, SizeAssumption DEF Ids
  <2> QED
    BY <1>1, <2>1 DEF Kept, Ids
<1> QED
  BY <1>1 DEF Kept

LEMMA SinceType ==
  ASSUME RingInv, NEW last \in Nat
  PROVE  /\ Since(last) \in Ids
         /\ (IF Since(last) = <<>> THEN nextId ELSE Head(Since(last))) = ResumePoint(last)
         /\ ResumePoint(last) \in Nat
<1> DEFINE r == ResumePoint(last)
           s == Since(last)
<1>1. r \in 1..nextId /\ nextId \in Nat /\ s = EventsFrom(r, nextId)
  BY SinceIsOwed DEF RingInv
<1> HIDE DEF r, s
<1>2. r \in Nat /\ r <= nextId
  BY <1>1
<1>3. /\ s \in Ids /\ Len(s) = nextId - r
      /\ \A i \in 1..(nextId - r) : s[i] = r + i - 1
  BY <1>1, <1>2, EventsFromType
<1>4. (IF s = <<>> THEN nextId ELSE Head(s)) = r
  <2>1. CASE r = nextId
    <3>1. s = <<>>
      BY <1>1, <1>2, <2>1, EventsFromEmpty
    <3> QED
      BY <2>1, <3>1
  <2>2. CASE r # nextId
    <3>1. 1 \in 1..(nextId - r) /\ Len(s) # 0
      BY <1>1, <1>2, <1>3, <2>2
    <3>2. s # <<>> /\ Head(s) = s[1]
      BY <1>3, <3>1 DEF Ids
    <3> QED
      BY <1>2, <1>3, <3>1, <3>2
  <2> QED
    BY <2>1, <2>2
<1> QED
  BY <1>2, <1>3, <1>4 DEF r, s

\* Accept makes a connection: its worker, its subscription and its catch-up.
LEMMA AcceptTyped ==
  ASSUME TypeOK, RingInv, NEW c \in Conns, NEW last \in 0..MaxId, Accept(c, last)
  PROVE  TypeOK'
<1> USE DEF TypeOK
<1>1. last \in Nat
  BY SizeAssumption
<1>2. /\ Since(last) \in Ids
      /\ (IF Since(last) = <<>> THEN nextId ELSE Head(Since(last))) \in Nat
  BY <1>1, SinceType
<1>3. RingTypeOK' /\ ConnTypeOK'
  BY <1>2 DEF Accept, RingTypeOK, ConnTypeOK
<1>4. QueueTypeOK'
  BY <1>2 DEF Accept, QueueTypeOK
<1>5. ThreadsMatch'
  BY ConnsAssumption DEF Accept, ConnTypeOK, ThreadsMatch, WorkerAlive
<1> QED
  BY <1>3, <1>4, <1>5

LEMMA SendTyped ==
  ASSUME QueueTypeOK, NEW c \in Conns, NEW chunk \in Ids, Send(c, chunk)
  PROVE  pipe' \in [Conns -> Seq(Ids)]
<1>1. Append(pipe[c], chunk) \in Seq(Ids)
  BY DEF QueueTypeOK
<1> QED
  BY <1>1 DEF Send, QueueTypeOK

LEMMA WorkerTyped ==
  ASSUME TypeOK, NEW c \in Conns, WorkerStep(c)
  PROVE  TypeOK'
<1> USE DEF TypeOK
<1>0. /\ NoEvent \in Ids /\ catchUp[c] \in Ids /\ inbox[c] \in Ids
      /\ inbox[c] # <<>> => <<Head(inbox[c])>> \in Ids /\ Tail(inbox[c]) \in Ids
  BY DEF NoEvent, QueueTypeOK, Ids
<1>1. RingTypeOK' /\ ConnTypeOK'
  BY DEF WorkerStep, SendCatchUp, SendConnected, Forward, Keepalive, SendFails,
         ringVars, RingTypeOK, ConnTypeOK
<1>2. pipe' \in [Conns -> Seq(Ids)]
  BY <1>0, SendTyped DEF WorkerStep, SendCatchUp, SendConnected, Forward,
                         Keepalive, SendFails, QueueTypeOK
<1>3. catchUp' \in [Conns -> Ids] /\ inbox' \in [Conns -> Ids]
  BY <1>0 DEF WorkerStep, SendCatchUp, SendConnected, Forward, Keepalive,
              SendFails, QueueTypeOK, NoEvent
<1>4. UNCHANGED <<buffer, written>>
  BY DEF WorkerStep, SendCatchUp, SendConnected, Forward, Keepalive, SendFails
<1>5. ThreadsMatch'
  BY DEF WorkerStep, SendCatchUp, SendConnected, Forward, Keepalive, SendFails,
         ringVars, ConnTypeOK, ThreadsMatch, WorkerAlive
<1> QED
  BY <1>1, <1>2, <1>3, <1>4, <1>5 DEF QueueTypeOK

LEMMA ReadTyped ==
  ASSUME TypeOK, NEW c \in Conns, ReadStep(c) \/ ClientLeaves(c)
  PROVE  TypeOK'
<1> USE DEF TypeOK
<1>1. RingTypeOK' /\ ConnTypeOK'
  BY DEF ReadStep, Read, RespondFails, ClientLeaves, ringVars, RingTypeOK, ConnTypeOK
<1>2. QueueTypeOK'
  <2>1. CASE ClientLeaves(c)
    BY <2>1 DEF ClientLeaves, QueueTypeOK
  <2>2. CASE RespondFails(c)
    BY <2>2 DEF RespondFails, QueueTypeOK, Ids
  <2>3. ASSUME NEW k \in 0..MAX_EVENTS, Read(c, k) PROVE QueueTypeOK'
    <3> DEFINE avail == Available(c)
    <3>1. avail \in Ids /\ (buffer[c] = <<>> => Tail(pipe[c]) \in Seq(Ids))
      BY <2>3 DEF Read, CanRead, Available, QueueTypeOK
    <3>2. k \in Nat /\ k <= Len(avail)
      BY <2>3, SizeAssumption DEF Read
    <3>3. /\ written[c] \o SubSeq(avail, 1, k) \in Ids
          /\ SubSeq(avail, k + 1, Len(avail)) \in Ids
      <4>1. avail \in Seq(Nat) /\ written[c] \in Seq(Nat)
        BY <3>1 DEF QueueTypeOK, Ids
      <4> HIDE DEF avail
      <4>2. SubSeq(avail, 1, k) \in Seq(Nat) /\ SubSeq(avail, k + 1, Len(avail)) \in Seq(Nat)
        BY <3>2, <4>1
      <4> QED
        BY <4>1, <4>2 DEF Ids
    <3>4. pipe' \in [Conns -> Seq(Ids)]
      BY <2>3, <3>1 DEF Read, TakeChunk, QueueTypeOK
    <3> QED
      BY <2>3, <3>3, <3>4 DEF Read, QueueTypeOK
  <2> QED
    BY <2>1, <2>2, <2>3 DEF ReadStep
<1>3. ThreadsMatch'
  BY ConnsAssumption
  DEF ReadStep, Read, RespondFails, ClientLeaves, ringVars, ConnTypeOK,
      ThreadsMatch, WorkerAlive
<1> QED
  BY <1>1, <1>2, <1>3

LEMMA PushRestartTyped ==
  ASSUME TypeOK, Push \/ Restart
  PROVE  TypeOK'
<1> USE DEF TypeOK
<1>1. CASE Push
  <2>1. /\ Append(events, nextId) \in Ids
        /\ \A c \in Conns : Append(inbox[c], nextId) \in Ids
    BY DEF RingTypeOK, QueueTypeOK, Ids
  <2>2. RingTypeOK'
    BY <1>1, <2>1, KeptType DEF Push, RingTypeOK
  <2>3. inbox' \in [Conns -> Ids]
    BY <1>1, <2>1 DEF Push, QueueTypeOK
  <2> QED
    BY <1>1, <2>2, <2>3 DEF Push, ConnTypeOK, QueueTypeOK, ThreadsMatch, WorkerAlive
<1>2. CASE Restart
  BY <1>2, ConnsAssumption
  DEF Restart, RingTypeOK, ConnTypeOK, QueueTypeOK, ThreadsMatch, WorkerAlive, Ids
<1> QED
  BY <1>1, <1>2

(***************************************************************************)
(* The state stays well typed: inboxes, pipes and what was received are    *)
(* sequences of ids for any connections, ring and pipe.                    *)
(***************************************************************************)
THEOREM TypeCorrect == Spec => []TypeOK
<1>1. TypeOK /\ RingInv /\ [Next]_vars => TypeOK'
  <2> SUFFICES ASSUME TypeOK, RingInv, [Next]_vars PROVE TypeOK'
    OBVIOUS
  <2>1. CASE UNCHANGED vars
    BY <2>1 DEF vars, ringVars, connVars, TypeOK, RingTypeOK, ConnTypeOK,
                QueueTypeOK, ThreadsMatch, WorkerAlive
  <2> QED
    BY <2>1, AcceptTyped, WorkerTyped, ReadTyped, PushRestartTyped DEF Next
<1> QED
  BY <1>1, InitTypeOK, RingInvariant, PTL DEF Spec

(***************************************************************************)
(* A client that comes back is owed what came after the last id it saw, as *)
(* far as the ring reaches (sse.rs:61-66, api_server.rs:223-233).          *)
(***************************************************************************)
THEOREM ResumeExact == Spec => ResumeIsExact
<1> DEFINE Exact == \A c \in Conns, last \in 0..MaxId :
                      Accept(c, last) => start'[c] = ResumePoint(last)
<1>1. TypeOK /\ RingInv => Exact
  <2> SUFFICES ASSUME TypeOK, RingInv, NEW c \in Conns, NEW last \in 0..MaxId,
                      Accept(c, last)
               PROVE  start'[c] = ResumePoint(last)
    OBVIOUS
  <2>1. last \in Nat
    BY SizeAssumption
  <2>2. start'[c] = IF Since(last) = <<>> THEN nextId ELSE Head(Since(last))
    BY DEF Accept, TypeOK, ConnTypeOK
  <2> QED
    BY <2>1, <2>2, SinceType
<1>2. TypeOK /\ RingInv /\ [Next]_vars => [Exact]_vars
  BY <1>1
<1> QED
  BY <1>2, TypeCorrect, RingInvariant, PTL DEF Spec, ResumeIsExact

(***************************************************************************)
(* What the worker and the reader do to a delivery: they move events from  *)
(* one place to the next one.                                              *)
(***************************************************************************)
\* What was written, is in the reader, in the pipe, in the worker, in the inbox.
Row(w, b, f, c, i) == Cat(Cat(Cat(Cat(w, b), f), c), i)

\* A chunk goes from the worker to the pipe.
LEMMA ChunkIsPiped ==
  \A w, b, f, c, i \in Ids : Row(w, b, Cat(f, c), <<>>, i) = Row(w, b, f, c, i)
<1> SUFFICES ASSUME NEW w \in Ids, NEW b \in Ids, NEW f \in Ids, NEW c \in Ids, NEW i \in Ids
             PROVE  Row(w, b, Cat(f, c), <<>>, i) = Row(w, b, f, c, i)
  OBVIOUS
<1>1. Cat(w, b) \in Ids /\ Cat(f, c) \in Ids
  BY CatClosed
<1>2. Cat(Cat(w, b), Cat(f, c)) \in Ids
  BY <1>1, CatClosed
<1>3. Cat(Cat(w, b), Cat(f, c)) = Cat(Cat(Cat(w, b), f), c)
  BY <1>1, CatAssociative
<1>4. Cat(Cat(Cat(w, b), Cat(f, c)), <<>>) = Cat(Cat(w, b), Cat(f, c))
  BY <1>2, CatEmpty
<1> QED
  BY <1>3, <1>4 DEF Row

\* A message goes from the inbox to the pipe, when no catch-up is before it.
LEMMA MessageIsPiped ==
  \A w, b, f, m, i \in Ids : Row(w, b, Cat(f, m), <<>>, i) = Row(w, b, f, <<>>, Cat(m, i))
<1> SUFFICES ASSUME NEW w \in Ids, NEW b \in Ids, NEW f \in Ids, NEW m \in Ids, NEW i \in Ids
             PROVE  Row(w, b, Cat(f, m), <<>>, i) = Row(w, b, f, <<>>, Cat(m, i))
  OBVIOUS
<1>1. Cat(Cat(w, b), f) \in Ids
  BY CatClosed
<1>2. Cat(Cat(Cat(w, b), f), <<>>) = Cat(Cat(w, b), f)
  BY <1>1, CatEmpty
<1>3. Cat(Cat(Cat(w, b), f), Cat(m, i)) = Cat(Cat(Cat(Cat(w, b), f), m), i)
  BY <1>1, CatAssociative
<1>4. Row(w, b, Cat(f, m), <<>>, i) = Row(w, b, f, m, i)
  BY ChunkIsPiped
<1> QED
  BY <1>2, <1>3, <1>4 DEF Row

\* The first part of the next chunk is written, its rest is kept.
LEMMA ChunkIsRead ==
  \A w, x, y, f \in Ids : Cat(Cat(Cat(w, x), y), f) = Cat(Cat(w, <<>>), Cat(Cat(x, y), f))
<1> SUFFICES ASSUME NEW w \in Ids, NEW x \in Ids, NEW y \in Ids, NEW f \in Ids
             PROVE  Cat(Cat(Cat(w, x), y), f) = Cat(Cat(w, <<>>), Cat(Cat(x, y), f))
  OBVIOUS
<1>1. Cat(w, <<>>) = w
  BY CatEmpty
<1>2. Cat(x, y) \in Ids
  BY CatClosed
<1>3. Cat(Cat(w, x), y) = Cat(w, Cat(x, y))
  BY CatAssociative
<1>4. Cat(Cat(w, Cat(x, y)), f) = Cat(w, Cat(Cat(x, y), f))
  BY <1>2, CatAssociative
<1> QED
  BY <1>1, <1>3, <1>4

LEMMA SplitInTwo ==
  ASSUME NEW s \in Ids, NEW k \in Nat, k <= Len(s)
  PROVE  /\ SubSeq(s, 1, k) \in Ids /\ SubSeq(s, k + 1, Len(s)) \in Ids
         /\ SubSeq(s, 1, k) \o SubSeq(s, k + 1, Len(s)) = s
         /\ Len(SubSeq(s, 1, k)) = k
<1> DEFINE n == Len(s)
<1>1. s \in Seq(Nat) /\ n \in Nat /\ k \in 0..n
  BY DEF Ids
<1>2. SubSeq(s, 1, k) \o SubSeq(s, k + 1, n) = SubSeq(s, 1, n)
  <2>1. 1 \in 1..(n + 1) /\ k \in (1 - 1)..n /\ n \in k..n
    BY <1>1
  <2> QED
    BY <1>1, <2>1, ConcatAdjacentSubSeq
<1>3. SubSeq(s, 1, n) = s
  BY <1>1, SubSeqFull
<1>4. /\ SubSeq(s, 1, k) \in Seq(Nat) /\ SubSeq(s, k + 1, n) \in Seq(Nat)
      /\ Len(SubSeq(s, 1, k)) = k
  BY <1>1
<1> QED
  BY <1>2, <1>3, <1>4 DEF Ids

(***************************************************************************)
(* The invariant behind "nothing falls between": each step moves events    *)
(* from one place of a connection to the next, and push adds the new event *)
(* at the end.                                                             *)
(***************************************************************************)
LEMMA QueuesTyped ==
  ASSUME QueueTypeOK, NEW c \in Conns
  PROVE  /\ written[c] \in Ids /\ buffer[c] \in Ids /\ pipe[c] \in Seq(Ids)
         /\ FlattenSeq(pipe[c]) \in Ids /\ catchUp[c] \in Ids /\ inbox[c] \in Ids
  BY FlattenType DEF QueueTypeOK

\* Steps that serve nobody new and change no served connection's delivery.
LEMMA ServedKept ==
  ASSUME ServedInFull, UNCHANGED <<nextId, start>>, api' = api \/ api' = Nobody,
         \A d \in Conns : api' = d => Delivery(d)' = Delivery(d)
  PROVE  ServedInFull'
<1> SUFFICES ASSUME NEW d \in Conns, api' = d
             PROVE  /\ start'[d] \in 1..nextId'
                    /\ Delivery(d)' = EventsFrom(start'[d], nextId')
  BY DEF ServedInFull
<1>1. api = d
  BY ConnsAssumption
<1>2. start[d] \in 1..nextId /\ Delivery(d) = EventsFrom(start[d], nextId)
  BY <1>1 DEF ServedInFull
<1> QED
  BY <1>2

LEMMA OthersKept ==
  ASSUME NEW d \in Conns,
         UNCHANGED <<written[d], buffer[d], pipe[d], catchUp[d], inbox[d]>>
  PROVE  Delivery(d)' = Delivery(d)
  BY DEF Delivery

LEMMA DeliveryRow ==
  ASSUME NEW c \in Conns
  PROVE  Delivery(c) = Row(written[c], buffer[c], FlattenSeq(pipe[c]), catchUp[c], inbox[c])
  BY DEF Delivery, Row, Cat

LEMMA WorkerKeepsDelivery ==
  ASSUME TypeOK, DeliveryInv, NEW c \in Conns, WorkerStep(c)
  PROVE  DeliveryInv'
<1> USE DEF TypeOK, DeliveryInv
<1>1. client[c] # "new"
  BY DEF WorkerStep, SendCatchUp, SendConnected, Forward, Keepalive, SendFails,
         WorkerAlive, ThreadsMatch
<1>2. /\ UNCHANGED <<nextId, start, api, client, written, buffer>>
      /\ \A d \in Conns \ {c} :
           UNCHANGED <<written[d], buffer[d], pipe[d], catchUp[d], inbox[d], worker[d]>>
  BY DEF WorkerStep, SendCatchUp, SendConnected, Forward, Keepalive, SendFails,
         Send, ringVars, ConnTypeOK, QueueTypeOK
<1>3. NewIsEmpty'
  BY <1>1, <1>2 DEF NewIsEmpty
<1>4. CatchUpFirst'
  <2>1. worker'[c] # "catchup" => catchUp'[c] = <<>>
    BY DEF WorkerStep, SendCatchUp, SendConnected, Forward, Keepalive, SendFails,
           CatchUpFirst, ConnTypeOK, QueueTypeOK
  <2> QED
    BY <1>2, <2>1 DEF CatchUpFirst
<1>5. ASSUME api = c PROVE Delivery(c)' = Delivery(c)
  <2> DEFINE w == written[c]
             b == buffer[c]
             p == pipe[c]
             f == FlattenSeq(p)
             k == catchUp[c]
             i == inbox[c]
  <2>1. w \in Ids /\ b \in Ids /\ p \in Seq(Ids) /\ f \in Ids /\ k \in Ids /\ i \in Ids
    BY QueuesTyped
  <2>2. Delivery(c) = Row(w, b, f, k, i)
    BY DeliveryRow
  <2>3. Delivery(c)' = Row(w, b, FlattenSeq(pipe'[c]), catchUp'[c], inbox'[c])
    BY <1>2 DEF Delivery, Row, Cat
  <2>4. ASSUME NEW m \in Ids, Send(c, m) PROVE FlattenSeq(pipe'[c]) = Cat(f, m)
    <3>1. pipe'[c] = Append(p, m)
      BY <2>4 DEF Send, QueueTypeOK
    <3> HIDE DEF p
    <3>2. FlattenSeq(Append(p, m)) = FlattenSeq(p) \o m
      BY <2>1, FlattenAppend
    <3> QED
      BY <3>1, <3>2 DEF Cat
  <2>5. NoEvent \in Ids /\ NoEvent = <<>>
    BY CatEmpty DEF NoEvent
  <2>6. CASE SendCatchUp(c)
    <3>1. catchUp'[c] = <<>> /\ inbox'[c] = i
      BY <1>5, <2>6 DEF SendCatchUp, SendFails, QueueTypeOK
    <3>2. FlattenSeq(pipe'[c]) = Cat(f, k)
      <4>1. CASE k # <<>> /\ Send(c, k)
        BY <2>1, <2>4, <4>1
      <4>2. CASE k = <<>> /\ pipe' = pipe
        BY <2>1, <4>2, CatEmpty
      <4> QED
        BY <1>5, <2>6, <4>1, <4>2 DEF SendCatchUp, SendFails
    <3> HIDE DEF w, b, p, f, k, i
    <3> QED
      BY <2>1, <2>2, <2>3, <3>1, <3>2, ChunkIsPiped
  <2>7. CASE SendConnected(c) \/ Keepalive(c)
    <3>1. catchUp'[c] = k /\ inbox'[c] = i
      BY <1>5, <2>7 DEF SendConnected, Keepalive, SendFails
    <3>2. FlattenSeq(pipe'[c]) = f
      BY <1>5, <2>1, <2>4, <2>5, <2>7, CatEmpty DEF SendConnected, Keepalive, SendFails
    <3> QED
      BY <2>2, <2>3, <3>1, <3>2
  <2>8. CASE Forward(c)
    <3> DEFINE m == <<Head(i)>>
               j == Tail(i)
    <3>1. m \in Ids /\ j \in Ids /\ i = Cat(m, j)
      BY <2>1, <2>8 DEF Forward, Ids, Cat
    <3>2. k = <<>> /\ catchUp'[c] = <<>> /\ inbox'[c] = j
      BY <1>5, <2>8 DEF Forward, SendFails, CatchUpFirst, QueueTypeOK
    <3>3. FlattenSeq(pipe'[c]) = Cat(f, m)
      BY <1>5, <2>4, <2>8, <3>1 DEF Forward, SendFails
    <3> HIDE DEF w, b, p, f, k, i, m, j
    <3> QED
      BY <2>1, <2>2, <2>3, <3>1, <3>2, <3>3, MessageIsPiped
  <2> QED
    BY <2>6, <2>7, <2>8 DEF WorkerStep
<1>6. ServedInFull'
  <2>1. \A d \in Conns : api' = d => Delivery(d)' = Delivery(d)
    BY <1>2, <1>5, OthersKept
  <2> QED
    BY <1>2, <2>1, ServedKept
<1> QED
  BY <1>3, <1>4, <1>6

\* What ChannelReader::read returns is written, the rest stays in the reader.
LEMMA ReadMoves ==
  ASSUME QueueTypeOK, NEW c \in Conns, NEW k \in 0..MAX_EVENTS, Read(c, k)
  PROVE  \E x \in Ids : /\ Len(x) = k /\ written' = [written EXCEPT ![c] = Cat(@, x)]
                        /\ Delivery(c)' = Delivery(c)
<1> DEFINE av == Available(c)
           x == SubSeq(av, 1, k)
           y == SubSeq(av, k + 1, Len(av))
           w == written[c]
           b == buffer[c]
           p == pipe[c]
           i == inbox[c]
           u == catchUp[c]
<1>1. w \in Ids /\ b \in Ids /\ p \in Seq(Ids) /\ FlattenSeq(p) \in Ids /\ u \in Ids /\ i \in Ids
  BY QueuesTyped
<1>2. k \in Nat /\ k <= Len(av) /\ av \in Ids
  BY <1>1, SizeAssumption DEF Read, CanRead, Available
<1>3. x \in Ids /\ y \in Ids /\ Cat(x, y) = av /\ Len(x) = k
  <2> HIDE DEF av
  <2> QED
    BY <1>2, SplitInTwo DEF Cat
<1>4. /\ written' = [written EXCEPT ![c] = Cat(@, x)] /\ written'[c] = Cat(w, x)
      /\ buffer'[c] = y /\ catchUp'[c] = u /\ inbox'[c] = i
  BY DEF Read, QueueTypeOK, Cat
<1>5. Delivery(c)' = Row(Cat(w, x), y, FlattenSeq(pipe'[c]), u, i)
  BY <1>4 DEF Delivery, Row, Cat
<1>6. Delivery(c) = Row(w, b, FlattenSeq(p), u, i)
  BY DeliveryRow
<1>7. CASE b # <<>>
  <2>1. av = b /\ pipe'[c] = p
    BY <1>7 DEF Read, TakeChunk, Available
  <2> HIDE DEF av, x, y, w, b, p, i, u
  <2>2. Cat(Cat(w, x), y) = Cat(w, b)
    BY <1>1, <1>3, <2>1, CatAssociative
  <2>3. Delivery(c)' = Delivery(c)
    BY <1>5, <1>6, <2>1, <2>2 DEF Row
  <2> QED
    BY <1>3, <1>4, <2>3
<1>8. CASE b = <<>>
  <2>1. p # <<>> /\ av = Head(p) /\ pipe'[c] = Tail(p) /\ Tail(p) \in Seq(Ids)
    BY <1>1, <1>8 DEF Read, CanRead, TakeChunk, Available, QueueTypeOK
  <2> HIDE DEF av, x, y, w, b, p, i, u
  <2>2. FlattenSeq(p) = Cat(av, FlattenSeq(Tail(p))) /\ FlattenSeq(Tail(p)) \in Ids
    BY <1>1, <2>1, FlattenHead, FlattenType DEF Cat
  <2> DEFINE f == FlattenSeq(Tail(p))
  <2>3. f \in Ids /\ FlattenSeq(p) = Cat(Cat(x, y), f) /\ FlattenSeq(pipe'[c]) = f
    BY <1>3, <2>1, <2>2
  <2> HIDE DEF f
  <2>4. Cat(Cat(Cat(w, x), y), f) = Cat(Cat(w, <<>>), Cat(Cat(x, y), f))
    BY <1>1, <1>3, <2>3, ChunkIsRead
  <2>5. Delivery(c)' = Delivery(c)
    BY <1>5, <1>6, <1>8, <2>3, <2>4 DEF Row
  <2> QED
    BY <1>3, <1>4, <2>5
<1> QED
  BY <1>7, <1>8

LEMMA ReaderKeepsDelivery ==
  ASSUME TypeOK, DeliveryInv, NEW c \in Conns, ReadStep(c) \/ ClientLeaves(c)
  PROVE  DeliveryInv'
<1> USE DEF TypeOK, DeliveryInv
<1>1. CASE ClientLeaves(c)
  <2>1. /\ UNCHANGED <<nextId, start, api, worker, catchUp, written, buffer, pipe, inbox>>
        /\ \A d \in Conns : client'[d] = "new" => client[d] = "new"
    BY <1>1 DEF ClientLeaves, ringVars, ConnTypeOK
  <2>2. NewIsEmpty' /\ CatchUpFirst'
    BY <2>1 DEF NewIsEmpty, CatchUpFirst
  <2>3. ServedInFull'
    BY <2>1 DEF ServedInFull, Delivery
  <2> QED
    BY <2>2, <2>3
<1>2. CASE RespondFails(c)
  <2>1. /\ UNCHANGED <<nextId, start, client, worker, catchUp, written, inbox>>
        /\ api' = Nobody
        /\ \A d \in Conns \ {c} : pipe'[d] = pipe[d] /\ buffer'[d] = buffer[d]
        /\ client[c] = "left"
    BY <1>2 DEF RespondFails, ringVars, QueueTypeOK
  <2>2. NewIsEmpty' /\ CatchUpFirst'
    BY <2>1 DEF NewIsEmpty, CatchUpFirst
  <2>3. ServedInFull'
    BY <2>1, ConnsAssumption, ServedKept
  <2> QED
    BY <2>2, <2>3
<1>3. ASSUME NEW k \in 0..MAX_EVENTS, Read(c, k) PROVE DeliveryInv'
  <2>1. /\ UNCHANGED <<nextId, start, api, client, worker, catchUp, inbox>>
        /\ \A d \in Conns \ {c} :
             UNCHANGED <<written[d], buffer[d], pipe[d], catchUp[d], inbox[d]>>
        /\ client[c] = "open"
    BY <1>3 DEF Read, TakeChunk, ringVars, QueueTypeOK
  <2>2. NewIsEmpty' /\ CatchUpFirst'
    BY <2>1 DEF NewIsEmpty, CatchUpFirst
  <2>3. \A d \in Conns : api' = d => Delivery(d)' = Delivery(d)
    BY <1>3, <2>1, ReadMoves, OthersKept
  <2>4. ServedInFull'
    BY <2>1, <2>3, ServedKept
  <2> QED
    BY <2>2, <2>4
<1> QED
  BY <1>1, <1>2, <1>3 DEF ReadStep

\* A connection starts with what its client is owed, which goes up to the
\* newest event, and is subscribed to every later one.
LEMMA AcceptKeepsDelivery ==
  ASSUME TypeOK, RingInv, DeliveryInv, NEW c \in Conns, NEW last \in 0..MaxId,
         Accept(c, last)
  PROVE  DeliveryInv'
<1> USE DEF TypeOK, DeliveryInv
<1>1. last \in Nat
  BY SizeAssumption
<1> DEFINE s == Since(last)
<1>2. /\ s \in Ids /\ s = EventsFrom(ResumePoint(last), nextId)
      /\ ResumePoint(last) \in 1..nextId
      /\ (IF s = <<>> THEN nextId ELSE Head(s)) = ResumePoint(last)
  BY <1>1, SinceType, SinceIsOwed
<1>3. /\ api' = c /\ UNCHANGED <<nextId, written, buffer, pipe, inbox>>
      /\ client'[c] = "open" /\ worker'[c] = "catchup" /\ catchUp'[c] = s
      /\ start'[c] = ResumePoint(last) /\ client[c] = "new"
      /\ \A d \in Conns \ {c} :
           UNCHANGED <<client[d], worker[d], catchUp[d]>>
  BY <1>2 DEF Accept, ConnTypeOK, QueueTypeOK
<1>4. NewIsEmpty' /\ CatchUpFirst'
  BY <1>3 DEF NewIsEmpty, CatchUpFirst
<1>5. Delivery(c)' = s
  <2>1. written[c] = <<>> /\ buffer[c] = <<>> /\ FlattenSeq(pipe[c]) = <<>> /\ inbox[c] = <<>>
    BY <1>3, FlattenEmpty DEF NewIsEmpty
  <2>2. Delivery(c)' = Row(<<>>, <<>>, <<>>, s, <<>>)
    BY <1>3, <2>1 DEF Delivery, Row, Cat
  <2> HIDE DEF s
  <2>3. Cat(<<>>, <<>>) = <<>> /\ Cat(<<>>, s) = s /\ Cat(s, <<>>) = s
    BY <1>2, CatEmpty
  <2> QED
    BY <2>2, <2>3 DEF Row
<1>6. ServedInFull'
  BY <1>2, <1>3, <1>5 DEF ServedInFull
<1> QED
  BY <1>4, <1>6

\* push adds the new event at the end of every delivery.
LEMMA PushKeepsDelivery ==
  ASSUME TypeOK, DeliveryInv, Push
  PROVE  DeliveryInv'
<1> USE DEF TypeOK, DeliveryInv
<1>1. /\ nextId' = nextId + 1 /\ nextId \in Nat \ {0}
      /\ UNCHANGED <<api, client, worker, catchUp, written, buffer, pipe, start>>
  BY DEF Push, RingTypeOK
<1>2. NewIsEmpty' /\ CatchUpFirst'
  <2>1. \A d \in Conns : client[d] = "new" => inbox'[d] = inbox[d]
    BY DEF Push, ThreadsMatch, WorkerAlive
  <2> QED
    BY <1>1, <2>1 DEF NewIsEmpty, CatchUpFirst
<1>3. ASSUME NEW c \in Conns, api = c
      PROVE  start[c] \in 1..(nextId + 1) /\ Delivery(c)' = EventsFrom(start[c], nextId + 1)
  <2> DEFINE e == <<nextId>>
             f == FlattenSeq(pipe[c])
             v == Cat(Cat(Cat(written[c], buffer[c]), f), catchUp[c])
             i == inbox[c]
  <2>1. v \in Ids /\ i \in Ids /\ e \in Ids
    <3>1. Cat(written[c], buffer[c]) \in Ids /\ f \in Ids /\ catchUp[c] \in Ids
      BY QueuesTyped, CatClosed
    <3>2. Cat(Cat(written[c], buffer[c]), f) \in Ids
      BY <3>1, CatClosed
    <3>3. v \in Ids
      BY <3>1, <3>2, CatClosed
    <3>4. i \in Ids /\ e \in Ids
      BY <1>1, QueuesTyped DEF Ids
    <3> QED
      BY <3>3, <3>4
  <2>2. inbox'[c] = Cat(i, e)
    <3>1. inbox'[c] = Append(i, nextId)
      BY <1>3 DEF Push, ThreadsMatch
    <3>2. i \in Seq(Nat) /\ nextId \in Nat
      BY <1>1, <2>1 DEF Ids
    <3> HIDE DEF i
    <3>3. Append(i, nextId) = i \o <<nextId>>
      BY <3>2, AppendIsConcat
    <3> QED
      BY <3>1, <3>3 DEF Cat
  <2>3. Delivery(c) = Cat(v, i)
    BY DEF Delivery, Cat
  <2>4. Delivery(c)' = Cat(v, inbox'[c])
    BY <1>1 DEF Delivery, Cat
  <2> HIDE DEF v, i
  <2>5. Delivery(c)' = Cat(Delivery(c), e)
    BY <2>1, <2>2, <2>3, <2>4, CatAssociative
  <2>6. start[c] \in 1..nextId /\ Delivery(c) = EventsFrom(start[c], nextId)
    BY <1>3 DEF ServedInFull
  <2> DEFINE a == start[c]
             d == EventsFrom(a, nextId)
  <2>7. d \in Ids /\ a \in Nat /\ a <= nextId /\ nextId \in Nat
    <3>1. a \in Nat /\ a <= nextId /\ nextId \in Nat
      BY <1>1, <2>6
    <3> HIDE DEF a
    <3> QED
      BY <3>1, EventsFromType
  <2>8. Append(d, nextId) = EventsFrom(a, nextId + 1)
    <3> HIDE DEF a
    <3> QED
      BY <2>7, EventsFromAppend
  <2>9. Cat(d, e) = Append(d, nextId)
    <3> HIDE DEF d
    <3> QED
      BY <2>7 DEF Cat, Ids
  <2> QED
    BY <1>1, <2>5, <2>6, <2>8, <2>9
<1>4. ServedInFull'
  BY <1>1, <1>3 DEF ServedInFull
<1> QED
  BY <1>2, <1>4

LEMMA DeliveryInvariant == Spec => []DeliveryInv
<1>1. Init => DeliveryInv
  BY ConnsAssumption DEF Init, DeliveryInv, NewIsEmpty, CatchUpFirst, ServedInFull
<1>2. TypeOK /\ RingInv /\ DeliveryInv /\ [Next]_vars => DeliveryInv'
  <2> SUFFICES ASSUME TypeOK, RingInv, DeliveryInv, [Next]_vars PROVE DeliveryInv'
    OBVIOUS
  <2>1. CASE Restart
    BY <2>1, ConnsAssumption
    DEF Restart, DeliveryInv, NewIsEmpty, CatchUpFirst, ServedInFull
  <2>2. CASE UNCHANGED vars
    BY <2>2 DEF vars, ringVars, connVars, DeliveryInv, NewIsEmpty, CatchUpFirst,
                ServedInFull, Delivery
  <2> QED
    BY <2>1, <2>2, PushKeepsDelivery, AcceptKeepsDelivery, WorkerKeepsDelivery,
       ReaderKeepsDelivery DEF Next
<1> QED
  BY <1>1, <1>2, TypeCorrect, RingInvariant, PTL DEF Spec

(***************************************************************************)
(* A connection that is served has been or will be given every event from  *)
(* its first to the newest, once and in order: nothing falls between       *)
(* catch-up and subscription (sse.rs:43, api_server.rs:228-262).           *)
(***************************************************************************)
THEOREM NothingLost == Spec => []NothingFallsBetween
<1>1. TypeOK /\ DeliveryInv => NothingFallsBetween
  <2> SUFFICES ASSUME TypeOK, DeliveryInv, NEW c \in Conns, api = c
               PROVE  /\ Consecutive(Delivery(c))
                      /\ Len(Delivery(c)) = nextId - start[c]
                      /\ Delivery(c) # <<>> => Head(Delivery(c)) = start[c]
    BY DEF NothingFallsBetween
  <2> DEFINE a == start[c]
             s == Delivery(c)
  <2>1. a \in Nat /\ nextId \in Nat /\ a <= nextId /\ s = EventsFrom(a, nextId)
    BY DEF TypeOK, RingTypeOK, DeliveryInv, ServedInFull
  <2> HIDE DEF a, s
  <2>2. /\ s \in Seq(Nat) /\ Len(s) = nextId - a
        /\ \A i \in 1..(nextId - a) : s[i] = a + i - 1
    BY <2>1, EventsFromType DEF Ids
  <2>3. Consecutive(s)
    <3> SUFFICES ASSUME NEW i \in 1..(Len(s) - 1) PROVE s[i + 1] = s[i] + 1
      BY DEF Consecutive
    <3>1. i \in 1..(nextId - a) /\ i + 1 \in 1..(nextId - a)
      BY <2>1, <2>2
    <3>2. s[i] = a + i - 1 /\ s[i + 1] = a + (i + 1) - 1
      BY <2>2, <3>1
    <3> QED
      BY <2>1, <3>2
  <2>4. s # <<>> => Head(s) = a
    <3> SUFFICES ASSUME s # <<>> PROVE Head(s) = a
      OBVIOUS
    <3>1. Head(s) = s[1] /\ 1 \in 1..(nextId - a)
      BY <2>1, <2>2
    <3> QED
      BY <2>1, <2>2, <3>1
  <2> QED
    BY <2>2, <2>3, <2>4 DEF a, s
<1> QED
  BY <1>1, TypeCorrect, DeliveryInvariant, PTL

\* The middle of a run is what follows its beginning.
LEMMA EventsFromMiddle ==
  \A a, b \in Nat, s, t, u \in Ids :
    a <= b /\ Cat(Cat(s, t), u) = EventsFrom(a, b) =>
      /\ a + Len(s) + Len(t) <= b
      /\ t = [i \in 1..Len(t) |-> (a + Len(s)) + i - 1]
<1> SUFFICES ASSUME NEW a \in Nat, NEW b \in Nat, a <= b,
                    NEW s \in Ids, NEW t \in Ids, NEW u \in Ids,
                    Cat(Cat(s, t), u) = EventsFrom(a, b)
             PROVE  /\ a + Len(s) + Len(t) <= b
                    /\ t = [i \in 1..Len(t) |-> (a + Len(s)) + i - 1]
  OBVIOUS
<1> DEFINE all == EventsFrom(a, b)
<1>0. s \in Seq(Nat) /\ t \in Seq(Nat) /\ u \in Seq(Nat) /\ all = (s \o t) \o u
  BY DEF Cat, Ids
<1>1. /\ Len(all) = b - a
      /\ \A i \in 1..(b - a) : all[i] = a + i - 1
  BY EventsFromType
<1>2. /\ s \o t \in Seq(Nat) /\ Len(s \o t) = Len(s) + Len(t)
      /\ \A i \in 1..Len(t) : (s \o t)[Len(s) + i] = t[i]
  BY <1>0
<1>3. /\ Len(all) = Len(s) + Len(t) + Len(u)
      /\ \A i \in 1..(Len(s) + Len(t)) : all[i] = (s \o t)[i]
  BY <1>0, <1>2
<1> HIDE DEF all
<1>4. a + Len(s) + Len(t) <= b
  BY <1>0, <1>1, <1>3
<1>5. ASSUME NEW i \in 1..Len(t) PROVE t[i] = (a + Len(s)) + i - 1
  <2>1. /\ Len(s) \in Nat /\ Len(t) \in Nat /\ Len(u) \in Nat
        /\ Len(s) + i \in 1..(Len(s) + Len(t)) /\ Len(s) + i \in 1..(b - a)
    BY <1>0, <1>1, <1>3
  <2>2. t[i] = all[Len(s) + i]
    BY <1>2, <1>3, <2>1
  <2>3. all[Len(s) + i] = a + (Len(s) + i) - 1
    BY <1>1, <2>1
  <2> QED
    BY <2>1, <2>2, <2>3
<1> QED
  BY <1>0, <1>4, <1>5

\* A read gives a connection the next events it is owed.
LEMMA ReadGivesNext ==
  ASSUME TypeOK, TypeOK', DeliveryInv, NEW c \in Conns, NEW k \in 0..MAX_EVENTS, Read(c, k)
  PROVE  Log!Next \/ UNCHANGED Log!vars
<1> DEFINE w == written[c]
           a == start[c]
           b == nextId
<1>1. PICK x \in Ids : /\ Len(x) = k /\ written' = [written EXCEPT ![c] = Cat(@, x)]
                       /\ Delivery(c)' = Delivery(c)
  BY ReadMoves DEF TypeOK
<1>2. /\ api = c /\ UNCHANGED <<nextId, start, api>>
  BY DEF Read, CanRead, ringVars
<1>3. w \in Ids /\ a \in Nat /\ b \in Nat /\ a <= b /\ Delivery(c) = EventsFrom(a, b)
      /\ 1 <= a
  BY <1>2 DEF TypeOK, RingTypeOK, QueueTypeOK, DeliveryInv, ServedInFull
<1>4. PICK u \in Ids : Delivery(c)' = Cat(Cat(w, x), u)
  <2> DEFINE v == Cat(w, x)
             b1 == buffer'[c]
             f1 == FlattenSeq(pipe'[c])
             u1 == catchUp'[c]
             i1 == inbox'[c]
  <2>1. v \in Ids /\ b1 \in Ids /\ f1 \in Ids /\ u1 \in Ids /\ i1 \in Ids
    BY <1>3, CatClosed, FlattenType DEF TypeOK, QueueTypeOK
  <2>2. Delivery(c)' = Row(v, b1, f1, u1, i1)
    BY <1>1 DEF Delivery, Row, Cat, TypeOK, QueueTypeOK
  <2> HIDE DEF v, b1, f1, u1, i1
  <2>3. Cat(b1, f1) \in Ids /\ Cat(Cat(v, b1), f1) = Cat(v, Cat(b1, f1))
    BY <2>1, CatClosed, CatAssociative
  <2> DEFINE r == Cat(b1, f1)
  <2>4. r \in Ids /\ Row(v, b1, f1, u1, i1) = Cat(Cat(Cat(v, r), u1), i1)
    BY <2>3 DEF Row
  <2> HIDE DEF r
  <2>5. Cat(r, u1) \in Ids /\ Cat(Cat(v, r), u1) = Cat(v, Cat(r, u1))
    BY <2>1, <2>4, CatClosed, CatAssociative
  <2> DEFINE t == Cat(r, u1)
  <2>6. t \in Ids /\ Row(v, b1, f1, u1, i1) = Cat(Cat(v, t), i1)
    BY <2>4, <2>5
  <2> HIDE DEF t
  <2>7. Cat(t, i1) \in Ids /\ Cat(Cat(v, t), i1) = Cat(v, Cat(t, i1))
    BY <2>1, <2>6, CatClosed, CatAssociative
  <2> QED
    BY <2>2, <2>6, <2>7 DEF v
<1>5. /\ a + Len(w) + k <= b
      /\ x = [i \in 1..k |-> (a + Len(w)) + i - 1]
  <2>1. Cat(Cat(w, x), u) = EventsFrom(a, b)
    BY <1>1, <1>3, <1>4
  <2> HIDE DEF w, a, b
  <2>2. /\ a + Len(w) + Len(x) <= b
        /\ x = [i \in 1..Len(x) |-> (a + Len(w)) + i - 1]
    BY <1>3, <2>1, EventsFromMiddle
  <2> QED
    BY <1>1, <2>2
<1>6. CASE k = 0
  <2>1. x = <<>>
    BY <1>1, <1>6 DEF Ids
  <2>2. Cat(w, x) = w
    <3> HIDE DEF w
    <3> QED
      BY <1>3, <2>1, CatEmpty
  <2>3. written' = written
    BY <1>1, <2>2 DEF TypeOK, QueueTypeOK
  <2> QED
    BY <1>2, <2>3 DEF Log!vars
<1>7. CASE k # 0
  <2>1. Log!Give(c, k)
    <3>1. c \in {d \in Conns : api = d}
      BY <1>2
    <3>2. written' = [written EXCEPT ![c] = @ \o [i \in 1..k |-> (a + Len(w)) + i - 1]]
      BY <1>1, <1>5 DEF Cat
    <3> QED
      BY <1>2, <1>5, <3>1, <3>2 DEF Log!Give
  <2>2. k \in 1..(nextId - 1)
    <3>1. Len(w) \in Nat /\ k \in Nat
      BY <1>3, SizeAssumption DEF Ids
    <3> QED
      BY <1>3, <1>5, <1>7, <3>1
  <2> QED
    BY <2>1, <2>2 DEF Log!Next
<1> QED
  BY <1>6, <1>7

\* Accepting a connection opens it in the log.
LEMMA AcceptOpens ==
  ASSUME TypeOK, RingInv, DeliveryInv, NEW c \in Conns, NEW last \in 0..MaxId,
         Accept(c, last)
  PROVE  Log!Open(c)
<1>1. last \in Nat
  BY SizeAssumption
<1>2. ResumePoint(last) \in 1..nextId
  BY <1>1, SinceIsOwed
<1>3. start' = [start EXCEPT ![c] = ResumePoint(last)]
  <2>1. (IF Since(last) = <<>> THEN nextId ELSE Head(Since(last))) = ResumePoint(last)
    BY <1>1, SinceType
  <2> QED
    BY <2>1 DEF Accept
<1>4. /\ c \notin {d \in Conns : api = d} /\ written[c] = <<>>
      /\ UNCHANGED <<nextId, written>>
  BY ConnsAssumption DEF Accept, DeliveryInv, NewIsEmpty
<1>5. {d \in Conns : api' = d} = {d \in Conns : api = d} \union {c}
  BY ConnsAssumption DEF Accept
<1> QED
  BY <1>2, <1>3, <1>4, <1>5 DEF Log!Open

LEMMA StepIsLogStep ==
  ASSUME TypeOK, TypeOK', RingInv, DeliveryInv, [Next]_vars
  PROVE  [Log!Next]_(Log!vars)
<1>1. CASE Push
  BY <1>1 DEF Push, Log!Next, Log!Publish
<1>2. CASE Restart
  <2>1. {d \in Conns : api' = d} = {}
    BY <1>2, ConnsAssumption DEF Restart
  <2> QED
    BY <1>2, <2>1 DEF Restart, Log!Next, Log!Restart
<1>3. ASSUME NEW c \in Conns, NEW last \in 0..MaxId, Accept(c, last)
      PROVE  Log!Next
  BY <1>3, AcceptOpens DEF Log!Next
<1>4. ASSUME NEW c \in Conns, WorkerStep(c) \/ ClientLeaves(c)
      PROVE  UNCHANGED Log!vars
  BY <1>4 DEF WorkerStep, SendCatchUp, SendConnected, Forward, Keepalive, SendFails,
              ClientLeaves, ringVars, Log!vars
<1>5. ASSUME NEW c \in Conns, RespondFails(c)
      PROVE  Log!Next
  <2>1. {d \in Conns : api' = d} = {d \in Conns : api = d} \ {c}
    BY <1>5, ConnsAssumption DEF RespondFails, CanRead
  <2>2. Log!Drop(c)
    BY <1>5, <2>1 DEF RespondFails, ringVars, Log!Drop
  <2> QED
    BY <2>2 DEF Log!Next
<1>6. CASE UNCHANGED vars
  BY <1>6 DEF vars, ringVars, connVars, Log!vars
<1> QED
  BY <1>1, <1>2, <1>3, <1>4, <1>5, <1>6, ReadGivesNext DEF Next, ReadStep

(***************************************************************************)
(* The stream implements the event log: push publishes, accepting a        *)
(* connection opens it at an event the ring still holds or at the next     *)
(* one, a read gives the next events owed, and everything in between (the  *)
(* worker, its queues, a client that leaves) cannot be seen                *)
(* (sse.rs:34-66, api_server.rs:218-330).                                  *)
(***************************************************************************)
THEOREM ImplementsLog == Spec => LogSpec
<1>1. Init => Log!Init
  <2>1. Init => {d \in Conns : api = d} = {}
    BY ConnsAssumption DEF Init
  <2> QED
    BY <2>1 DEF Init, Log!Init
<1>2. TypeOK /\ TypeOK' /\ RingInv /\ DeliveryInv /\ [Next]_vars => [Log!Next]_(Log!vars)
  BY StepIsLogStep
<1> QED
  BY <1>1, <1>2, TypeCorrect, RingInvariant, DeliveryInvariant, PTL
  DEF Spec, LogSpec, Log!Spec

============================================================================
