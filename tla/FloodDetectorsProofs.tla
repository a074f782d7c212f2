------------------------ MODULE FloodDetectorsProofs ------------------------
(***************************************************************************)
(* Theorems about FloodDetectors, for any detectors, sources, windows,     *)
(* thresholds and cooldowns, and for any number of frames.                 *)
(***************************************************************************)
EXTENDS FloodDetectors, TLAPS

\* What every processed frame does to the entry of its source: the fields a
\* detector may set, and the condition it may fire under.
Processes(d, s, e, fires) ==
  /\ Record(d, s, e, fires)
  /\ e \in Entry
  /\ e.count = Counted(d, s).count /\ e.start = Counted(d, s).start
  /\ fires => e.count >= Threshold[d]
  /\ d = "deauth" => /\ e.last = state[d][s].last
                     /\ fires <=> e.count = Threshold[d]
  /\ d # "deauth" => IF fires THEN e.last = now /\ CooledDown(d, state[d][s])
                              ELSE /\ e.last = state[d][s].last
                                   /\ e.count < Threshold[d] \/ ~ CooledDown(d, state[d][s])

\* The three ways an entry is changed.
LEMMA EntryTypes ==
  ASSUME NEW o \in Entry, NEW n \in Nat
  PROVE  /\ [o EXCEPT !.count = 1, !.start = n] \in Entry
         /\ [o EXCEPT !.count = 1, !.start = n].last = o.last
         /\ [o EXCEPT !.count = @ + 1] \in Entry
         /\ [o EXCEPT !.count = @ + 1].last = o.last
         /\ [o EXCEPT !.last = n] \in Entry
<1>1. o.count + 1 \in Nat
  BY DEF Entry
<1> QED
  BY <1>1 DEF Entry

LEMMA CountedType ==
  ASSUME TypeOK, NEW d \in Detectors, NEW s \in Sources
  PROVE  /\ Counted(d, s) \in Entry
         /\ Counted(d, s).last = state[d][s].last
         /\ [Counted(d, s) EXCEPT !.last = now] \in Entry
         /\ [Counted(d, s) EXCEPT !.last = now].count = Counted(d, s).count
         /\ [Counted(d, s) EXCEPT !.last = now].start = Counted(d, s).start
         /\ [Counted(d, s) EXCEPT !.last = now].last = now
<1> DEFINE o == state[d][s]
<1>0. /\ o \in Entry /\ now \in Nat
      /\ Counted(d, s) = IF o.count = 0 \/ now - o.start > Window[d]
                           THEN [o EXCEPT !.count = 1, !.start = now]
                           ELSE [o EXCEPT !.count = @ + 1]
  BY DEF TypeOK, Counted
<1> HIDE DEF o
<1>1. Counted(d, s) \in Entry /\ Counted(d, s).last = o.last
  BY <1>0, EntryTypes
<1> QED
  BY <1>0, <1>1 DEF Entry, o

LEMMA CoolingProcesses ==
  ASSUME TypeOK, NEW d \in Detectors, d # "deauth", NEW s \in Sources, Cooling(d, s)
  PROVE  \E e \in Entry, fires \in BOOLEAN : Processes(d, s, e, fires)
<1> DEFINE c == Counted(d, s)
           fires == c.count >= Threshold[d] /\ CooledDown(d, c)
           e == IF fires THEN [c EXCEPT !.last = now] ELSE c
<1>1. Record(d, s, e, fires)
  BY DEF Cooling
<1>2. c.last = state[d][s].last /\ e \in Entry
      /\ e.count = c.count /\ e.start = c.start
      /\ IF fires THEN e.last = now ELSE e.last = c.last
  BY CountedType
<1>3. CooledDown(d, c) <=> CooledDown(d, state[d][s])
  BY <1>2 DEF CooledDown
<1>4. fires \in BOOLEAN
  OBVIOUS
<1>5. ~ fires => e.count < Threshold[d] \/ ~ CooledDown(d, state[d][s])
  <2>1. c.count \in Nat /\ Threshold[d] \in Nat
    BY CountedType, LimitsAssumption DEF Entry
  <2> QED
    BY <1>2, <1>3, <2>1
<1>6. Processes(d, s, e, fires)
  BY <1>1, <1>2, <1>3, <1>5 DEF Processes
<1> HIDE DEF e, fires
<1> QED
  BY <1>2, <1>4, <1>6

LEMMA FrameIsProcessed ==
  ASSUME TypeOK, Next, ~ Tick
  PROVE  \E d \in Detectors, s \in Sources, e \in Entry, fires \in BOOLEAN :
           Processes(d, s, e, fires)
<1>1. PICK s \in Sources :
        \/ "deauth" \in Detectors /\ DeauthFlood(s)
        \/ "probe" \in Detectors /\ ProbeFlood(s)
        \/ "beacon" \in Detectors /\ BeaconFlood(s)
        \/ "auth" \in Detectors /\ AuthFlood(s)
  BY DEF Next
<1>2. CASE "deauth" \in Detectors /\ DeauthFlood(s)
  <2> DEFINE e == Counted("deauth", s)
             fires == e.count = Threshold["deauth"]
  <2>1. e \in Entry /\ e.last = state["deauth"][s].last
    BY <1>2, CountedType
  <2>2. Record("deauth", s, e, fires)
    BY <1>2 DEF DeauthFlood
  <2>3. fires => e.count >= Threshold["deauth"]
    BY <2>1, <1>2, LimitsAssumption DEF Entry
  <2>4. Processes("deauth", s, e, fires) /\ fires \in BOOLEAN
    BY <2>1, <2>2, <2>3 DEF Processes
  <2> HIDE DEF e, fires
  <2> QED
    BY <2>1, <2>4, <1>2
<1>3. CASE "probe" \in Detectors /\ ProbeFlood(s)
  BY <1>3, CoolingProcesses DEF ProbeFlood
<1>4. CASE "beacon" \in Detectors /\ BeaconFlood(s)
  BY <1>4, CoolingProcesses DEF BeaconFlood
<1>5. CASE "auth" \in Detectors /\ AuthFlood(s)
  BY <1>5, CoolingProcesses DEF AuthFlood
<1> QED
  BY <1>1, <1>2, <1>3, <1>4, <1>5

\* What Record changes, and that nothing else of the four tables changes.
LEMMA RecordEffect ==
  ASSUME TypeOK, NEW d \in Detectors, NEW s \in Sources, NEW e \in Entry,
         NEW fires \in BOOLEAN, Record(d, s, e, fires)
  PROVE  /\ now' = now
         /\ state'[d][s] = e /\ frames'[d][s] = Append(frames[d][s], now)
         /\ \A x \in Detectors, y \in Sources : <<x, y>> # <<d, s>> =>
              state'[x][y] = state[x][y] /\ frames'[x][y] = frames[x][y]
         /\ state' \in [Detectors -> [Sources -> Entry]]
         /\ frames' \in [Detectors -> [Sources -> Seq(Nat)]]
         /\ alerts' = IF fires THEN alerts \union {Alert(d, s)} ELSE alerts
<1>1. state' = [state EXCEPT ![d][s] = e] /\ now' = now
      /\ frames' = [frames EXCEPT ![d][s] = Append(@, now)]
  BY DEF Record
<1>2. alerts' = IF fires THEN alerts \union {Alert(d, s)} ELSE alerts
  BY DEF Record
<1>3. Append(frames[d][s], now) \in Seq(Nat)
  BY DEF TypeOK
<1>4. state \in [Detectors -> [Sources -> Entry]]
      /\ frames \in [Detectors -> [Sources -> Seq(Nat)]]
  BY DEF TypeOK
<1>5. state'[d][s] = e /\ state' \in [Detectors -> [Sources -> Entry]]
  BY <1>1, <1>4
<1>6. frames'[d][s] = Append(frames[d][s], now)
      /\ frames' \in [Detectors -> [Sources -> Seq(Nat)]]
  BY <1>1, <1>3, <1>4
<1>7. \A x \in Detectors, y \in Sources : <<x, y>> # <<d, s>> =>
        state'[x][y] = state[x][y] /\ frames'[x][y] = frames[x][y]
  BY <1>1, <1>4
<1> QED
  BY <1>1, <1>2, <1>5, <1>6, <1>7

LEMMA TypeStep ==
  ASSUME TypeOK, [Next]_vars
  PROVE  TypeOK'
<1>1. CASE UNCHANGED vars
  BY <1>1 DEF TypeOK, vars
<1>2. CASE Tick
  BY <1>2 DEF TypeOK, Tick
<1>3. CASE Next /\ ~ Tick
  <2>1. PICK d \in Detectors, s \in Sources, e \in Entry, fires \in BOOLEAN :
          Processes(d, s, e, fires)
    BY <1>3, FrameIsProcessed
  <2>2. Record(d, s, e, fires)
    BY <2>1 DEF Processes
  <2>3. Alert(d, s) \in [det : Detectors, src : Sources, at : Nat, upto : Nat \ {0}]
    <3>1. now \in Nat /\ Len(frames[d][s]) \in Nat
      BY DEF TypeOK
    <3> QED
      BY <3>1 DEF Alert
  <2>4. alerts' \subseteq alerts \union {Alert(d, s)}
    BY <2>2, RecordEffect
  <2>5. alerts' \subseteq [det : Detectors, src : Sources, at : Nat, upto : Nat \ {0}]
    BY <2>3, <2>4 DEF TypeOK
  <2>6. ASSUME NEW x \in Detectors, NEW y \in Sources, x = "deauth"
        PROVE  state'[x][y].last = Never
    <3>1. state[x][y].last = Never
      BY <2>6 DEF TypeOK
    <3>2. CASE <<x, y>> = <<d, s>>
      BY <2>1, <2>2, <2>6, <3>1, <3>2, RecordEffect DEF Processes
    <3>3. CASE <<x, y>> # <<d, s>>
      <4>1. state'[x][y] = state[x][y]
        BY <2>2, <3>3, RecordEffect
      <4> QED
        BY <3>1, <4>1
    <3> QED
      BY <3>2, <3>3
  <2>7. now' = now /\ now \in Nat
    BY <2>2, RecordEffect DEF TypeOK
  <2>8. /\ state' \in [Detectors -> [Sources -> Entry]]
        /\ frames' \in [Detectors -> [Sources -> Seq(Nat)]]
    BY <2>2, RecordEffect
  <2> QED
    BY <2>5, <2>6, <2>7, <2>8 DEF TypeOK
<1> QED
  BY <1>1, <1>2, <1>3

LEMMA InitTypeOK == Init => TypeOK
  BY DEF Init, TypeOK, Entry, NoEntry, Never

(***************************************************************************)
(* The entries, frames and alerts of every detector stay well typed, and   *)
(* the deauth detector never gets a cooldown.                              *)
(***************************************************************************)
THEOREM TypeCorrect == Spec => []TypeOK
  BY InitTypeOK, TypeStep, PTL DEF Spec

----------------------------------------------------------------------------
\* What CountIsRecent says of one entry and the frames of its source.
InWindow(d, e, f) ==
  /\ e.count <= Len(f)
  /\ e.count = 0 => f = <<>>
  /\ \A i \in 1..Len(f) : f[i] <= now
  /\ \A i \in (Len(f) - e.count + 1)..Len(f) :
       f[i] >= e.start /\ f[i] <= e.start + Window[d]

LEMMA NewFrameInWindow ==
  ASSUME TypeOK, CountIsRecent, NEW d \in Detectors, NEW s \in Sources,
         NEW e \in Entry, e.count = Counted(d, s).count, e.start = Counted(d, s).start
  PROVE  InWindow(d, e, Append(frames[d][s], now)) /\ e.count \in Nat \ {0}
<1> DEFINE o == state[d][s]
           f == frames[d][s]
           g == Append(f, now)
<1>1. /\ o.count \in Nat /\ o.start \in Nat /\ now \in Nat /\ Window[d] \in Nat
      /\ f \in Seq(Nat) /\ Len(f) \in Nat
  BY LimitsAssumption DEF TypeOK, Entry
<1>2. InWindow(d, o, f)
  BY DEF CountIsRecent, InWindow
<1>4. Counted(d, s) = IF o.count = 0 \/ now - o.start > Window[d]
                        THEN [o EXCEPT !.count = 1, !.start = now]
                        ELSE [o EXCEPT !.count = @ + 1]
  BY DEF Counted
<1>5. o \in Entry
  BY DEF TypeOK
<1> HIDE DEF o, f
<1>3. /\ Len(g) = Len(f) + 1 /\ g[Len(f) + 1] = now
      /\ \A i \in 1..Len(f) : g[i] = f[i] /\ f[i] \in Nat
  BY <1>1
<1> HIDE DEF g
<1>9. \A i \in 1..Len(f) : f[i] <= now
  BY <1>2 DEF InWindow
<1>6. \A i \in 1..Len(g) : g[i] <= now
  <2> SUFFICES ASSUME NEW i \in 1..Len(g) PROVE g[i] <= now
    OBVIOUS
  <2>1. CASE i = Len(f) + 1
    BY <2>1, <1>1, <1>3
  <2>2. CASE i # Len(f) + 1
    <3>1. i \in 1..Len(f)
      BY <2>2, <1>1, <1>3
    <3> QED
      BY <3>1, <1>3, <1>9
  <2> QED
    BY <2>1, <2>2
<1>7. CASE o.count = 0 \/ now - o.start > Window[d]
  <2>1. e.count = 1 /\ e.start = now
    BY <1>4, <1>5, <1>7 DEF Entry
  <2>2. \A i \in (Len(g) - e.count + 1)..Len(g) : g[i] = now
    BY <2>1, <1>1, <1>3
  <2>3. e.count <= Len(g) /\ e.count \in Nat \ {0} /\ 1 <= Len(g)
    BY <2>1, <1>1, <1>3
  <2>4. InWindow(d, e, g)
    BY <2>1, <2>2, <2>3, <1>1, <1>6 DEF InWindow
  <2> QED
    BY <2>3, <2>4 DEF g, f
<1>8. CASE ~ (o.count = 0 \/ now - o.start > Window[d])
  <2>1. e.count = o.count + 1 /\ e.start = o.start
    BY <1>4, <1>5, <1>8 DEF Entry
  <2>2. o.count \in 1..Len(f)
    BY <1>1, <1>2, <1>8 DEF InWindow
  <2>3. \A i \in (Len(f) - o.count + 1)..Len(f) :
          f[i] >= o.start /\ f[i] <= o.start + Window[d] /\ f[i] <= now
    <3>1. \A i \in (Len(f) - o.count + 1)..Len(f) :
            f[i] >= o.start /\ f[i] <= o.start + Window[d]
      BY <1>2 DEF InWindow
    <3>2. \A i \in (Len(f) - o.count + 1)..Len(f) : i \in 1..Len(f)
      <4> DEFINE k == Len(f)
                 c == o.count
      <4>1. k \in Nat /\ c \in 1..k
        BY <1>1, <2>2
      <4> HIDE DEF k, c
      <4>2. \A i \in (k - c + 1)..k : i \in 1..k
        BY <4>1
      <4> QED
        BY <4>2 DEF k, c
    <3> QED
      BY <3>1, <3>2, <1>9
  <2>4. o.start <= now /\ now <= o.start + Window[d]
    <3>1. f[Len(f)] >= o.start /\ f[Len(f)] <= now /\ f[Len(f)] \in Nat
      BY <2>2, <2>3, <1>1, <1>3
    <3> QED
      BY <3>1, <1>1, <1>8
  <2>5. \A i \in (Len(g) - e.count + 1)..Len(g) :
          g[i] >= e.start /\ g[i] <= e.start + Window[d]
    <3> SUFFICES ASSUME NEW i \in (Len(g) - e.count + 1)..Len(g)
                 PROVE  g[i] >= e.start /\ g[i] <= e.start + Window[d]
      OBVIOUS
    <3>1. CASE i = Len(f) + 1
      BY <3>1, <2>1, <2>4, <1>1, <1>3
    <3>2. CASE i # Len(f) + 1
      <4>1. i \in (Len(f) - o.count + 1)..Len(f) /\ i \in 1..Len(f)
        <5> DEFINE k == Len(f)
                   c == o.count
        <5>1. /\ k \in Nat /\ c \in 1..k /\ i \in (k + 1 - (c + 1) + 1)..(k + 1)
              /\ i # k + 1
          <6>1. k \in Nat /\ c \in 1..k /\ i # k + 1
            BY <3>2, <2>2, <1>1, <1>3
          <6>2. Len(g) = k + 1 /\ e.count = c + 1
            BY <2>1, <2>2, <1>1, <1>3
          <6> QED
            BY <6>1, <6>2
        <5> HIDE DEF k, c
        <5>2. i \in (k - c + 1)..k /\ i \in 1..k
          BY <5>1
        <5> QED
          BY <5>2 DEF k, c
      <4> QED
        BY <4>1, <2>1, <2>3, <1>3
    <3> QED
      BY <3>1, <3>2
  <2>6. e.count <= Len(g) /\ e.count \in Nat \ {0}
    BY <2>1, <2>2, <1>1, <1>3
  <2>7. InWindow(d, e, g)
    BY <2>5, <2>6, <1>6 DEF InWindow
  <2> QED
    BY <2>6, <2>7 DEF g, f
<1> QED
  BY <1>7, <1>8

LEMMA CountStep ==
  ASSUME TypeOK, CountIsRecent, [Next]_vars
  PROVE  CountIsRecent'
<1>1. CASE UNCHANGED vars
  BY <1>1 DEF CountIsRecent, vars
<1>2. CASE Tick
  <2> SUFFICES ASSUME NEW d \in Detectors, NEW s \in Sources
               PROVE  InWindow(d, state[d][s], frames[d][s])'
    BY DEF CountIsRecent, InWindow
  <2>1. InWindow(d, state[d][s], frames[d][s])
    BY DEF CountIsRecent, InWindow
  <2>2. frames[d][s] \in Seq(Nat) /\ now \in Nat
    BY DEF TypeOK
  <2>3. now' = now + 1 /\ state' = state /\ frames' = frames
    BY <1>2 DEF Tick
  <2>4. \A i \in 1..Len(frames[d][s]) : frames[d][s][i] <= now + 1
    BY <2>1, <2>2 DEF InWindow
  <2> QED
    BY <2>1, <2>3, <2>4 DEF InWindow
<1>3. CASE Next /\ ~ Tick
  <2>1. PICK d \in Detectors, s \in Sources, e \in Entry, fires \in BOOLEAN :
          Processes(d, s, e, fires)
    BY <1>3, FrameIsProcessed
  <2>2. InWindow(d, e, Append(frames[d][s], now))
    BY <2>1, NewFrameInWindow DEF Processes
  <2>3. Record(d, s, e, fires)
    BY <2>1 DEF Processes
  <2> SUFFICES ASSUME NEW x \in Detectors, NEW y \in Sources
               PROVE  InWindow(x, state[x][y], frames[x][y])'
    BY DEF CountIsRecent, InWindow
  <2>4. CASE <<x, y>> = <<d, s>>
    <3>1. state'[x][y] = e /\ frames'[x][y] = Append(frames[d][s], now) /\ now' = now
      BY <2>3, <2>4, RecordEffect
    <3> QED
      BY <3>1, <2>2, <2>4 DEF InWindow
  <2>5. CASE <<x, y>> # <<d, s>>
    <3>1. state'[x][y] = state[x][y] /\ frames'[x][y] = frames[x][y] /\ now' = now
      BY <2>3, <2>5, RecordEffect
    <3>2. InWindow(x, state[x][y], frames[x][y])
      BY DEF CountIsRecent, InWindow
    <3> QED
      BY <3>1, <3>2 DEF InWindow
  <2> QED
    BY <2>4, <2>5
<1> QED
  BY <1>1, <1>2, <1>3

LEMMA InitCount == Init => CountIsRecent
  BY LimitsAssumption DEF Init, CountIsRecent, NoEntry

(***************************************************************************)
(* The frames a detector has counted are the latest ones of their source,  *)
(* and all came within Window of the start of its window.                  *)
(***************************************************************************)
THEOREM CountsAreRecent == Spec => []CountIsRecent
<1>1. TypeOK /\ CountIsRecent /\ [Next]_vars => CountIsRecent'
  BY CountStep
<1> QED
  BY <1>1, InitCount, TypeCorrect, PTL DEF Spec

----------------------------------------------------------------------------
\* Frames are only ever added.
LEMMA FramesGrow ==
  ASSUME TypeOK, [Next]_vars, NEW x \in Detectors, NEW y \in Sources
  PROVE  /\ Len(frames'[x][y]) \in Nat /\ Len(frames[x][y]) \in Nat
         /\ Len(frames'[x][y]) >= Len(frames[x][y])
         /\ \A i \in 1..Len(frames[x][y]) : frames'[x][y][i] = frames[x][y][i]
<1>0. frames[x][y] \in Seq(Nat)
  BY DEF TypeOK
<1>1. CASE frames'[x][y] = frames[x][y]
  BY <1>0, <1>1
<1>2. CASE frames' = frames
  BY <1>0, <1>2
<1>3. CASE Next /\ ~ Tick
  <2>1. PICK d \in Detectors, s \in Sources, e \in Entry, fires \in BOOLEAN :
          Processes(d, s, e, fires)
    BY <1>3, FrameIsProcessed
  <2>2. Record(d, s, e, fires)
    BY <2>1 DEF Processes
  <2>3. CASE <<x, y>> # <<d, s>>
    BY <2>2, <2>3, <1>1, RecordEffect
  <2>4. CASE <<x, y>> = <<d, s>>
    <3>1. frames'[x][y] = Append(frames[x][y], now)
      BY <2>2, <2>4, RecordEffect
    <3> QED
      BY <3>1, <1>0
  <2> QED
    BY <2>3, <2>4
<1> QED
  BY <1>2, <1>3 DEF Tick, vars

\* What AlertIsTrue says of one alert.
IsTrue(a) ==
  /\ a.at = frames[a.det][a.src][a.upto]
  /\ Burst(a.det, a.src, a.upto, Threshold[a.det], Window[a.det])

LEMMA TrueAlertStaysTrue ==
  ASSUME TypeOK, [Next]_vars, NEW a \in alerts, IsTrue(a)
  PROVE  IsTrue(a)'
<1> DEFINE d == a.det
           s == a.src
           n == Threshold[d]
<1>1. d \in Detectors /\ s \in Sources /\ a.upto \in Nat \ {0} /\ n \in Nat \ {0}
  BY LimitsAssumption DEF TypeOK
<1>2. /\ Len(frames'[d][s]) \in Nat /\ Len(frames[d][s]) \in Nat
      /\ Len(frames'[d][s]) >= Len(frames[d][s])
      /\ \A i \in 1..Len(frames[d][s]) : frames'[d][s][i] = frames[d][s][i]
  BY <1>1, FramesGrow
<1>3. /\ a.at = frames[d][s][a.upto] /\ a.upto \in n..Len(frames[d][s])
      /\ frames[d][s][a.upto] - frames[d][s][a.upto - n + 1] <= Window[d]
  BY DEF IsTrue, Burst
<1> DEFINE k == Len(frames[d][s])
           l == Len(frames'[d][s])
           u == a.upto
<1> HIDE DEF n
<1>4. a.upto \in 1..Len(frames[d][s]) /\ a.upto - n + 1 \in 1..Len(frames[d][s])
      /\ a.upto \in n..Len(frames'[d][s])
  <2>1. u \in n..k /\ n \in Nat \ {0}
    BY <1>1, <1>3
  <2>2. l \in Nat /\ k \in Nat /\ k <= l
    BY <1>2
  <2> HIDE DEF k, l, u
  <2>3. u \in 1..k /\ u - n + 1 \in 1..k /\ u \in n..l
    BY <2>1, <2>2
  <2> QED
    BY <2>3 DEF k, l, u
<1>5. /\ frames'[d][s][a.upto] = frames[d][s][a.upto]
      /\ frames'[d][s][a.upto - n + 1] = frames[d][s][a.upto - n + 1]
  BY <1>2, <1>4
<1> QED
  BY <1>3, <1>4, <1>5 DEF IsTrue, Burst, n

LEMMA NewAlertIsTrue ==
  ASSUME TypeOK, CountIsRecent, NEW d \in Detectors, NEW s \in Sources,
         NEW e \in Entry, Processes(d, s, e, TRUE), NEW a, a = Alert(d, s)
  PROVE  IsTrue(a)'
<1> DEFINE f == frames[d][s]
           g == Append(f, now)
           n == Threshold[d]
<1>1. frames'[d][s] = g /\ now' = now
  BY RecordEffect DEF Processes
<1>2. /\ f \in Seq(Nat) /\ now \in Nat /\ n \in Nat \ {0} /\ Window[d] \in Nat
      /\ e.start \in Nat
  BY LimitsAssumption DEF TypeOK, Entry
<1>3. InWindow(d, e, g) /\ e.count \in Nat \ {0} /\ e.count >= n
  BY NewFrameInWindow DEF Processes
<1> HIDE DEF f
<1>4. g \in Seq(Nat) /\ Len(g) = Len(f) + 1 /\ Len(f) \in Nat /\ g[Len(g)] = now
  BY <1>2
<1> HIDE DEF g, n
<1>5. Len(g) - n + 1 \in (Len(g) - e.count + 1)..Len(g) /\ n <= Len(g)
  BY <1>2, <1>3, <1>4 DEF InWindow
<1>6. g[Len(g) - n + 1] >= e.start /\ now <= e.start + Window[d]
  <2>1. Len(g) \in (Len(g) - e.count + 1)..Len(g)
    BY <1>3, <1>4
  <2> QED
    BY <2>1, <1>3, <1>4, <1>5 DEF InWindow
<1>7. g[Len(g) - n + 1] \in Nat
  BY <1>2, <1>4, <1>5
<1>8. g[Len(g)] - g[Len(g) - n + 1] <= Window[d] /\ Len(g) \in n..Len(g)
  <2>1. now - g[Len(g) - n + 1] <= Window[d]
    BY <1>2, <1>6, <1>7
  <2>2. Len(g) \in n..Len(g)
    BY <1>2, <1>4, <1>5
  <2> QED
    BY <2>1, <2>2, <1>4
<1>9. a.det = d /\ a.src = s /\ a.at = now /\ a.upto = Len(g)
  BY <1>4 DEF Alert, f
<1> QED
  BY <1>1, <1>4, <1>8, <1>9 DEF IsTrue, Burst, n

(***************************************************************************)
(* No false alarm: whenever a flood alert was fired, the last Threshold    *)
(* frames of its source had come within Window (deauth_flood.rs:23-33 and  *)
(* the same lines of the other three), for any traffic.                    *)
(***************************************************************************)
THEOREM NoFalseAlarm == Spec => []AlertIsTrue
<1>1. Init => AlertIsTrue
  BY DEF Init, AlertIsTrue
<1>2. TypeOK /\ CountIsRecent /\ AlertIsTrue /\ [Next]_vars => AlertIsTrue'
  <2> SUFFICES ASSUME TypeOK, CountIsRecent, AlertIsTrue, [Next]_vars,
                      NEW a \in alerts'
               PROVE  IsTrue(a)'
    BY DEF AlertIsTrue, IsTrue
  <2>1. CASE a \in alerts
    BY <2>1, TrueAlertStaysTrue DEF AlertIsTrue, IsTrue
  <2>2. CASE a \notin alerts
    <3>1. Next /\ ~ Tick
      BY <2>2 DEF Tick, vars
    <3>2. PICK d \in Detectors, s \in Sources, e \in Entry, fires \in BOOLEAN :
            Processes(d, s, e, fires)
      BY <3>1, FrameIsProcessed
    <3>3. fires = TRUE /\ a = Alert(d, s)
      BY <2>2, <3>2, RecordEffect DEF Processes
    <3> QED
      BY <3>2, <3>3, NewAlertIsTrue
  <2> QED
    BY <2>1, <2>2
<1> QED
  BY <1>1, <1>2, TypeCorrect, CountsAreRecent, PTL DEF Spec

----------------------------------------------------------------------------
\* How far an alert of the deauth detector lies behind, while the count of
\* its source is below the threshold and after it; and where the other
\* detectors remember their latest alert.
SpacedFrom(a, e, f) ==
  /\ a.upto <= Len(f)
  /\ IF a.det = "deauth"
       THEN a.upto + e.count <=
              Len(f) + (IF e.count < Threshold["deauth"] THEN 0 ELSE Threshold["deauth"])
       ELSE e.last # Never /\ a.at <= e.last

Behind == \A a \in alerts : SpacedFrom(a, state[a.det][a.src], frames[a.det][a.src])

LEMMA FrameCountNat ==
  ASSUME TypeOK, NEW d \in Detectors, NEW s \in Sources
  PROVE  Len(frames[d][s]) \in Nat
BY DEF TypeOK

LEMMA BehindAfterOneMore ==
  ASSUME NEW u \in Nat, NEW k \in Nat, NEW T \in Nat \ {0}, NEW old \in Nat, NEW new \in Nat,
         u <= k, new = 1 \/ new = old + 1,
         u + old <= k + (IF old < T THEN 0 ELSE T)
  PROVE  u + new <= k + 1 + (IF new < T THEN 0 ELSE T)
<1>1. CASE new = 1
  <2>1. u + new <= k + 1
    BY <1>1
  <2> QED
    BY <2>1
<1>2. CASE new = old + 1 /\ old < T
  <2>1. u + new <= k + 1
    BY <1>2
  <2> QED
    BY <2>1
<1>3. CASE new = old + 1 /\ ~ (old < T)
  <2>1. u + old <= k + T /\ ~ (new < T)
    BY <1>3
  <2>2. u + new <= k + 1 + T
    BY <2>1, <1>3
  <2> QED
    BY <2>1, <2>2
<1> QED
  BY <1>1, <1>2, <1>3

LEMMA OldAlertBehind ==
  ASSUME TypeOK, Behind, NEW d \in Detectors, NEW s \in Sources, NEW e \in Entry,
         NEW fires \in BOOLEAN, Processes(d, s, e, fires), NEW a \in alerts
  PROVE  /\ SpacedFrom(a, state[a.det][a.src], frames[a.det][a.src])'
         /\ <<a.det, a.src>> = <<d, s>> /\ fires =>
              /\ a.upto < Len(frames[d][s]) + 1
              /\ IF d = "deauth" THEN Len(frames[d][s]) + 1 - a.upto >= Threshold[d]
                                 ELSE now - a.at > Cooldown[d]
<1> DEFINE o == state[d][s]
           k == Len(frames[d][s])
<1>1. a.det \in Detectors /\ a.src \in Sources /\ a.upto \in Nat \ {0} /\ a.at \in Nat
  BY DEF TypeOK
<1>2. SpacedFrom(a, state[a.det][a.src], frames[a.det][a.src])
  BY DEF Behind
<1>3. Record(d, s, e, fires)
  BY DEF Processes
<1>4. CASE <<a.det, a.src>> # <<d, s>>
  <2>1. state'[a.det][a.src] = state[a.det][a.src]
        /\ frames'[a.det][a.src] = frames[a.det][a.src]
    BY <1>1, <1>3, <1>4, RecordEffect
  <2> QED
    BY <1>2, <1>4, <2>1 DEF SpacedFrom
<1>5. CASE <<a.det, a.src>> = <<d, s>>
  <2>1. state'[d][s] = e /\ frames'[d][s] = Append(frames[d][s], now)
    BY <1>3, RecordEffect
  <2>2. /\ o \in Entry /\ k \in Nat /\ Len(frames'[d][s]) = k + 1 /\ now \in Nat
        /\ Threshold[d] \in Nat \ {0} /\ Cooldown[d] \in Nat
    BY <2>1, LimitsAssumption DEF TypeOK
  <2>3. a.upto <= k
    BY <1>2, <1>5 DEF SpacedFrom
  <2>4. CASE d = "deauth"
    <3>1. e.count = 1 \/ e.count = o.count + 1
      <4>1. Counted(d, s).count = 1 \/ Counted(d, s).count = o.count + 1
        BY <2>2 DEF Counted, Entry
      <4> QED
        BY <4>1 DEF Processes
    <3>2. fires => e.count = Threshold[d]
      BY <2>4 DEF Processes
    <3>3. a.upto + o.count <= k + (IF o.count < Threshold[d] THEN 0 ELSE Threshold[d])
      BY <1>2, <1>5, <2>4 DEF SpacedFrom
    <3>4. o.count \in Nat /\ e.count \in Nat
      BY <2>2 DEF Entry
    <3> HIDE DEF o, k
    <3>5. a.upto + e.count <= k + 1 + (IF e.count < Threshold[d] THEN 0 ELSE Threshold[d])
      BY <1>1, <2>2, <2>3, <3>1, <3>3, <3>4, BehindAfterOneMore
    <3>6. fires => k + 1 - a.upto >= Threshold[d]
      BY <1>1, <2>2, <2>3, <3>1, <3>2, <3>3, <3>4
    <3>7. a.upto <= k + 1 /\ a.upto < k + 1
      BY <1>1, <2>2, <2>3
    <3> QED
      BY <1>5, <2>1, <2>2, <2>4, <3>5, <3>6, <3>7 DEF SpacedFrom, k
  <2>5. CASE d # "deauth"
    <3>1. o.last # Never /\ a.at <= o.last
      BY <1>2, <1>5, <2>5 DEF SpacedFrom
    <3>2. IF fires THEN e.last = now /\ CooledDown(d, o) ELSE e.last = o.last
      BY <2>5 DEF Processes
    <3>3. o.last \in Nat /\ Never \notin Nat
      BY <2>2, <3>1 DEF Entry, Never
    <3> HIDE DEF o, k
    <3>4. fires => now - o.last > Cooldown[d]
      BY <3>1, <3>2 DEF CooledDown
    <3>5. fires => now - a.at > Cooldown[d]
      BY <1>1, <2>2, <3>1, <3>3, <3>4
    <3>6. e.last # Never /\ a.at <= e.last
      BY <1>1, <2>2, <3>1, <3>2, <3>3, <3>4
    <3>7. a.upto <= k + 1 /\ a.upto < k + 1
      BY <1>1, <2>2, <2>3
    <3> QED
      BY <1>5, <2>1, <2>2, <2>5, <3>5, <3>6, <3>7 DEF SpacedFrom, k
  <2> QED
    BY <2>4, <2>5
<1> QED
  BY <1>4, <1>5

LEMMA NewAlertBehind ==
  ASSUME TypeOK, NEW d \in Detectors, NEW s \in Sources, NEW e \in Entry,
         Processes(d, s, e, TRUE), NEW a, a = Alert(d, s)
  PROVE  SpacedFrom(a, state[a.det][a.src], frames[a.det][a.src])'
<1>1. state' = [state EXCEPT ![d][s] = e]
      /\ frames' = [frames EXCEPT ![d][s] = Append(@, now)]
  BY DEF Processes, Record
<1>2. state'[d][s] = e /\ frames'[d][s] = Append(frames[d][s], now)
  BY <1>1 DEF TypeOK
<1>3. /\ Len(frames[d][s]) \in Nat /\ Len(frames'[d][s]) = Len(frames[d][s]) + 1
      /\ now \in Nat /\ Threshold[d] \in Nat \ {0}
  BY <1>2, LimitsAssumption DEF TypeOK
<1>4. a.det = d /\ a.src = s /\ a.at = now /\ a.upto = Len(frames[d][s]) + 1
  BY DEF Alert
<1>5. CASE d = "deauth"
  <2>1. e.count = Threshold[d]
    BY <1>5 DEF Processes
  <2>2. a.upto <= Len(frames'[d][s]) /\ ~ (e.count < Threshold[d])
    BY <1>3, <1>4, <2>1
  <2>3. a.upto + e.count <= Len(frames'[d][s]) + Threshold[d]
    BY <1>3, <1>4, <2>1
  <2> QED
    BY <1>2, <1>4, <1>5, <2>2, <2>3 DEF SpacedFrom
<1>6. CASE d # "deauth"
  <2>1. e.last = now
    BY <1>6 DEF Processes
  <2>2. e.last # Never /\ a.at <= e.last
    BY <1>3, <1>4, <2>1 DEF Never
  <2>3. a.upto <= Len(frames'[d][s])
    BY <1>3, <1>4
  <2> QED
    BY <1>2, <1>4, <1>6, <2>2, <2>3 DEF SpacedFrom
<1> QED
  BY <1>5, <1>6

(***************************************************************************)
(* No alert storm: for any traffic, two alerts of a detector about one     *)
(* source are more than its cooldown apart, and two of the deauth detector *)
(* share no frame (deauth_flood.rs:33, probe_flood.rs:42-47).              *)
(***************************************************************************)
THEOREM NoAlertStorm == Spec => []AlertsAreSpaced
<1>1. Init => Behind /\ AlertsAreSpaced
  BY DEF Init, Behind, AlertsAreSpaced
<1>2. TypeOK /\ Behind /\ AlertsAreSpaced /\ [Next]_vars => (Behind /\ AlertsAreSpaced)'
  <2> SUFFICES ASSUME TypeOK, Behind, AlertsAreSpaced, [Next]_vars
               PROVE  (Behind /\ AlertsAreSpaced)'
    OBVIOUS
  <2>1. CASE UNCHANGED <<state, frames, alerts>>
    BY <2>1 DEF Behind, AlertsAreSpaced, SpacedFrom
  <2>2. CASE Next /\ ~ Tick
    <3>1. PICK d \in Detectors, s \in Sources, e \in Entry, fires \in BOOLEAN :
            Processes(d, s, e, fires)
      BY <2>2, FrameIsProcessed
    <3>2. Record(d, s, e, fires)
      BY <3>1 DEF Processes
    <3>3. alerts' = IF fires THEN alerts \union {Alert(d, s)} ELSE alerts
      BY <3>2, RecordEffect
    <3>4. Behind'
      <4> SUFFICES ASSUME NEW a \in alerts'
                   PROVE  SpacedFrom(a, state[a.det][a.src], frames[a.det][a.src])'
        BY DEF Behind
      <4> QED
        BY <3>1, <3>3, OldAlertBehind, NewAlertBehind
    <3>5. AlertsAreSpaced'
      <4> SUFFICES ASSUME NEW a \in alerts', NEW b \in alerts',
                          a.det = b.det, a.src = b.src, a.upto < b.upto
                   PROVE  IF a.det = "deauth" THEN b.upto - a.upto >= Threshold["deauth"]
                                              ELSE b.at - a.at > Cooldown[a.det]
        BY DEF AlertsAreSpaced
      <4>1. CASE a \in alerts /\ b \in alerts
        BY <4>1 DEF AlertsAreSpaced
      <4>2. CASE a \in alerts /\ b \notin alerts
        <5>1. fires /\ b = Alert(d, s)
          BY <3>3, <4>2
        <5>2. b.det = d /\ b.src = s /\ b.at = now /\ b.upto = Len(frames[d][s]) + 1
          BY <5>1 DEF Alert
        <5>3. <<a.det, a.src>> = <<d, s>>
          BY <5>2
        <5>4. IF d = "deauth" THEN Len(frames[d][s]) + 1 - a.upto >= Threshold[d]
                              ELSE now - a.at > Cooldown[d]
          BY <3>1, <4>2, <5>1, <5>3, OldAlertBehind
        <5>5. a.det = d
          BY <5>3
        <5>6. CASE d = "deauth"
          <6>1. Len(frames[d][s]) + 1 - a.upto >= Threshold["deauth"]
            BY <5>4, <5>6
          <6>2. a.upto \in Nat /\ Len(frames[d][s]) \in Nat
            BY <4>2, FrameCountNat DEF TypeOK
          <6>3. b.upto - a.upto >= Threshold["deauth"]
            BY <6>1, <6>2, <5>2
          <6> QED
            BY <6>3, <5>5, <5>6
        <5>7. CASE d # "deauth"
          BY <5>2, <5>4, <5>5, <5>7
        <5> QED
          BY <5>6, <5>7
      <4>3. CASE a \notin alerts
        <5>1. fires /\ a = Alert(d, s)
          BY <3>3, <4>3
        <5>2. a.det = d /\ a.src = s /\ a.upto = Len(frames[d][s]) + 1
          BY <5>1 DEF Alert
        <5>3. b \in alerts
          BY <3>3, <5>1, <5>2, <4>3, FrameCountNat
        <5>4. b.upto < Len(frames[d][s]) + 1
          BY <3>1, <5>1, <5>2, <5>3, OldAlertBehind
        <5> QED
          BY <5>2, <5>3, <5>4, FrameCountNat DEF TypeOK
      <4> QED
        BY <4>1, <4>2, <4>3
    <3> QED
      BY <3>4, <3>5
  <2> QED
    BY <2>1, <2>2 DEF Tick, vars
<1> QED
  BY <1>1, <1>2, TypeCorrect, PTL DEF Spec

----------------------------------------------------------------------------
\* A new alert of the time of the frame, and none is ever taken back.
LEMMA AlertsGrow ==
  ASSUME TypeOK, NEW d \in Detectors, NEW s \in Sources, NEW e \in Entry,
         NEW fires \in BOOLEAN, Processes(d, s, e, fires)
  PROVE  /\ alerts \subseteq alerts'
         /\ fires => \E a \in alerts' : a.det = d /\ a.src = s /\ a.at = now
<1>1. alerts' = IF fires THEN alerts \union {Alert(d, s)} ELSE alerts
  BY RecordEffect DEF Processes
<1>2. alerts \subseteq alerts'
  BY <1>1
<1>3. ASSUME fires
      PROVE  \E a \in alerts' : a.det = d /\ a.src = s /\ a.at = now
  <2>1. Alert(d, s) \in alerts'
    BY <1>1, <1>3
  <2>2. Alert(d, s).det = d /\ Alert(d, s).src = s /\ Alert(d, s).at = now
    BY DEF Alert
  <2> QED
    BY <2>1, <2>2
<1> QED
  BY <1>2, <1>3

\* An alert since some time is one since any earlier time.
LEMMA AlertedEarlier ==
  ASSUME TypeOK, NEW d, NEW s, NEW t \in Int, NEW u \in Int, u <= t, AlertedSince(d, s, t)
  PROVE  AlertedSince(d, s, u)
<1>1. PICK a \in alerts : a.det = d /\ a.src = s /\ a.at >= t
  BY DEF AlertedSince
<1>2. a.at \in Nat
  BY DEF TypeOK
<1> QED
  BY <1>1, <1>2 DEF AlertedSince

LEMMA AlertedStays ==
  ASSUME NEW d, NEW s, NEW t, AlertedSince(d, s, t), alerts \subseteq alerts'
  PROVE  AlertedSince(d, s, t)'
  BY DEF AlertedSince

LEMMA SlackNat ==
  ASSUME NEW d \in Detectors
  PROVE  Slack(d) \in Nat
  BY LimitsAssumption DEF Slack

\* The window of the new frame: the same one, or one that it starts.
LEMMA SameOrNewWindow ==
  ASSUME TypeOK, NEW d \in Detectors, NEW s \in Sources, NEW e \in Entry,
         e.count = Counted(d, s).count, e.start = Counted(d, s).start
  PROVE  \/ /\ e.count = state[d][s].count + 1 /\ e.start = state[d][s].start
            /\ state[d][s].count # 0 /\ now - state[d][s].start <= Window[d]
         \/ /\ e.count = 1 /\ e.start = now
            /\ state[d][s].count = 0 \/ now - state[d][s].start > Window[d]
<1> DEFINE o == state[d][s]
<1>1. /\ o \in Entry /\ now \in Nat /\ Window[d] \in Nat
      /\ Counted(d, s) = IF o.count = 0 \/ now - o.start > Window[d]
                           THEN [o EXCEPT !.count = 1, !.start = now]
                           ELSE [o EXCEPT !.count = @ + 1]
  BY LimitsAssumption DEF TypeOK, Counted
<1> HIDE DEF o
<1>2. CASE o.count = 0 \/ now - o.start > Window[d]
  BY <1>1, <1>2 DEF Entry, o
<1>3. CASE ~ (o.count = 0 \/ now - o.start > Window[d])
  <2>1. e.count = o.count + 1 /\ e.start = o.start
    BY <1>1, <1>3 DEF Entry
  <2>2. now - o.start <= Window[d]
    BY <1>1, <1>3 DEF Entry
  <2> QED
    BY <1>3, <2>1, <2>2 DEF o
<1> QED
  BY <1>2, <1>3

\* A window that reaches the threshold is alerted on, or the cooldown of the
\* alert remembered in the entry reaches into it.
LEMMA NewFrameAlerted ==
  ASSUME TypeOK, CountIsRecent, BurstInv, NEW d \in Detectors, NEW s \in Sources,
         NEW e \in Entry, NEW fires \in BOOLEAN, Processes(d, s, e, fires)
  PROVE  WindowAlerted(d, s)'
<1> DEFINE o == state[d][s]
           T == Threshold[d]
<1>1. /\ o \in Entry /\ now \in Nat /\ T \in Nat \ {0} /\ Cooldown[d] \in Nat
      /\ e.start \in Nat /\ e.count \in Nat /\ o.count \in Nat /\ Slack(d) \in Nat
      /\ Window[d] \in Nat
  BY LimitsAssumption, SlackNat DEF TypeOK, Entry
<1>2. /\ alerts \subseteq alerts' /\ state'[d][s] = e
      /\ fires => \E a \in alerts' : a.det = d /\ a.src = s /\ a.at = now
  BY AlertsGrow, RecordEffect DEF Processes
<1>3. /\ o.last # Never => \E a \in alerts : a.det = d /\ a.src = s /\ a.at = o.last
      /\ o.count >= T => AlertedSince(d, s, o.start - Slack(d))
  BY DEF BurstInv, WindowAlerted
<1>4. e.start <= now
  <2>1. InWindow(d, e, Append(frames[d][s], now)) /\ e.count \in Nat \ {0}
    BY NewFrameInWindow DEF Processes
  <2> DEFINE g == Append(frames[d][s], now)
             n == Len(g)
  <2>2. n \in Nat \ {0} /\ g[n] = now
    BY <1>1 DEF TypeOK
  <2> HIDE DEF g
  <2>3. n \in (n - e.count + 1)..n
    <3> HIDE DEF n
    <3> QED
      BY <2>1, <2>2
  <2>4. g[n] >= e.start
    BY <2>1, <2>3 DEF InWindow, g
  <2> QED
    BY <1>1, <2>2, <2>4
<1>5. e.last # Never => \E a \in alerts' : a.det = d /\ a.src = s /\ a.at = e.last
  <2>1. e.last = o.last \/ (fires /\ e.last = now)
    BY DEF Processes
  <2> HIDE DEF o
  <2> QED
    BY <1>2, <1>3, <2>1
<1>6. ASSUME e.count >= T PROVE AlertedSince(d, s, e.start - Slack(d))'
  <2>1. CASE fires
    <3>1. PICK a \in alerts' : a.det = d /\ a.src = s /\ a.at = now
      BY <1>2, <2>1
    <3>2. a.at >= e.start - Slack(d)
      BY <1>1, <1>4, <3>1
    <3> QED
      BY <3>1, <3>2 DEF AlertedSince
  <2>2. CASE ~ fires /\ d = "deauth"
    <3>1. e.count # T
      BY <2>2 DEF Processes
    <3>2. e.count = o.count + 1 /\ e.start = o.start
      <4>1. e.count # 1
        BY <1>1, <1>6, <3>1
      <4>2. e.count = Counted(d, s).count /\ e.start = Counted(d, s).start
        BY DEF Processes
      <4> QED
        BY <4>1, <4>2, SameOrNewWindow
    <3>3. o.count >= T
      BY <1>1, <1>6, <3>1, <3>2
    <3>4. AlertedSince(d, s, e.start - Slack(d))
      BY <1>3, <3>2, <3>3
    <3> DEFINE t == e.start - Slack(d)
    <3>5. AlertedSince(d, s, t)
      BY <3>4
    <3> HIDE DEF t
    <3>6. AlertedSince(d, s, t)'
      BY <1>2, <3>5, AlertedStays DEF t, AlertedSince, Slack
    <3> QED
      BY <3>6 DEF t
  <2>3. CASE ~ fires /\ d # "deauth"
    <3>1. ~ CooledDown(d, o)
      BY <1>1, <1>6, <2>3 DEF Processes
    <3>2. o.last # Never /\ o.last \in Nat /\ now - o.last <= Cooldown[d]
      <4>1. o.last # Never /\ ~ (now - o.last > Cooldown[d]) /\ o.last \in Nat
        BY <1>1, <3>1 DEF CooledDown, Entry
      <4> HIDE DEF o
      <4> QED
        BY <1>1, <4>1
    <3>3. PICK a \in alerts : a.det = d /\ a.src = s /\ a.at = o.last
      BY <1>3, <3>2
    <3>4. Slack(d) = Cooldown[d]
      BY <2>3 DEF Slack
    <3> HIDE DEF o
    <3>5. a.at >= e.start - Slack(d)
      BY <1>1, <1>4, <3>2, <3>3, <3>4
    <3> QED
      BY <1>2, <3>3, <3>5 DEF AlertedSince
  <2> QED
    BY <2>1, <2>2, <2>3
<1> QED
  BY <1>2, <1>5, <1>6 DEF WindowAlerted, Slack

\* Frames before the present window came before it, and Threshold of them that
\* no start of a window separates were alerted on.
LEMMA NewFrameEarlier ==
  ASSUME TypeOK, CountIsRecent, BurstInv, NEW d \in Detectors, NEW s \in Sources,
         NEW e \in Entry, NEW fires \in BOOLEAN, Processes(d, s, e, fires)
  PROVE  EarlierAlerted(d, s)'
<1> DEFINE o == state[d][s]
           c == o.count
           st == o.start
           f == frames[d][s]
           g == Append(f, now)
           k == Len(f)
           T == Threshold[d]
           W == Window[d]
           X == Slack(d)
           Since(t) == AlertedSince(d, s, t)
<1>1. /\ o \in Entry /\ c \in Nat /\ st \in Nat /\ now \in Nat
      /\ T \in Nat \ {0} /\ W \in Nat /\ X \in Nat /\ k \in Nat /\ f \in Seq(Nat)
  BY LimitsAssumption, SlackNat DEF TypeOK, Entry
<1>2. state'[d][s] = e /\ frames'[d][s] = g /\ alerts \subseteq alerts'
  BY AlertsGrow, RecordEffect DEF Processes
<1>3. /\ Len(g) = k + 1 /\ g[k + 1] = now
      /\ \A i \in 1..k : g[i] = f[i] /\ f[i] \in Nat
  <2> HIDE DEF f
  <2> QED
    BY <1>1
<1>4. /\ c <= k /\ (c = 0 => k = 0)
      /\ \A i \in 1..k : f[i] <= now
      /\ \A i \in (k - c + 1)..k : f[i] >= st /\ f[i] <= st + W
  BY DEF CountIsRecent
<1>5. /\ c >= T => Since(st - X)
      /\ \A i \in 1..(k - c) : f[i] <= st
      /\ \A i \in 1..((k - c) - T + 1) : f[i] + W < st \/ Since(f[i] - W - X)
  BY DEF BurstInv, WindowAlerted, EarlierAlerted
<1>6. \/ /\ e.count = c + 1 /\ e.start = st
         /\ c # 0 /\ now - st <= W
      \/ /\ e.count = 1 /\ e.start = now
         /\ c = 0 \/ now - st > W
  <2>1. e.count = Counted(d, s).count /\ e.start = Counted(d, s).start
    BY DEF Processes
  <2> QED
    BY <2>1, SameOrNewWindow
<1>7. \A t \in Int, u \in Int : Since(t) /\ u <= t => Since(u)
  BY AlertedEarlier
<1> HIDE DEF o, c, st, f, g, k, T, W, X, Since
<1> DEFINE before == (k + 1) - e.count
<1>8. \A i \in 1..before : g[i] <= e.start
  <2>1. CASE e.count = c + 1 /\ e.start = st
    BY <1>1, <1>3, <1>4, <1>5, <2>1
  <2>2. CASE e.count = 1 /\ e.start = now
    BY <1>1, <1>3, <1>4, <2>2
  <2> QED
    BY <1>6, <2>1, <2>2
<1>9. ASSUME NEW i \in 1..(before - T + 1)
      PROVE  g[i] + W < e.start \/ Since(g[i] - W - X)
  <2>1. CASE e.count = c + 1 /\ e.start = st
    <3>1. before = k - c
      BY <1>1, <2>1
    <3>2. i \in 1..((k - c) - T + 1) /\ i \in 1..k
      BY <1>1, <1>4, <3>1
    <3> QED
      BY <1>3, <1>5, <2>1, <3>2
  <2>2. CASE e.count = 1 /\ e.start = now /\ (c = 0 \/ now - st > W)
    <3>1. before = k
      BY <1>1, <2>2
    <3>2. i \in 1..(k - T + 1) /\ i \in 1..k
      BY <1>1, <3>1
    <3>3. c # 0 /\ now - st > W /\ g[i] = f[i] /\ f[i] \in Nat
      BY <1>1, <1>3, <1>4, <2>2, <3>2
    <3>4. CASE c >= T
      <4>1. Since(st - X)
        BY <1>5, <3>4
      <4>2. f[i] <= st + W
        <5>1. CASE i \in 1..(k - c)
          BY <1>1, <1>5, <3>3, <5>1
        <5>2. CASE i \notin 1..(k - c)
          <6>1. i \in (k - c + 1)..k
            BY <1>1, <1>4, <3>2, <5>2
          <6> QED
            BY <1>4, <6>1
        <5> QED
          BY <5>1, <5>2
      <4>3. f[i] - W - X <= st - X /\ f[i] - W - X \in Int /\ st - X \in Int
        BY <1>1, <3>3, <4>2
      <4> QED
        BY <1>7, <3>3, <4>1, <4>3
    <3>5. CASE c < T
      <4>1. i \in 1..(k - c)
        BY <1>1, <1>4, <3>2, <3>5
      <4>2. f[i] <= st
        BY <1>5, <4>1
      <4> QED
        BY <1>1, <2>2, <3>3, <4>2
    <3> QED
      BY <1>1, <3>4, <3>5
  <2> QED
    BY <1>6, <2>1, <2>2
<1>10. ASSUME NEW i \in 1..(before - T + 1)
       PROVE  \/ g[i] + W < e.start
              \/ \E a \in alerts' : a.det = d /\ a.src = s /\ a.at >= g[i] - W - X
  BY <1>2, <1>9 DEF Since, AlertedSince
<1> QED
  BY <1>2, <1>3, <1>8, <1>10 DEF EarlierAlerted, AlertedSince, T, W, X, Slack

LEMMA BurstInvariant == Spec => []BurstInv
<1>1. Init => BurstInv
  BY LimitsAssumption
  DEF Init, BurstInv, WindowAlerted, EarlierAlerted, NoEntry, Never
<1>2. TypeOK /\ CountIsRecent /\ BurstInv /\ [Next]_vars => BurstInv'
  <2> SUFFICES ASSUME TypeOK, CountIsRecent, BurstInv, [Next]_vars PROVE BurstInv'
    OBVIOUS
  <2>1. CASE UNCHANGED <<state, frames, alerts>>
    BY <2>1 DEF BurstInv, WindowAlerted, EarlierAlerted, AlertedSince, Slack
  <2>2. CASE Next /\ ~ Tick
    <3>1. PICK d \in Detectors, s \in Sources, e \in Entry, fires \in BOOLEAN :
            Processes(d, s, e, fires)
      BY <2>2, FrameIsProcessed
    <3> SUFFICES ASSUME NEW x \in Detectors, NEW y \in Sources
                 PROVE  (WindowAlerted(x, y) /\ EarlierAlerted(x, y))'
      BY DEF BurstInv
    <3>2. CASE <<x, y>> = <<d, s>>
      BY <3>1, <3>2, NewFrameAlerted, NewFrameEarlier
    <3>3. CASE <<x, y>> # <<d, s>>
      <4>1. state'[x][y] = state[x][y] /\ frames'[x][y] = frames[x][y] /\ alerts \subseteq alerts'
        BY <3>1, <3>3, AlertsGrow, RecordEffect DEF Processes
      <4>2. WindowAlerted(x, y) /\ EarlierAlerted(x, y)
        BY DEF BurstInv
      <4>3. WindowAlerted(x, y)'
        BY <4>1, <4>2 DEF WindowAlerted, AlertedSince, Slack
      <4>4. EarlierAlerted(x, y)'
        BY <4>1, <4>2 DEF EarlierAlerted, AlertedSince, Slack
      <4> QED
        BY <4>3, <4>4
    <3> QED
      BY <3>2, <3>3
  <2> QED
    BY <2>1, <2>2 DEF Tick, vars
<1> QED
  BY <1>1, <1>2, TypeCorrect, CountsAreRecent, PTL DEF Spec

(***************************************************************************)
(* No missed flood: for any traffic, 2 * Threshold - 1 frames of a source  *)
(* within Window are alerted on, wherever the windows of the detector fall *)
(* (deauth_flood.rs:26-33, probe_flood.rs:34-47).                          *)
(***************************************************************************)
THEOREM NoMissedFlood == Spec => []FloodIsAlerted
<1>1. TypeOK /\ CountIsRecent /\ BurstInv => FloodIsAlerted
  <2> SUFFICES ASSUME TypeOK, CountIsRecent, BurstInv,
                      NEW d \in Detectors, NEW s \in Sources, BigBurst(d, s)
               PROVE  AlertedSince(d, s, frames[d][s][Len(frames[d][s]) - 2 * Threshold[d] + 2]
                        - (IF d = "deauth" THEN Window[d] ELSE Window[d] + Cooldown[d]))
    BY DEF FloodIsAlerted
  <2> DEFINE e == state[d][s]
             c == e.count
             st == e.start
             f == frames[d][s]
             k == Len(f)
             T == Threshold[d]
             W == Window[d]
             X == Slack(d)
             p == k - 2 * T + 2
             Since(t) == AlertedSince(d, s, t)
  <2>1. /\ c \in Nat /\ st \in Nat /\ T \in Nat \ {0} /\ W \in Nat /\ X \in Nat
        /\ k \in Nat /\ \A i \in 1..k : f[i] \in Nat
    BY LimitsAssumption, SlackNat DEF TypeOK, Entry
  <2>2. k >= 2 * T - 1 /\ f[k] - f[k - (2 * T - 1) + 1] <= W
    BY <2>1 DEF BigBurst, Burst
  <2>3. /\ c <= k /\ (c = 0 => k = 0)
        /\ \A i \in (k - c + 1)..k : f[i] >= st /\ f[i] <= st + W
    BY DEF CountIsRecent
  <2>4. /\ c >= T => Since(st - X)
        /\ \A i \in 1..(k - c) : f[i] <= st
        /\ \A i \in 1..((k - c) - T + 1) : f[i] + W < st \/ Since(f[i] - W - X)
    BY DEF BurstInv, WindowAlerted, EarlierAlerted
  <2>5. \A t \in Int, u \in Int : Since(t) /\ u <= t => Since(u)
    BY AlertedEarlier
  <2>6. f[p] - (IF d = "deauth" THEN W ELSE W + Cooldown[d]) = f[p] - W - X
    <3>1. p \in 1..k
      <4> HIDE DEF k, T
      <4> QED
        BY <2>1, <2>2
    <3>2. f[p] \in Nat /\ Cooldown[d] \in Nat
      BY <2>1, <3>1, LimitsAssumption
    <3> HIDE DEF p, f, W
    <3> QED
      BY <2>1, <3>2 DEF X, Slack
  <2> HIDE DEF e, c, st, f, k, T, W, X, Since
  <2>7. p \in 1..k /\ k - (2 * T - 1) + 1 = p /\ c # 0 /\ f[p] \in Nat
    BY <2>1, <2>2, <2>3
  <2> HIDE DEF p
  <2>8. f[k] >= st /\ f[k] - f[p] <= W /\ f[k] \in Nat
    <3>1. k \in (k - c + 1)..k /\ k \in 1..k
      BY <2>1, <2>3, <2>7
    <3> QED
      BY <2>1, <2>2, <2>3, <2>7, <3>1
  <2>9. Since(f[p] - W - X)
    <3>1. CASE c >= T
      <4>1. f[p] <= st + W
        <5>1. CASE p \in 1..(k - c)
          BY <2>1, <2>4, <2>7, <5>1
        <5>2. CASE p \notin 1..(k - c)
          <6>1. p \in (k - c + 1)..k
            BY <2>1, <2>3, <2>7, <5>2
          <6> QED
            BY <2>3, <6>1
        <5> QED
          BY <5>1, <5>2
      <4>2. f[p] - W - X <= st - X /\ f[p] - W - X \in Int /\ st - X \in Int
        BY <2>1, <2>7, <4>1
      <4> QED
        BY <2>4, <2>5, <3>1, <4>2
    <3>2. CASE c < T
      <4>1. p \in 1..((k - c) - T + 1)
        BY <2>1, <2>7, <3>2
      <4>2. ~ (f[p] + W < st)
        BY <2>1, <2>7, <2>8
      <4> QED
        BY <2>4, <4>1, <4>2
    <3> QED
      BY <2>1, <3>1, <3>2
  <2> QED
    BY <2>6, <2>9 DEF Since, f, p, k, T, W
<1> QED
  BY <1>1, TypeCorrect, CountsAreRecent, BurstInvariant, PTL

=============================================================================
