--------------------------- MODULE FloodDetectors ---------------------------
(***************************************************************************)
(* The four flood detectors of the capture loop (detectors/deauth_flood.rs,*)
(* probe_flood.rs, beacon_flood.rs, auth_flood.rs).  Each counts frames    *)
(* per source in a window that starts with a frame and is started again by *)
(* the first frame that comes after it (a tumbling window), and fires an   *)
(* alert at its threshold.  The deauth detector fires at exactly the       *)
(* threshold; the others fire at or above it, with a cooldown.             *)
(***************************************************************************)
EXTENDS Integers, Sequences, FiniteSets

CONSTANTS
  Detectors,  \* a subset of {"deauth", "probe", "beacon", "auth"}
  Sources,    \* what frames are counted by: a BSSID or a client MAC
  Window,     \* per detector: WINDOW, FLOOD_WINDOW
  Threshold,  \* per detector: THRESHOLD, FLOOD_THRESHOLD
  Cooldown,   \* per detector: PROBE_ALERT_INTERVAL, ALERT_COOLDOWN
  MaxTime,    \* bound: time units that pass
  MaxFrames   \* bound: frames captured

ASSUME DetectorsAssumption == Detectors \subseteq {"deauth", "probe", "beacon", "auth"}
ASSUME LimitsAssumption ==
  /\ Window \in [Detectors -> Nat] /\ Cooldown \in [Detectors -> Nat]
  /\ Threshold \in [Detectors -> Nat \ {0}]
  /\ MaxTime \in Nat /\ MaxFrames \in Nat

VARIABLES
  now,     \* Instant::now
  state,   \* per detector and source: the entry of its HashMap
  frames,  \* history: the arrival times of the frames it processed
  alerts   \* history: the alerts fired, with the number of frames seen then

vars == <<now, state, frames, alerts>>

----------------------------------------------------------------------------
Never == -1          \* last_alert: None

\* Entries are made by or_insert with count 0, and every call counts its
\* frame: a source without an entry is the same as one with count 0.
NoEntry == [count |-> 0, start |-> 0, last |-> Never]

Init ==
  /\ now = 0
  /\ state = [d \in Detectors |-> [s \in Sources |-> NoEntry]]
  /\ frames = [d \in Detectors |-> [s \in Sources |-> <<>>]]
  /\ alerts = {}

\* Mutant of Counted: the window is never started again.
CountedForever(d, s) ==
  LET e == state[d][s] IN
  IF e.count = 0 THEN [e EXCEPT !.count = 1, !.start = now]
                 ELSE [e EXCEPT !.count = @ + 1]

\* The entry with this frame counted: the first frame of a source, and the
\* first one after its window, start a window.
Counted(d, s) ==
  LET e == state[d][s] IN
  IF e.count = 0 \/ now - e.start > Window[d]
    THEN [e EXCEPT !.count = 1, !.start = now]
    ELSE [e EXCEPT !.count = @ + 1]

\* Mutant of CooledDown: a cooldown that has not begun blocks the alert.
CooledDownOnce(d, e) == e.last # Never /\ now - e.last > Cooldown[d]

\* should_alert.
CooledDown(d, e) == e.last = Never \/ now - e.last > Cooldown[d]

\* The frames so far: detector, source and place among the source's.
Seen == {f \in Detectors \X Sources \X (1..MaxFrames) : f[3] <= Len(frames[f[1]][f[2]])}

Alert(d, s) == [det |-> d, src |-> s, at |-> now, upto |-> Len(frames[d][s]) + 1]

\* What every detector does with a frame, "fires" being its own condition.
Record(d, s, e, fires) ==
  /\ Cardinality(Seen) < MaxFrames
  /\ state' = [state EXCEPT ![d][s] = e]
  /\ frames' = [frames EXCEPT ![d][s] = Append(@, now)]
  /\ \/ fires /\ alerts' = alerts \union {Alert(d, s)}
     \/ ~ fires /\ alerts' = alerts
  /\ UNCHANGED now

\* The other detectors: at or above the threshold, unless in the cooldown.
Cooling(d, s) ==
  LET e == Counted(d, s)
      fires == e.count >= Threshold[d] /\ CooledDown(d, e)
  IN  Record(d, s, IF fires THEN [e EXCEPT !.last = now] ELSE e, fires)

\* DeauthFloodDetector::process, of a deauth or disassoc frame.
DeauthFlood(s) ==
  LET e == Counted("deauth", s)
  IN  Record("deauth", s, e, e.count = Threshold["deauth"])

\* Mutant of ProbeFlood: last_alert is not updated.
ProbeFloodForgetting(s) ==
  LET e == Counted("probe", s)
  IN  Record("probe", s, e, e.count >= Threshold["probe"] /\ CooledDown("probe", e))

ProbeFlood(s) == Cooling("probe", s)
BeaconFlood(s) == Cooling("beacon", s)
AuthFlood(s) == Cooling("auth", s)

Tick == now < MaxTime /\ now' = now + 1 /\ UNCHANGED <<state, frames, alerts>>

Next ==
  \/ \E s \in Sources :
       \/ "deauth" \in Detectors /\ DeauthFlood(s)
       \/ "probe" \in Detectors /\ ProbeFlood(s)
       \/ "beacon" \in Detectors /\ BeaconFlood(s)
       \/ "auth" \in Detectors /\ AuthFlood(s)
  \/ Tick

Spec == Init /\ [][Next]_vars

----------------------------------------------------------------------------
\* The deauth detector keeps a pair, without last_alert.
Entry == [count : Nat, start : Nat, last : Nat \union {Never}]
TypeOK ==
  /\ now \in Nat
  /\ state \in [Detectors -> [Sources -> Entry]]
  /\ \A d \in Detectors, s \in Sources : d = "deauth" => state[d][s].last = Never
  /\ frames \in [Detectors -> [Sources -> Seq(Nat)]]
  /\ alerts \subseteq [det : Detectors, src : Sources, at : Nat, upto : Nat \ {0}]

\* The n frames that end with the upto-th span at most w.
Burst(d, s, upto, n, w) ==
  upto \in n..Len(frames[d][s]) /\ frames[d][s][upto] - frames[d][s][upto - n + 1] <= w

AlertedSince(d, s, time) == \E a \in alerts : a.det = d /\ a.src = s /\ a.at >= time

(***************************************************************************)
(* No false alarm: when a flood alert fires, the last Threshold frames of  *)
(* its source did come within Window (deauth_flood.rs:23-33,               *)
(* probe_flood.rs:34-41, beacon_flood.rs:32-39, auth_flood.rs:34-45),      *)
(* although the count is not one of a sliding window and is carried from   *)
(* call to call.                                                           *)
(***************************************************************************)
AlertIsTrue ==
  \A a \in alerts :
    /\ a.at = frames[a.det][a.src][a.upto]
    /\ Burst(a.det, a.src, a.upto, Threshold[a.det], Window[a.det])

(***************************************************************************)
(* Why: the counted frames are the latest of the source, and none of them  *)
(* came before the start of the window or later than Window after it.      *)
(***************************************************************************)
CountIsRecent ==
  \A d \in Detectors, s \in Sources :
    LET e == state[d][s]
        f == frames[d][s]
    IN  /\ e.count <= Len(f)
        /\ e.count = 0 => f = <<>>
        /\ \A i \in 1..Len(f) : f[i] <= now
        /\ \A i \in (Len(f) - e.count + 1)..Len(f) :
             f[i] >= e.start /\ f[i] <= e.start + Window[d]

(***************************************************************************)
(* No alert storm, however long the flood lasts: two alerts of a detector  *)
(* about one source are more than its Cooldown apart, and those of the     *)
(* deauth detector, which has no cooldown, share no frame                  *)
(* (deauth_flood.rs:33, probe_flood.rs:42-47).                             *)
(***************************************************************************)
AlertsAreSpaced ==
  \A a, b \in alerts :
    a.det = b.det /\ a.src = b.src /\ a.upto < b.upto =>
      IF a.det = "deauth" THEN b.upto - a.upto >= Threshold["deauth"]
                          ELSE b.at - a.at > Cooldown[a.det]

(***************************************************************************)
(* No missed flood: a burst of 2 * Threshold - 1 frames within Window is   *)
(* always alerted on, wherever the windows fall: a window can cut it only  *)
(* once.  The alert may be an earlier one, whose window reached into the   *)
(* burst or whose cooldown is not over (deauth_flood.rs:26-33,             *)
(* probe_flood.rs:34-47).                                                  *)
(***************************************************************************)
BigBurst(d, s) == Burst(d, s, Len(frames[d][s]), 2 * Threshold[d] - 1, Window[d])
FloodIsAlerted ==
  \A d \in Detectors, s \in Sources :
    BigBurst(d, s) =>
      LET first == frames[d][s][Len(frames[d][s]) - 2 * Threshold[d] + 2]
      IN  AlertedSince(d, s, first - (IF d = "deauth" THEN Window[d]
                                       ELSE Window[d] + Cooldown[d]))

(***************************************************************************)
(* Why: a window that counted its Threshold frames was alerted on, unless  *)
(* the cooldown of an earlier alert was not over; and Threshold frames     *)
(* before the present window were alerted on too, unless a window started  *)
(* among them, and then they lie more than Window before the present one.  *)
(***************************************************************************)
Slack(d) == IF d = "deauth" THEN 0 ELSE Cooldown[d]
WindowAlerted(d, s) ==
  LET e == state[d][s]
  IN  /\ e.last # Never => \E a \in alerts : a.det = d /\ a.src = s /\ a.at = e.last
      /\ e.count >= Threshold[d] => AlertedSince(d, s, e.start - Slack(d))
EarlierAlerted(d, s) ==
  LET e == state[d][s]
      f == frames[d][s]
      before == Len(f) - e.count
  IN  /\ \A i \in 1..before : f[i] <= e.start
      /\ \A i \in 1..(before - Threshold[d] + 1) :
           \/ f[i] + Window[d] < e.start
           \/ AlertedSince(d, s, f[i] - Window[d] - Slack(d))
BurstInv == \A d \in Detectors, s \in Sources : WindowAlerted(d, s) /\ EarlierAlerted(d, s)

=============================================================================
