---------------------------- MODULE ThreatScorer ----------------------------
(***************************************************************************)
(* The composite threat scorer (threat_scorer.rs).  Detectors, the ML      *)
(* bridge, the profiler and the honeypot add evidence about a device, one  *)
(* call at a time under the scorer's mutex; the score of a device decays   *)
(* with time, but only when the next evidence about it arrives.            *)
(*                                                                         *)
(* Points and seconds are integers.  A weight is what the source's weight  *)
(* and multiplier give together, and even, so that the correlation factor  *)
(* of 3/2 is exact.                                                        *)
(***************************************************************************)
EXTENDS Integers, FiniteSets

CONSTANTS
  Devices,        \* BSSIDs
  Sources,        \* detectors that add evidence
  Weight,         \* points of one piece of evidence of each source
  MAX_SCORE, ALERT_THRESHOLD, PRUNE_BELOW,
  DECAY_RATE,     \* points per second
  DECAY_GRACE,    \* no decay is applied until more than this has passed (1 s)
  CORRELATION_WINDOW, PRUNE_INTERVAL,
  ALERT_FIRST,    \* crossings that always fire an alert (3); after them
  ALERT_EVERY,    \* every ALERT_EVERY-th does (5)
  MaxTime,        \* bound: seconds that pass
  MaxEvidence     \* bound: pieces of evidence

ASSUME WeightAssumption ==
  Weight \in [Sources -> Nat] /\ \A s \in Sources : Weight[s] % 2 = 0
ASSUME LimitsAssumption ==
  /\ MAX_SCORE \in Nat /\ ALERT_THRESHOLD \in Nat
  /\ PRUNE_BELOW \in Nat /\ DECAY_RATE \in Nat /\ DECAY_GRACE \in Nat
  /\ CORRELATION_WINDOW \in Nat \ {0} /\ PRUNE_INTERVAL \in Nat
  /\ ALERT_FIRST \in Nat /\ ALERT_EVERY \in Nat \ {0}
  /\ MaxTime \in Nat /\ MaxEvidence \in Nat

VARIABLES
  now,        \* Instant::now
  profiles,   \* ThreatScorer.profiles, for the devices in "known"
  known,      \* the keys of the map
  lastPrune   \* ThreatScorer.last_prune

VARIABLES     \* history
  ideal,      \* the score a bucket that leaks at every moment would have
  hits,       \* when each source last gave evidence about each device
  silent,     \* threshold crossings since the last alert of the profile
  total       \* pieces of evidence so far

codeVars == <<profiles, known, lastPrune>>
vars == <<now, codeVars, ideal, hits, silent, total>>

----------------------------------------------------------------------------
AtMost(x, y) == IF x < y THEN x ELSE y
AtLeast(x, y) == IF x > y THEN x ELSE y
Never == -1 - CORRELATION_WINDOW

Profiled(time) == [score |-> 0, update |-> time, decay |-> time, count |-> 0, recent |-> {}]
NoProfile == Profiled(0)

\* The entry of the map, or the one or_insert_with makes.
Profile(b) == IF b \in known THEN profiles[b] ELSE Profiled(now)

\* Mutant of Decayed: the moment of the decay is not kept.
DecayedForgetting(p) ==
  IF now - p.decay > DECAY_GRACE
    THEN [p EXCEPT !.score = AtLeast(@ - (now - p.decay) * DECAY_RATE, 0)]
    ELSE p

\* Decay, applied when more than a second passed since the last one.
Decayed(p) ==
  IF now - p.decay > DECAY_GRACE
    THEN [p EXCEPT !.score = AtLeast(@ - (now - p.decay) * DECAY_RATE, 0), !.decay = now]
    ELSE p

\* Mutant of DistinctRecent: two pieces of evidence of one source count
\* twice.
EachRecent(recent) == {h \in recent : now - h.at < CORRELATION_WINDOW}

\* distinct_recent_sources.
DistinctRecent(recent) == {h.src : h \in {g \in recent : now - g.at < CORRELATION_WINDOW}}
Correlated(recent) == Cardinality(DistinctRecent(recent)) >= 2

\* recent_sources with this evidence, kept for twice the window.
Recent(p, s) ==
  {h \in p.recent \union {[src |-> s, at |-> now]} : now - h.at < 2 * CORRELATION_WINDOW}

Bonus(w, recent) == IF Correlated(recent) THEN (w * 3) \div 2 ELSE w

\* The profile with the evidence added.
Scored(b, s) ==
  LET p == Decayed(Profile(b))
      recent == Recent(p, s)
      score == AtMost(p.score + Bonus(Weight[s], recent), MAX_SCORE)
  IN  [p EXCEPT !.score = score, !.update = now, !.recent = recent,
                !.count = @ + (IF score >= ALERT_THRESHOLD THEN 1 ELSE 0)]

\* Mutant of Alerts: nothing after the first ones.
AlertsAtFirst(p) == p.score >= ALERT_THRESHOLD /\ p.count <= ALERT_FIRST

\* An alert is fired: the first three crossings, then every 5th.
Alerts(p) ==
  p.score >= ALERT_THRESHOLD /\ (p.count <= ALERT_FIRST \/ p.count % ALERT_EVERY = 0)

\* Mutant of Survives: prune keeps what is above the alert threshold.
SurvivesAtAlertLevel(p) == p.score - (now - p.update) * DECAY_RATE >= ALERT_THRESHOLD

\* prune.
Survives(p) == p.score - (now - p.update) * DECAY_RATE > PRUNE_BELOW

PruneDue == now - lastPrune > PRUNE_INTERVAL

----------------------------------------------------------------------------
Empty(time) == [score |-> 0, at |-> time]
NoHits == [s \in Sources |-> Never]

Init ==
  /\ now = 0
  /\ profiles = [b \in Devices |-> NoProfile]
  /\ known = {} /\ lastPrune = 0
  /\ ideal = [b \in Devices |-> Empty(0)]
  /\ hits = [b \in Devices |-> NoHits]
  /\ silent = [b \in Devices |-> 0]
  /\ total = 0

\* The score of the leaking bucket now.
Leaked(b) == AtLeast(ideal[b].score - (now - ideal[b].at) * DECAY_RATE, 0)

\* add_evidence: decay, score, alert, and prune when it is due.
AddEvidence(b, s) ==
  LET new == Scored(b, s)
      all == [profiles EXCEPT ![b] = new]
      kept == IF PruneDue THEN {d \in known \union {b} : Survives(all[d])}
                          ELSE known \union {b}
  IN
  /\ total < MaxEvidence /\ total' = total + 1
  /\ profiles' = [d \in Devices |-> IF d \in kept THEN all[d] ELSE NoProfile]
  /\ known' = kept
  /\ lastPrune' = IF PruneDue THEN now ELSE lastPrune
  /\ ideal' = [d \in Devices |->
       CASE d \notin kept -> Empty(now)
         [] d = b /\ d \in kept ->
              [score |-> AtMost(Leaked(b) + Bonus(Weight[s], new.recent), MAX_SCORE), at |-> now]
         [] OTHER -> ideal[d]]
  /\ hits' = [hits EXCEPT ![b][s] = now]
  /\ silent' = [d \in Devices |->
       IF d \notin kept \/ (d = b /\ Alerts(new)) THEN 0
       ELSE IF d = b /\ new.score >= ALERT_THRESHOLD THEN silent[b] + 1 ELSE silent[d]]
  /\ UNCHANGED now

\* clear_device, when the API trusts a BSSID.
ClearDevice(b) ==
  /\ b \in known
  /\ known' = known \ {b}
  /\ profiles' = [profiles EXCEPT ![b] = NoProfile]
  /\ ideal' = [ideal EXCEPT ![b] = Empty(now)]
  /\ hits' = [hits EXCEPT ![b] = NoHits]
  /\ silent' = [silent EXCEPT ![b] = 0]
  /\ UNCHANGED <<now, lastPrune, total>>

Tick ==
  /\ now < MaxTime
  /\ now' = now + 1
  /\ UNCHANGED <<codeVars, ideal, hits, silent, total>>

Next ==
  \/ \E b \in Devices, s \in Sources : AddEvidence(b, s)
  \/ \E b \in Devices : ClearDevice(b)
  \/ Tick

Spec == Init /\ [][Next]_vars

----------------------------------------------------------------------------
Profiles == [score : 0..MAX_SCORE, update : Nat, decay : Nat, count : Nat,
             recent : SUBSET [src : Sources, at : Nat]]
TypeOK ==
  /\ now \in Nat /\ lastPrune \in Nat /\ lastPrune <= now /\ total \in Nat
  /\ known \subseteq Devices
  /\ profiles \in [Devices -> Profiles]
  /\ \A b \in known : profiles[b].decay <= profiles[b].update /\ profiles[b].update <= now
  /\ ideal \in [Devices -> [score : 0..MAX_SCORE, at : Nat]]
  /\ hits \in [Devices -> [Sources -> Int]]
  /\ silent \in [Devices -> Nat]

\* What lazy decay may be off by.
Slack == DECAY_GRACE * DECAY_RATE

(***************************************************************************)
(* Decay applied only when evidence arrives, not more than once a second,  *)
(* and counted from the last time it was applied, is never off by more     *)
(* than the decay of one second from a score that leaks at every moment,   *)
(* however the evidence is spaced and although both are cut at 0 and at    *)
(* MAX_SCORE (threat_scorer.rs:185-191, 210).                              *)
(***************************************************************************)
ScoreTracksLeak ==
  \A b \in known :
    /\ profiles[b].score <= ideal[b].score + Slack
    /\ ideal[b].score <= profiles[b].score + Slack

(***************************************************************************)
(* Pruning forgets, with its alert count and its recent sources, only a    *)
(* device whose score has leaked away, although it looks at the score      *)
(* stored at the last evidence (threat_scorer.rs:278-281, 354-360).        *)
(***************************************************************************)
PruneForgetsOnlyQuiet ==
  [][\A b \in Devices, s \in Sources : AddEvidence(b, s) =>
       \A d \in known \ {b} : d \notin known' => Leaked(d) <= PRUNE_BELOW + Slack]_vars

(***************************************************************************)
(* The correlation bonus is given only if two different sources did report *)
(* the device within the window: one noisy detector never earns it         *)
(* (threat_scorer.rs:115-127, 198-203).                                    *)
(***************************************************************************)
Converging(b, s) == \E t \in Sources \ {s} : now - hits[b][t] < CORRELATION_WINDOW
CorrelationIsReal ==
  [][\A b \in Devices, s \in Sources : AddEvidence(b, s) =>
       (Correlated(Scored(b, s).recent) => Converging(b, s))]_vars

(***************************************************************************)
(* The throttle never hides a device for long: of five consecutive         *)
(* crossings of the threshold by one profile at least one is alerted on    *)
(* (threat_scorer.rs:233-236).                                             *)
(***************************************************************************)
SilenceIsBounded == \A b \in Devices : silent[b] < ALERT_EVERY

\* Why: at the first crossing after ALERT_FIRST whose count is a multiple of
\* ALERT_EVERY there is an alert, and a new profile starts at 0.
SilenceInv ==
  /\ \A b \in known : silent[b] <= profiles[b].count % ALERT_EVERY
  /\ \A b \in Devices \ known : silent[b] = 0

\* Why the bonus is earned: what a profile remembers did happen, each source
\* having given evidence then or since.
RecentInv ==
  /\ \A b \in known : \A h \in profiles[b].recent : h.at <= hits[b][h.src]
  /\ \A b \in Devices, s \in Sources : hits[b][s] <= now

=============================================================================
