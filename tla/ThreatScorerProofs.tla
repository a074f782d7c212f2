------------------------- MODULE ThreatScorerProofs -------------------------
(***************************************************************************)
(* Theorems about ThreatScorer, for any devices, weights and limits, and   *)
(* for any amount of evidence at any times.                                *)
(***************************************************************************)
EXTENDS ThreatScorer, TLAPS, FiniteSetTheorems

RecentSets == SUBSET [src : Sources, at : Nat]

\* The times of a profile: decay was applied at the last evidence or before.
Timed(p) == p.decay <= p.update /\ p.update <= now

LEMMA BonusType ==
  ASSUME NEW s \in Sources, NEW recent
  PROVE  Bonus(Weight[s], recent) \in Nat
<1>1. Weight[s] \in Nat
  BY WeightAssumption
<1>2. (Weight[s] * 3) \div 2 \in Nat
  BY <1>1
<1> QED
  BY <1>1, <1>2 DEF Bonus

LEMMA ProfiledType ==
  ASSUME NEW time \in Nat
  PROVE  Profiled(time) \in Profiles
BY LimitsAssumption DEF Profiled, Profiles

LEMMA ProfileType ==
  ASSUME TypeOK, NEW b \in Devices
  PROVE  Profile(b) \in Profiles /\ Timed(Profile(b))
<1>1. CASE b \in known
  BY <1>1 DEF TypeOK, Profile, Timed
<1>2. CASE b \notin known
  <2>1. now \in Nat /\ Profile(b) = Profiled(now)
    BY <1>2 DEF TypeOK, Profile
  <2>2. Profiled(now).decay = now /\ Profiled(now).update = now
    BY DEF Profiled
  <2> QED
    BY <2>1, <2>2, ProfiledType DEF Timed
<1> QED
  BY <1>1, <1>2

\* A product is spelt out once, so that the rest is linear.
LEMMA ProductNat == \A x, y \in Nat : x * y \in Nat
  OBVIOUS

LEMMA DecayedType ==
  ASSUME TypeOK, NEW p \in Profiles, Timed(p)
  PROVE  /\ Decayed(p) \in Profiles
         /\ Decayed(p).decay <= now
         /\ Decayed(p).update = p.update
<1> DEFINE lost == (now - p.decay) * DECAY_RATE
           cut == AtLeast(p.score - lost, 0)
<1>1. /\ now \in Nat /\ p.decay \in Nat /\ p.update \in Nat /\ p.score \in 0..MAX_SCORE
      /\ DECAY_RATE \in Nat /\ MAX_SCORE \in Nat
  BY LimitsAssumption DEF TypeOK, Profiles
<1>2. lost \in Nat
  <2>1. now - p.decay \in Nat
    BY <1>1 DEF Timed
  <2> HIDE DEF Timed
  <2> QED
    BY <2>1, <1>1, ProductNat
<1>3. cut \in 0..MAX_SCORE
  <2> HIDE DEF lost
  <2> QED
    BY <1>1, <1>2 DEF AtLeast
<1>4. Decayed(p) = IF now - p.decay > DECAY_GRACE
                     THEN [p EXCEPT !.score = cut, !.decay = now] ELSE p
  BY DEF Decayed
<1> HIDE DEF cut
<1>5. [p EXCEPT !.score = cut, !.decay = now] \in Profiles
  BY <1>1, <1>3 DEF Profiles
<1> QED
  BY <1>1, <1>4, <1>5 DEF Timed, Profiles

LEMMA RecentType ==
  ASSUME TypeOK, NEW p \in Profiles, NEW s \in Sources
  PROVE  Recent(p, s) \in RecentSets
<1>1. now \in Nat /\ p.recent \in RecentSets
  BY DEF TypeOK, Profiles, RecentSets
<1>2. [src |-> s, at |-> now] \in [src : Sources, at : Nat]
  BY <1>1
<1> QED
  BY <1>1, <1>2 DEF Recent, RecentSets

LEMMA ScoredType ==
  ASSUME TypeOK, NEW b \in Devices, NEW s \in Sources
  PROVE  LET p == Decayed(Profile(b))
             new == Scored(b, s)
         IN  /\ new \in Profiles
             /\ new.update = now /\ new.decay = p.decay /\ new.decay <= now
             /\ new.score = AtMost(p.score + Bonus(Weight[s], new.recent), MAX_SCORE)
<1> DEFINE p == Decayed(Profile(b))
           recent == Recent(p, s)
           score == AtMost(p.score + Bonus(Weight[s], recent), MAX_SCORE)
           count == p.count + (IF score >= ALERT_THRESHOLD THEN 1 ELSE 0)
<1>1. p \in Profiles /\ p.decay <= now /\ now \in Nat
  BY ProfileType, DecayedType DEF TypeOK
<1>2. Scored(b, s) = [p EXCEPT !.score = score, !.update = now, !.recent = recent,
                                !.count = count]
  BY DEF Scored
<1> HIDE DEF p
<1>3. recent \in RecentSets
  BY <1>1, RecentType
<1> HIDE DEF recent
<1>4. score \in 0..MAX_SCORE
  <2>1. p.score \in Nat /\ Bonus(Weight[s], recent) \in Nat /\ MAX_SCORE \in Nat
    BY <1>1, BonusType, LimitsAssumption DEF Profiles
  <2> QED
    BY <2>1 DEF AtMost
<1>5. count \in Nat
  <2>1. p.count \in Nat
    BY <1>1 DEF Profiles
  <2> QED
    BY <2>1
<1>6. Scored(b, s).recent = recent /\ Scored(b, s).score = score
      /\ Scored(b, s).update = now /\ Scored(b, s).decay = p.decay
  <2> HIDE DEF score, count
  <2> QED
    BY <1>1, <1>2 DEF Profiles
<1>7. Scored(b, s) \in Profiles
  <2> HIDE DEF score, count
  <2> QED
    BY <1>1, <1>2, <1>3, <1>4, <1>5 DEF Profiles, RecentSets
<1> QED
  BY <1>1, <1>6, <1>7 DEF p

----------------------------------------------------------------------------
\* The devices left after the evidence, and what AddEvidence does to them.
Kept(b, s) ==
  IF PruneDue THEN {d \in known \union {b} : Survives([profiles EXCEPT ![b] = Scored(b, s)][d])}
              ELSE known \union {b}

LEMMA EvidenceEffect ==
  ASSUME TypeOK, NEW b \in Devices, NEW s \in Sources, AddEvidence(b, s)
  PROVE  /\ known' = Kept(b, s) /\ known' \subseteq known \union {b} /\ now' = now
         /\ \A d \in Devices :
              profiles'[d] = IF d \notin known' THEN NoProfile
                             ELSE IF d = b THEN Scored(b, s) ELSE profiles[d]
         /\ profiles' = [d \in Devices |-> profiles'[d]]
         /\ \A d \in Devices :
              ideal'[d] = IF d \notin known' THEN Empty(now)
                          ELSE IF d = b
                            THEN [score |-> AtMost(Leaked(b) + Bonus(Weight[s], Scored(b, s).recent),
                                                   MAX_SCORE), at |-> now]
                            ELSE ideal[d]
         /\ ideal' = [d \in Devices |-> ideal'[d]]
<1> DEFINE all == [profiles EXCEPT ![b] = Scored(b, s)]
<1>1. known' = Kept(b, s) /\ now' = now
  BY DEF AddEvidence, Kept
<1>2. Kept(b, s) \subseteq known \union {b}
  BY DEF Kept
<1>3. profiles' = [d \in Devices |-> IF d \in known' THEN all[d] ELSE NoProfile]
  BY DEF AddEvidence
<1>4. \A d \in Devices : all[d] = IF d = b THEN Scored(b, s) ELSE profiles[d]
  BY DEF TypeOK
<1> HIDE DEF all
<1>5. ideal' = [d \in Devices |->
        CASE d \notin known' -> Empty(now)
          [] d = b /\ d \in known' ->
               [score |-> AtMost(Leaked(b) + Bonus(Weight[s], Scored(b, s).recent), MAX_SCORE),
                at |-> now]
          [] OTHER -> ideal[d]]
  BY DEF AddEvidence
<1> QED
  BY <1>1, <1>2, <1>3, <1>4, <1>5

LEMMA LeakedType ==
  ASSUME TypeOK, NEW b \in Devices, ideal[b].at <= now
  PROVE  Leaked(b) \in 0..MAX_SCORE
<1> DEFINE lost == (now - ideal[b].at) * DECAY_RATE
<1>1. ideal[b].score \in 0..MAX_SCORE /\ ideal[b].at \in Nat /\ now \in Nat
      /\ DECAY_RATE \in Nat /\ MAX_SCORE \in Nat
  BY LimitsAssumption DEF TypeOK
<1>2. lost \in Nat
  <2>1. now - ideal[b].at \in Nat
    BY <1>1
  <2> QED
    BY <2>1, <1>1, ProductNat
<1> HIDE DEF lost
<1>3. AtLeast(ideal[b].score - lost, 0) \in 0..MAX_SCORE
  BY <1>1, <1>2 DEF AtLeast
<1> QED
  BY <1>3 DEF Leaked, lost

\* ideal was brought up to date in the past.
IdealTimes == \A b \in Devices : ideal[b].at <= now

LEMMA InitTyped == Init => TypeOK /\ IdealTimes
<1> SUFFICES ASSUME Init PROVE TypeOK /\ IdealTimes
  OBVIOUS
<1>1. NoProfile \in Profiles /\ Empty(0) \in [score : 0..MAX_SCORE, at : Nat]
  BY ProfiledType, LimitsAssumption DEF NoProfile, Empty
<1>2. NoHits \in [Sources -> Int]
  BY LimitsAssumption DEF NoHits, Never
<1> QED
  BY <1>1, <1>2 DEF Init, TypeOK, IdealTimes, Empty

LEMMA EvidenceTyped ==
  ASSUME TypeOK, IdealTimes, NEW b \in Devices, NEW s \in Sources, AddEvidence(b, s)
  PROVE  (TypeOK /\ IdealTimes)'
<1>0. /\ Scored(b, s) \in Profiles /\ Scored(b, s).update = now
      /\ Scored(b, s).decay <= now /\ NoProfile \in Profiles /\ now \in Nat
  BY ScoredType, ProfiledType DEF NoProfile, TypeOK
<1>a. \A d \in Devices :
        profiles'[d] = IF d \notin known' THEN NoProfile
                       ELSE IF d = b THEN Scored(b, s) ELSE profiles[d]
  BY EvidenceEffect
<1>b. known' \subseteq known \union {b} /\ now' = now
  BY EvidenceEffect
<1>1. profiles' \in [Devices -> Profiles]
  <2>1. \A d \in Devices : profiles'[d] \in Profiles
    <3>1. \A d \in Devices : profiles[d] \in Profiles
      BY DEF TypeOK
    <3> QED
      BY <3>1, <1>0, <1>a
  <2>2. profiles' = [d \in Devices |-> profiles'[d]]
    BY EvidenceEffect
  <2> HIDE DEF AddEvidence
  <2> QED
    BY <2>1, <2>2
<1>2. \A d \in known' : profiles'[d].decay <= profiles'[d].update /\ profiles'[d].update <= now
  <2> SUFFICES ASSUME NEW d \in known'
               PROVE  profiles'[d].decay <= profiles'[d].update /\ profiles'[d].update <= now
    OBVIOUS
  <2>1. d \in known \union {b} /\ d \in Devices
    BY <1>b DEF TypeOK
  <2>2. CASE d = b
    <3>1. profiles'[d] = Scored(b, s)
      BY <2>1, <2>2, <1>a
    <3> QED
      BY <3>1, <1>0
  <2>3. CASE d # b
    <3>1. profiles'[d] = profiles[d] /\ d \in known
      BY <2>1, <2>3, <1>a
    <3> QED
      BY <3>1 DEF TypeOK
  <2> QED
    BY <2>2, <2>3
<1>3. \A d \in Devices : ideal'[d] \in [score : 0..MAX_SCORE, at : Nat] /\ ideal'[d].at <= now
  <2> DEFINE more == Leaked(b) + Bonus(Weight[s], Scored(b, s).recent)
             full == AtMost(more, MAX_SCORE)
  <2>1. more \in Nat /\ MAX_SCORE \in Nat
    BY LeakedType, BonusType, LimitsAssumption DEF IdealTimes
  <2>c. \A d \in Devices :
          ideal'[d] = IF d \notin known' THEN Empty(now)
                      ELSE IF d = b THEN [score |-> full, at |-> now] ELSE ideal[d]
    BY EvidenceEffect
  <2> HIDE DEF more
  <2>2. full \in 0..MAX_SCORE
    BY <2>1 DEF AtMost
  <2> HIDE DEF full
  <2>3. Empty(now) \in [score : 0..MAX_SCORE, at : Nat] /\ Empty(now).at = now
    BY <2>1, <1>0 DEF Empty
  <2> QED
    BY <2>2, <2>3, <2>c, <1>0 DEF TypeOK, IdealTimes
<1>4. ideal' \in [Devices -> [score : 0..MAX_SCORE, at : Nat]]
  <2>1. ideal' = [d \in Devices |-> ideal'[d]]
    BY EvidenceEffect
  <2> QED
    BY <2>1, <1>3
<1>5. hits' \in [Devices -> [Sources -> Int]]
  BY <1>0 DEF AddEvidence, TypeOK
<1>6. silent' \in [Devices -> Nat]
  <2>1. \A d \in Devices : silent[d] \in Nat /\ silent[d] + 1 \in Nat
    BY DEF TypeOK
  <2> QED
    BY <2>1 DEF AddEvidence
<1>7. known' \subseteq Devices
  BY EvidenceEffect DEF AddEvidence, TypeOK
<1>8. lastPrune' \in Nat /\ lastPrune' <= now' /\ now' \in Nat /\ total' \in Nat
  BY <1>0 DEF AddEvidence, TypeOK
<1> QED
  BY <1>1, <1>2, <1>3, <1>4, <1>5, <1>6, <1>7, <1>8, EvidenceEffect DEF TypeOK, IdealTimes

LEMMA ClearTyped ==
  ASSUME TypeOK, IdealTimes, NEW b \in Devices, ClearDevice(b)
  PROVE  (TypeOK /\ IdealTimes)'
<1>1. NoProfile \in Profiles /\ Empty(now) \in [score : 0..MAX_SCORE, at : Nat]
      /\ Empty(now).at = now /\ now \in Nat
  BY ProfiledType, LimitsAssumption DEF NoProfile, Empty, TypeOK
<1>2. NoHits \in [Sources -> Int]
  BY LimitsAssumption DEF NoHits, Never
<1> QED
  BY <1>1, <1>2 DEF ClearDevice, TypeOK, IdealTimes

LEMMA TypeStep ==
  ASSUME TypeOK, IdealTimes, [Next]_vars
  PROVE  (TypeOK /\ IdealTimes)'
<1>1. CASE UNCHANGED vars
  BY <1>1 DEF vars, codeVars, TypeOK, IdealTimes
<1>2. CASE Tick
  <2>1. now \in Nat /\ now' = now + 1
    BY <1>2 DEF Tick, TypeOK
  <2> QED
    BY <1>2, <2>1 DEF Tick, codeVars, TypeOK, IdealTimes, Profiles
<1> QED
  BY <1>1, <1>2, EvidenceTyped, ClearTyped DEF Next

(***************************************************************************)
(* The state stays well typed: scores stay within 0 and MAX_SCORE, and     *)
(* decay is never applied later than the last evidence                     *)
(* (threat_scorer.rs:165-282).                                             *)
(***************************************************************************)
THEOREM TypeCorrect == Spec => []TypeOK
<1>1. TypeOK /\ IdealTimes /\ [Next]_vars => (TypeOK /\ IdealTimes)'
  BY TypeStep
<1> QED
  BY <1>1, InitTyped, PTL DEF Spec

----------------------------------------------------------------------------
\* The decay that belongs to the time before the last evidence and has not
\* been applied.
Pending(p) == (p.update - p.decay) * DECAY_RATE

\* The score is above the ideal one by at most the pending decay, and below
\* it by at most what is left of Slack.
Near(p, i) ==
  /\ i.at = p.update /\ Pending(p) <= Slack
  /\ p.score <= i.score + Pending(p)
  /\ i.score + Pending(p) <= p.score + Slack

Tracked ==
  /\ \A b \in known : Near(profiles[b], ideal[b])
  /\ \A b \in Devices \ known : ideal[b].score = 0

\* Time passes: the score loses all of the pending decay, or none of it.
LEMMA LeakKeepsNear ==
  ASSUME NEW x \in Nat, NEW y \in Nat, NEW u \in Nat, NEW new \in Nat, NEW slack \in Nat,
         u <= slack, x <= y + u, y + u <= x + slack
  PROVE  /\ AtLeast(x - (u + new), 0) <= AtLeast(y - new, 0)
         /\ AtLeast(y - new, 0) <= AtLeast(x - (u + new), 0) + slack
         /\ u + new <= slack =>
              /\ x <= AtLeast(y - new, 0) + (u + new)
              /\ AtLeast(y - new, 0) + (u + new) <= x + slack
BY DEF AtLeast

\* The same points are added to both, and both are cut at the maximum.
LEMMA PointsKeepNear ==
  ASSUME NEW x \in Nat, NEW y \in Nat, NEW u \in Nat, NEW slack \in Nat, NEW w \in Nat,
         NEW m \in Nat, u <= slack, x <= y + u, y + u <= x + slack
  PROVE  /\ AtMost(x + w, m) <= AtMost(y + w, m) + u
         /\ AtMost(y + w, m) + u <= AtMost(x + w, m) + slack
BY DEF AtMost

LEMMA ProductFacts ==
  ASSUME NEW x \in Nat, NEW y \in Nat, NEW r \in Nat
  PROVE  /\ x * r \in Nat /\ y * r \in Nat /\ (x + y) * r = x * r + y * r
         /\ x <= y => x * r <= y * r
<1>1. x * r \in Nat /\ y * r \in Nat
  BY ProductNat
<1>2. (x + y) * r = x * r + y * r
  OBVIOUS
<1>3. ASSUME x <= y PROVE x * r <= y * r
  <2>1. PICK z \in Nat : y = x + z
    <3>1. y - x \in Nat /\ y = x + (y - x)
      BY <1>3
    <3> QED
      BY <3>1
  <2>2. y * r = x * r + z * r /\ z * r \in Nat
    BY <2>1, ProductNat
  <2> QED
    BY <2>2, <1>1
<1> QED
  BY <1>1, <1>2, <1>3

LEMMA DecayedNear ==
  ASSUME TypeOK, NEW p \in Profiles, Timed(p), NEW y \in Nat,
         Near(p, [score |-> y, at |-> p.update])
  PROVE  LET q == [Decayed(p) EXCEPT !.update = now]
             i == [score |-> AtLeast(y - (now - p.update) * DECAY_RATE, 0), at |-> now]
         IN  Near(q, i)
<1> DEFINE a == p.update - p.decay
           d == now - p.update
           u == a * DECAY_RATE
           new == d * DECAY_RATE
           left == AtLeast(y - new, 0)
<1>1. /\ p.score \in Nat /\ p.update \in Nat /\ p.decay \in Nat /\ now \in Nat
      /\ DECAY_RATE \in Nat /\ DECAY_GRACE \in Nat /\ MAX_SCORE \in Nat
  BY LimitsAssumption DEF Profiles, TypeOK
<1>2. a \in Nat /\ d \in Nat /\ now - p.decay = a + d
  BY <1>1 DEF Timed
<1>3. u \in Nat /\ new \in Nat /\ (now - p.decay) * DECAY_RATE = u + new
  <2> HIDE DEF a, d
  <2> QED
    BY <1>1, <1>2, ProductFacts
<1>4. Slack \in Nat /\ (a + d <= DECAY_GRACE => u + new <= Slack)
  <2> HIDE DEF a, d
  <2>1. a + d \in Nat /\ (a + d) * DECAY_RATE = u + new
    BY <1>1, <1>2, <1>3
  <2> QED
    BY <2>1, <1>1, ProductFacts DEF Slack
<1>5. u <= Slack /\ p.score <= y + u /\ y + u <= p.score + Slack
  BY DEF Near, Pending
<1>6. /\ AtLeast(p.score - (u + new), 0) <= left
      /\ left <= AtLeast(p.score - (u + new), 0) + Slack
      /\ u + new <= Slack => /\ p.score <= left + (u + new)
                             /\ left + (u + new) <= p.score + Slack
  <2> HIDE DEF u, new
  <2> QED
    BY <1>1, <1>3, <1>4, <1>5, LeakKeepsNear
<1> DEFINE q == [Decayed(p) EXCEPT !.update = now]
           i == [score |-> left, at |-> now]
<1>7. CASE now - p.decay > DECAY_GRACE
  <2>1. q.score = AtLeast(p.score - (u + new), 0) /\ q.decay = now /\ q.update = now
    <3>1. Decayed(p) = [p EXCEPT !.score = AtLeast(@ - (u + new), 0), !.decay = now]
      BY <1>3, <1>7 DEF Decayed
    <3> HIDE DEF u, new
    <3> QED
      BY <3>1 DEF Profiles
  <2>2. Pending(q) = 0
    <3>1. q.update - q.decay = 0
      BY <2>1, <1>1
    <3> QED
      BY <3>1, <1>1 DEF Pending
  <2>3. q.score \in Nat /\ left \in Nat
    <3> HIDE DEF u, new
    <3> QED
      BY <2>1, <1>1, <1>3 DEF AtLeast
  <2> HIDE DEF left, q
  <2>4. q.score <= left + Pending(q) /\ left + Pending(q) <= q.score + Slack
    BY <2>1, <2>2, <2>3, <1>6
  <2> QED
    BY <2>1, <2>2, <2>4, <1>4 DEF Near, q, left
<1>8. CASE ~ (now - p.decay > DECAY_GRACE)
  <2>1. q.score = p.score /\ q.decay = p.decay /\ q.update = now
    <3>1. Decayed(p) = p
      BY <1>8 DEF Decayed
    <3> QED
      BY <3>1 DEF Profiles
  <2>2. Pending(q) = u + new
    BY <2>1, <1>3 DEF Pending
  <2>3. u + new <= Slack
    BY <1>1, <1>2, <1>4, <1>8
  <2> HIDE DEF left, q, u, new
  <2>4. q.score <= left + Pending(q) /\ left + Pending(q) <= q.score + Slack
    BY <2>1, <2>2, <2>3, <1>6
  <2> QED
    BY <2>1, <2>2, <2>3, <2>4 DEF Near, q, left, new
<1> QED
  BY <1>7, <1>8

\* The profile the evidence finds, and the bucket at this moment.
LEMMA FoundNear ==
  ASSUME TypeOK, IdealTimes, Tracked, NEW b \in Devices
  PROVE  Near([Decayed(Profile(b)) EXCEPT !.update = now], [score |-> Leaked(b), at |-> now])
<1> DEFINE p == Profile(b)
<1>1. p \in Profiles /\ Timed(p) /\ now \in Nat /\ DECAY_RATE \in Nat
  BY ProfileType, LimitsAssumption DEF TypeOK
<1>2. ideal[b].score \in Nat /\ ideal[b].at \in Nat
  BY LimitsAssumption DEF TypeOK
<1>3. CASE b \in known
  <2>1. p = profiles[b] /\ ideal[b] = [score |-> ideal[b].score, at |-> ideal[b].at]
    BY <1>3 DEF Profile, TypeOK
  <2>2. ideal[b].at = p.update /\ Near(p, ideal[b])
    BY <2>1, <1>3 DEF Tracked, Near
  <2>3. Near(p, [score |-> ideal[b].score, at |-> p.update])
    BY <2>1, <2>2
  <2>4. Leaked(b) = AtLeast(ideal[b].score - (now - p.update) * DECAY_RATE, 0)
    BY <2>2 DEF Leaked
  <2> HIDE DEF p
  <2> QED
    BY <1>1, <1>2, <2>3, <2>4, DecayedNear DEF p
<1>4. CASE b \notin known
  <2>1. p = Profiled(now) /\ ideal[b].score = 0
    BY <1>4 DEF Profile, Tracked
  <2>2. p.score = 0 /\ p.update = now /\ p.decay = now
    BY <2>1 DEF Profiled
  <2>3. Slack \in Nat
    BY LimitsAssumption, ProductNat DEF Slack
  <2>4. Pending(p) = 0
    <3>1. p.update - p.decay = 0
      BY <2>2, <1>1
    <3> QED
      BY <3>1, <1>1 DEF Pending
  <2>5. Near(p, [score |-> 0, at |-> p.update])
    BY <2>2, <2>3, <2>4 DEF Near
  <2>6. AtLeast(0 - (now - p.update) * DECAY_RATE, 0) = 0
    <3>1. (now - p.update) * DECAY_RATE = 0
      BY <2>2, <1>1
    <3> QED
      BY <3>1 DEF AtLeast
  <2>7. Leaked(b) = 0
    <3>1. (now - ideal[b].at) * DECAY_RATE \in Nat
      <4>1. now - ideal[b].at \in Nat
        BY <1>1, <1>2 DEF IdealTimes
      <4> QED
        BY <4>1, <1>1, ProductNat
    <3> QED
      BY <3>1, <2>1 DEF Leaked, AtLeast
  <2> HIDE DEF p
  <2> QED
    BY <1>1, <2>5, <2>6, <2>7, DecayedNear DEF p
<1> QED
  BY <1>3, <1>4

LEMMA EvidenceNear ==
  ASSUME TypeOK, IdealTimes, Tracked, NEW b \in Devices, NEW s \in Sources
  PROVE  Near(Scored(b, s),
              [score |-> AtMost(Leaked(b) + Bonus(Weight[s], Scored(b, s).recent), MAX_SCORE),
               at |-> now])
<1> DEFINE p == Decayed(Profile(b))
           q == [p EXCEPT !.update = now]
           new == Scored(b, s)
           w == Bonus(Weight[s], new.recent)
           y == Leaked(b)
<1>1. p \in Profiles /\ now \in Nat
  BY ProfileType, DecayedType DEF TypeOK
<1>2. /\ new.update = now /\ new.decay = p.decay
      /\ new.score = AtMost(p.score + w, MAX_SCORE)
  BY ScoredType
<1>3. w \in Nat /\ y \in Nat /\ MAX_SCORE \in Nat /\ p.score \in Nat
  <2>1. y \in 0..MAX_SCORE
    BY LeakedType DEF IdealTimes
  <2>2. p.score \in 0..MAX_SCORE
    BY <1>1 DEF Profiles
  <2> QED
    BY <2>1, <2>2, BonusType, LimitsAssumption
<1>4. Near(q, [score |-> y, at |-> now])
  BY FoundNear
<1> HIDE DEF p, new, w, y
<1>5. q.score = p.score /\ q.update = now /\ q.decay = p.decay
  BY <1>1 DEF Profiles
<1>6. Pending(new) = Pending(q)
  BY <1>2, <1>5 DEF Pending
<1>7. Pending(q) \in Nat /\ Slack \in Nat
  <2>1. now - p.decay \in Nat
    BY <1>1, ProfileType, DecayedType DEF p, Profiles
  <2> QED
    BY <2>1, <1>5, LimitsAssumption, ProductNat DEF Pending, Slack
<1>8. /\ Pending(q) <= Slack /\ p.score <= y + Pending(q)
      /\ y + Pending(q) <= p.score + Slack
  BY <1>4, <1>5 DEF Near
<1>9. /\ AtMost(p.score + w, MAX_SCORE) <= AtMost(y + w, MAX_SCORE) + Pending(q)
      /\ AtMost(y + w, MAX_SCORE) + Pending(q) <= AtMost(p.score + w, MAX_SCORE) + Slack
  BY <1>3, <1>7, <1>8, PointsKeepNear
<1>10. Near(new, [score |-> AtMost(y + w, MAX_SCORE), at |-> now])
  BY <1>2, <1>6, <1>8, <1>9 DEF Near
<1> QED
  BY <1>10 DEF new, w, y

LEMMA TrackStep ==
  ASSUME TypeOK, IdealTimes, Tracked, [Next]_vars
  PROVE  Tracked'
<1>1. ASSUME NEW b \in Devices, NEW s \in Sources, AddEvidence(b, s)
      PROVE  Tracked'
  <2> DEFINE new == Scored(b, s)
             full == [score |-> AtMost(Leaked(b) + Bonus(Weight[s], new.recent), MAX_SCORE),
                      at |-> now]
  <2>1. Near(new, full)
    BY EvidenceNear
  <2>2. known' \subseteq known \union {b} /\ known' \subseteq Devices
    <3>1. known' \subseteq known \union {b}
      BY <1>1, EvidenceEffect
    <3> QED
      BY <3>1 DEF TypeOK
  <2>3. \A d \in Devices :
          /\ profiles'[d] = IF d \notin known' THEN NoProfile
                            ELSE IF d = b THEN new ELSE profiles[d]
          /\ ideal'[d] = IF d \notin known' THEN Empty(now)
                         ELSE IF d = b THEN full ELSE ideal[d]
    BY <1>1, EvidenceEffect
  <2> HIDE DEF new, full
  <2>4. \A d \in known' : Near(profiles'[d], ideal'[d])
    <3> SUFFICES ASSUME NEW d \in known' PROVE Near(profiles'[d], ideal'[d])
      OBVIOUS
    <3>1. CASE d = b
      BY <2>1, <2>2, <2>3, <3>1
    <3>2. CASE d # b
      <4>1. profiles'[d] = profiles[d] /\ ideal'[d] = ideal[d] /\ d \in known
        BY <2>2, <2>3, <3>2
      <4> QED
        BY <4>1 DEF Tracked
    <3> QED
      BY <3>1, <3>2
  <2>5. \A d \in Devices \ known' : ideal'[d].score = 0
    BY <2>3 DEF Empty
  <2> QED
    BY <2>4, <2>5 DEF Tracked, Near, Pending, Slack
<1>2. ASSUME NEW b \in Devices, ClearDevice(b)
      PROVE  Tracked'
  <2>1. known' = known \ {b} /\ known' \subseteq Devices
    BY <1>2 DEF ClearDevice, TypeOK
  <2>2. \A d \in Devices : d # b => profiles'[d] = profiles[d] /\ ideal'[d] = ideal[d]
    BY <1>2 DEF ClearDevice, TypeOK
  <2>3. ideal'[b].score = 0
    BY <1>2 DEF ClearDevice, TypeOK, Empty
  <2> QED
    BY <2>1, <2>2, <2>3 DEF Tracked, Near, Pending, Slack
<1>3. CASE UNCHANGED <<profiles, known, ideal>>
  BY <1>3 DEF Tracked, Near, Pending, Slack
<1> QED
  BY <1>1, <1>2, <1>3 DEF Next, Tick, vars, codeVars

(***************************************************************************)
(* However the evidence about a device is spaced, the score kept by lazy   *)
(* decay is within the decay of one grace period of the score that leaks   *)
(* at every moment (threat_scorer.rs:185-191, 210), for any weights and    *)
(* limits, through pruning and cleared devices.                            *)
(***************************************************************************)
THEOREM LeakTracked == Spec => []ScoreTracksLeak
<1>1. Init => Tracked
  BY DEF Init, Tracked, Empty
<1>2. TypeOK /\ IdealTimes /\ [Next]_vars => (TypeOK /\ IdealTimes)'
  BY TypeStep
<1>3. TypeOK /\ IdealTimes /\ Tracked /\ [Next]_vars => Tracked'
  BY TrackStep
<1>4. TypeOK /\ Tracked => ScoreTracksLeak
  <2> SUFFICES ASSUME TypeOK, Tracked, NEW b \in known
               PROVE  /\ profiles[b].score <= ideal[b].score + Slack
                      /\ ideal[b].score <= profiles[b].score + Slack
    BY DEF ScoreTracksLeak
  <2> DEFINE p == profiles[b]
  <2>1. /\ b \in Devices /\ p \in Profiles /\ p.decay <= p.update
        /\ ideal[b].score \in 0..MAX_SCORE /\ Near(p, ideal[b])
    BY DEF TypeOK, Tracked
  <2> HIDE DEF p
  <2>2. p.score \in Nat /\ ideal[b].score \in Nat
    BY <2>1, LimitsAssumption DEF Profiles
  <2>3. Pending(p) \in Nat /\ Slack \in Nat
    <3>1. p.update - p.decay \in Nat
      BY <2>1 DEF Profiles
    <3> QED
      BY <3>1, LimitsAssumption, ProductNat DEF Pending, Slack
  <2>4. /\ Pending(p) <= Slack /\ p.score <= ideal[b].score + Pending(p)
        /\ ideal[b].score + Pending(p) <= p.score + Slack
    BY <2>1 DEF Near
  <2> QED
    BY <2>2, <2>3, <2>4 DEF p
<1> QED
  BY <1>1, <1>2, <1>3, <1>4, InitTyped, PTL DEF Spec

----------------------------------------------------------------------------
\* Counting on: the remainder goes up by one, or back to 0.
LEMMA NextRemainder ==
  ASSUME NEW n \in Nat, NEW e \in Nat \ {0}
  PROVE  /\ n % e \in 0..(e - 1)
         /\ (n + 1) % e = 0 \/ (n + 1) % e = (n % e) + 1
<1> DEFINE q == n \div e
           r == n % e
           q1 == (n + 1) \div e
           r1 == (n + 1) % e
<1>1. q \in Nat /\ r \in 0..(e - 1) /\ n = e * q + r
  OBVIOUS
<1>2. q1 \in Nat /\ r1 \in 0..(e - 1) /\ n + 1 = e * q1 + r1
  OBVIOUS
<1> HIDE DEF q, r, q1, r1
<1>3. \A x, y \in Nat : x * e \in Nat /\ (x < y => x * e + e <= y * e)
  <2> SUFFICES ASSUME NEW x \in Nat, NEW y \in Nat
               PROVE  x * e \in Nat /\ (x < y => x * e + e <= y * e)
    OBVIOUS
  <2>1. x + 1 \in Nat /\ (x + 1) * e = x * e + e /\ x * e \in Nat
    OBVIOUS
  <2>2. x + 1 <= y => (x + 1) * e <= y * e
    BY <2>1, ProductFacts
  <2> QED
    BY <2>1, <2>2
<1>4. q * e \in Nat /\ q1 * e \in Nat /\ e * q = q * e /\ e * q1 = q1 * e
  BY <1>1, <1>2, <1>3
<1>5. CASE q1 = q
  BY <1>1, <1>2, <1>4, <1>5 DEF r, r1
<1>6. CASE q < q1
  <2>1. q * e + e <= q1 * e
    BY <1>1, <1>2, <1>3, <1>6
  <2>2. r1 = 0
    BY <1>1, <1>2, <1>4, <2>1
  <2> QED
    BY <1>1, <2>2 DEF r, r1
<1>7. CASE q1 < q
  <2>1. q1 * e + e <= q * e
    BY <1>1, <1>2, <1>3, <1>7
  <2> QED
    BY <1>1, <1>2, <1>4, <2>1
<1> QED
  BY <1>1, <1>2, <1>5, <1>6, <1>7

\* The count of a profile goes up by one when the score crosses the threshold.
LEMMA ScoredCount ==
  ASSUME TypeOK, NEW b \in Devices, NEW s \in Sources
  PROVE  Scored(b, s).count
           = Profile(b).count + (IF Scored(b, s).score >= ALERT_THRESHOLD THEN 1 ELSE 0)
<1> DEFINE p == Decayed(Profile(b))
           recent == Recent(p, s)
           score == AtMost(p.score + Bonus(Weight[s], recent), MAX_SCORE)
           count == p.count + (IF score >= ALERT_THRESHOLD THEN 1 ELSE 0)
<1>1. p \in Profiles
  BY ProfileType, DecayedType
<1>2. Scored(b, s) = [p EXCEPT !.score = score, !.update = now, !.recent = recent,
                                !.count = count]
  BY DEF Scored
<1>3. p.count = Profile(b).count
  <2>1. Profile(b) \in Profiles
    BY ProfileType
  <2> QED
    BY <2>1 DEF Decayed, Profiles
<1> HIDE DEF p, recent, score
<1>4. Scored(b, s).score = score /\ Scored(b, s).count = count
  <2> HIDE DEF count
  <2> QED
    BY <1>1, <1>2 DEF Profiles
<1> QED
  BY <1>3, <1>4

LEMMA EvidenceSilent ==
  ASSUME TypeOK, SilenceInv, NEW b \in Devices, NEW s \in Sources, AddEvidence(b, s)
  PROVE  SilenceInv'
<1> DEFINE new == Scored(b, s)
           old == Profile(b)
           n == old.count
           e == ALERT_EVERY
<1>1. new \in Profiles /\ old \in Profiles /\ n \in Nat /\ e \in Nat \ {0} /\ silent[b] \in Nat
  BY ScoredType, ProfileType, LimitsAssumption DEF Profiles, TypeOK
<1>2. new.count = n + (IF new.score >= ALERT_THRESHOLD THEN 1 ELSE 0)
  BY ScoredCount
<1>3. silent[b] <= n % e
  <2>1. CASE b \in known
    BY <2>1 DEF SilenceInv, Profile
  <2>2. CASE b \notin known
    <3>1. silent[b] = 0 /\ n \in Nat /\ n % e \in 0..(e - 1)
      BY <1>1, <2>2, NextRemainder DEF SilenceInv
    <3> QED
      BY <1>1, <3>1
  <2> QED
    BY <2>1, <2>2
<1>4. \A d \in Devices :
        /\ d \notin known' => silent'[d] = 0
        /\ d \in known' /\ d # b => silent'[d] = silent[d]
  <2>1. /\ known' = Kept(b, s)
        /\ silent' = [d \in Devices |->
             IF d \notin known' \/ (d = b /\ Alerts(new)) THEN 0
             ELSE IF d = b /\ new.score >= ALERT_THRESHOLD THEN silent[b] + 1 ELSE silent[d]]
    BY DEF AddEvidence, Kept
  <2> HIDE DEF new
  <2> QED
    BY <2>1
<1>5. b \in known' =>
        silent'[b] = IF Alerts(new) THEN 0
                     ELSE IF new.score >= ALERT_THRESHOLD THEN silent[b] + 1 ELSE silent[b]
  <2>1. /\ known' = Kept(b, s)
        /\ silent' = [d \in Devices |->
             IF d \notin known' \/ (d = b /\ Alerts(new)) THEN 0
             ELSE IF d = b /\ new.score >= ALERT_THRESHOLD THEN silent[b] + 1 ELSE silent[d]]
    BY DEF AddEvidence, Kept
  <2> HIDE DEF new
  <2> QED
    BY <2>1
<1>6. ASSUME b \in known' PROVE silent'[b] <= new.count % e
  <2>1. /\ n % e \in 0..(e - 1) /\ new.count % e \in 0..(e - 1)
        /\ (n + 1) % e = 0 \/ (n + 1) % e = (n % e) + 1
    <3>1. new.count \in Nat
      BY <1>1 DEF Profiles
    <3> HIDE DEF new, n, e
    <3> QED
      BY <1>1, <3>1, NextRemainder
  <2>2. CASE Alerts(new)
    BY <1>1, <1>5, <1>6, <2>1, <2>2
  <2>3. CASE ~ Alerts(new) /\ new.score >= ALERT_THRESHOLD
    <3>1. new.count = n + 1 /\ new.count % e # 0
      BY <1>2, <2>3 DEF Alerts
    <3>2. new.count % e = (n % e) + 1
      BY <2>1, <3>1
    <3>3. silent'[b] = silent[b] + 1
      BY <1>5, <1>6, <2>3
    <3> HIDE DEF new, n, e
    <3> QED
      BY <1>1, <1>3, <2>1, <3>2, <3>3
  <2>4. CASE ~ Alerts(new) /\ ~ (new.score >= ALERT_THRESHOLD)
    <3>1. new.count = n
      BY <1>1, <1>2, <2>4
    <3>2. silent'[b] = silent[b]
      BY <1>5, <1>6, <2>4
    <3> QED
      BY <1>3, <3>1, <3>2
  <2> QED
    BY <2>2, <2>3, <2>4
<1>7. \A d \in known' : silent'[d] <= profiles'[d].count % e
  <2> SUFFICES ASSUME NEW d \in known' PROVE silent'[d] <= profiles'[d].count % e
    OBVIOUS
  <2>1. known' \subseteq known \union {b} /\ d \in Devices
    BY EvidenceEffect DEF TypeOK
  <2>2. profiles'[d] = IF d = b THEN new ELSE profiles[d]
    BY <2>1, EvidenceEffect
  <2>3. CASE d = b
    BY <1>6, <2>2, <2>3
  <2>4. CASE d # b
    <3>1. d \in known /\ silent'[d] = silent[d] /\ profiles'[d] = profiles[d]
      BY <1>4, <2>1, <2>2, <2>4
    <3> QED
      BY <3>1 DEF SilenceInv
  <2> QED
    BY <2>3, <2>4
<1> QED
  BY <1>4, <1>7 DEF SilenceInv

(***************************************************************************)
(* The throttle never hides a device for long, for any ALERT_FIRST and     *)
(* ALERT_EVERY: of ALERT_EVERY consecutive crossings of the threshold by   *)
(* one profile at least one is alerted on (threat_scorer.rs:233-236).      *)
(***************************************************************************)
THEOREM SilenceBounded == Spec => []SilenceIsBounded
<1>1. Init => SilenceInv
  BY DEF Init, SilenceInv
<1>2. TypeOK /\ SilenceInv /\ [Next]_vars => SilenceInv'
  <2> SUFFICES ASSUME TypeOK, SilenceInv, [Next]_vars PROVE SilenceInv'
    OBVIOUS
  <2>1. ASSUME NEW b \in Devices, ClearDevice(b) PROVE SilenceInv'
    BY <2>1 DEF ClearDevice, SilenceInv, TypeOK
  <2>2. CASE UNCHANGED <<profiles, known, silent>>
    BY <2>2 DEF SilenceInv
  <2> QED
    BY <2>1, <2>2, EvidenceSilent DEF Next, Tick, vars, codeVars
<1>3. TypeOK /\ SilenceInv => SilenceIsBounded
  <2> SUFFICES ASSUME TypeOK, SilenceInv, NEW b \in Devices PROVE silent[b] < ALERT_EVERY
    BY DEF SilenceIsBounded
  <2>1. CASE b \in known
    <3>1. profiles[b].count \in Nat /\ silent[b] \in Nat
      BY DEF TypeOK, Profiles
    <3> DEFINE n == profiles[b].count
               e == ALERT_EVERY
    <3>2. n \in Nat /\ e \in Nat \ {0} /\ silent[b] <= n % e
      BY <2>1, <3>1, LimitsAssumption DEF SilenceInv
    <3> HIDE DEF n, e
    <3>3. n % e \in 0..(e - 1)
      BY <3>2, NextRemainder
    <3>4. silent[b] < e
      BY <3>1, <3>2, <3>3
    <3> QED
      BY <3>4 DEF e
  <2>2. CASE b \notin known
    BY <2>2, LimitsAssumption DEF SilenceInv
  <2> QED
    BY <2>1, <2>2
<1> QED
  BY <1>1, <1>2, <1>3, TypeCorrect, PTL DEF Spec

----------------------------------------------------------------------------
(***************************************************************************)
(* Pruning forgets, with its alert count and its recent sources, only a    *)
(* device whose score has leaked away to PRUNE_BELOW, but for the decay of *)
(* one grace period (threat_scorer.rs:278-281, 354-360).                   *)
(***************************************************************************)
THEOREM PruneQuiet == Spec => PruneForgetsOnlyQuiet
<1> DEFINE Quiet == \A b \in Devices, s \in Sources : AddEvidence(b, s) =>
                      \A d \in known \ {b} : d \notin known' => Leaked(d) <= PRUNE_BELOW + Slack
<1>1. TypeOK /\ Tracked => Quiet
  <2> SUFFICES ASSUME TypeOK, Tracked, NEW b \in Devices, NEW s \in Sources,
                      AddEvidence(b, s), NEW d \in known \ {b}, d \notin known'
               PROVE  Leaked(d) <= PRUNE_BELOW + Slack
    OBVIOUS
  <2> DEFINE p == profiles[d]
             x == p.score
             y == ideal[d].score
             lost == (now - p.update) * DECAY_RATE
  <2>1. p \in Profiles /\ d \in Devices /\ Near(p, ideal[d]) /\ p.decay <= p.update
    BY DEF TypeOK, Tracked
  <2>2. x - lost <= PRUNE_BELOW
    <3> DEFINE all == [profiles EXCEPT ![b] = Scored(b, s)]
    <3>0. known' = Kept(b, s) /\ d \in known \union {b}
      BY EvidenceEffect
    <3>k. Kept(b, s) = IF PruneDue THEN {e \in known \union {b} : Survives(all[e])} ELSE known \union {b}
      BY DEF Kept
    <3> HIDE DEF all
    <3>1. PruneDue /\ ~ Survives(all[d])
      BY <3>0, <3>k
    <3>2. ~ Survives(p)
      BY <2>1, <3>1 DEF TypeOK, all
    <3>3. x - lost \in Int
      <4>1. x \in Int /\ now - p.update \in Int /\ DECAY_RATE \in Int
        BY <2>1, LimitsAssumption DEF Profiles, TypeOK
      <4> QED
        BY <4>1
    <3> HIDE DEF lost, x
    <3> QED
      BY <3>2, <3>3, LimitsAssumption DEF Survives, lost, x
  <2>3. y <= x + Slack
    <3>1. Pending(p) \in Nat /\ Slack \in Nat
      <4>1. p.update - p.decay \in Nat
        BY <2>1 DEF Profiles
      <4> QED
        BY <4>1, LimitsAssumption, ProductNat DEF Pending, Slack
    <3>2. x \in Nat /\ y \in Nat
      BY <2>1, LimitsAssumption DEF TypeOK, Profiles
    <3>3. y + Pending(p) <= x + Slack
      BY <2>1 DEF Near
    <3> HIDE DEF x, y, p
    <3> QED
      BY <3>1, <3>2, <3>3
  <2>4. Leaked(d) = AtLeast(y - lost, 0)
    BY <2>1 DEF Leaked, Near
  <2>5. x \in Int /\ y \in Int /\ lost \in Int /\ Slack \in Nat /\ PRUNE_BELOW \in Nat
    <3>1. x \in Int /\ y \in Int /\ now - p.update \in Int /\ DECAY_RATE \in Int
      BY <2>1, LimitsAssumption DEF TypeOK, Profiles
    <3>2. Slack \in Nat /\ PRUNE_BELOW \in Nat
      BY LimitsAssumption, ProductNat DEF Slack
    <3> QED
      BY <3>1, <3>2
  <2> HIDE DEF x, y, lost
  <2> QED
    BY <2>2, <2>3, <2>4, <2>5 DEF AtLeast
<1>2. TypeOK /\ Tracked /\ [Next]_vars => [Quiet]_vars
  BY <1>1
<1>3. Init => Tracked
  BY DEF Init, Tracked, Empty
<1>4. TypeOK /\ IdealTimes /\ [Next]_vars => (TypeOK /\ IdealTimes)'
  BY TypeStep
<1>5. TypeOK /\ IdealTimes /\ Tracked /\ [Next]_vars => Tracked'
  BY TrackStep
<1> QED
  BY <1>2, <1>3, <1>4, <1>5, InitTyped, PTL DEF Spec, PruneForgetsOnlyQuiet

----------------------------------------------------------------------------
\* What the profile remembers after the evidence was there before, or is the
\* evidence itself.
LEMMA ScoredRecent ==
  ASSUME TypeOK, NEW b \in Devices, NEW s \in Sources, NEW h \in Scored(b, s).recent
  PROVE  /\ h \in [src : Sources, at : Nat]
         /\ \/ h = [src |-> s, at |-> now]
            \/ b \in known /\ h \in profiles[b].recent
<1> DEFINE p == Decayed(Profile(b))
           recent == Recent(p, s)
           score == AtMost(p.score + Bonus(Weight[s], recent), MAX_SCORE)
           count == p.count + (IF score >= ALERT_THRESHOLD THEN 1 ELSE 0)
<1>1. p \in Profiles /\ Profile(b) \in Profiles
  BY ProfileType, DecayedType
<1>2. Scored(b, s) = [p EXCEPT !.score = score, !.update = now, !.recent = recent,
                                !.count = count]
  BY DEF Scored
<1>3. p.recent = Profile(b).recent
  BY <1>1 DEF Decayed, Profiles
<1> HIDE DEF p, score, count
<1>4. h \in recent
  <2> HIDE DEF recent
  <2> QED
    BY <1>1, <1>2 DEF Profiles
<1>5. h = [src |-> s, at |-> now] \/ h \in Profile(b).recent
  BY <1>3, <1>4 DEF Recent
<1>6. h \in Profile(b).recent => b \in known /\ h \in profiles[b].recent
  BY DEF Profile, Profiled
<1>7. h \in [src : Sources, at : Nat]
  BY <1>1, <1>4, RecentType DEF RecentSets
<1> QED
  BY <1>5, <1>6, <1>7

LEMMA RecentStep ==
  ASSUME TypeOK, RecentInv, [Next]_vars
  PROVE  RecentInv'
<1>0. now \in Nat /\ \A d \in Devices, t \in Sources : hits[d][t] \in Int
  BY DEF TypeOK
<1>1. ASSUME NEW b \in Devices, NEW s \in Sources, AddEvidence(b, s)
      PROVE  RecentInv'
  <2>1. /\ now' = now /\ known' \subseteq known \union {b} /\ known' \subseteq Devices
        /\ hits' = [hits EXCEPT ![b][s] = now]
    BY <1>1, EvidenceEffect DEF AddEvidence, TypeOK
  <2>2. \A d \in Devices, t \in Sources :
          /\ hits'[d][t] = IF d = b /\ t = s THEN now ELSE hits[d][t]
          /\ hits[d][t] <= hits'[d][t] /\ hits'[d][t] <= now
    <3>1. \A d \in Devices, t \in Sources :
            hits'[d][t] = IF d = b /\ t = s THEN now ELSE hits[d][t]
      BY <2>1 DEF TypeOK
    <3> QED
      BY <1>0, <3>1 DEF RecentInv
  <2>3. ASSUME NEW d \in known', NEW h \in profiles'[d].recent
        PROVE  h.at <= hits'[d][h.src]
    <3>1. d \in Devices /\ profiles'[d] = IF d = b THEN Scored(b, s) ELSE profiles[d]
      BY <1>1, <2>1, EvidenceEffect
    <3>2. CASE d = b /\ h = [src |-> s, at |-> now]
      BY <1>0, <2>2, <3>2
    <3>3. CASE d \in known /\ h \in profiles[d].recent
      <4>1. h.at <= hits[d][h.src] /\ h.src \in Sources /\ h.at \in Nat
        <5>1. profiles[d].recent \subseteq [src : Sources, at : Nat]
          BY <3>1 DEF TypeOK, Profiles
        <5> QED
          BY <3>3, <5>1 DEF RecentInv
      <4>2. hits[d][h.src] <= hits'[d][h.src] /\ hits[d][h.src] \in Int /\ hits'[d][h.src] \in Int
        BY <1>0, <2>2, <3>1, <4>1
      <4> QED
        BY <4>1, <4>2
    <3>4. CASE d = b
      BY <2>3, <3>1, <3>2, <3>3, <3>4, ScoredRecent
    <3>5. CASE d # b
      BY <2>1, <2>3, <3>1, <3>3, <3>5
    <3> QED
      BY <3>4, <3>5
  <2> QED
    BY <2>1, <2>2, <2>3 DEF RecentInv
<1>2. ASSUME NEW b \in Devices, ClearDevice(b)
      PROVE  RecentInv'
  <2>1. /\ now' = now /\ known' = known \ {b}
        /\ \A d \in Devices \ {b} : profiles'[d] = profiles[d] /\ hits'[d] = hits[d]
        /\ hits'[b] = NoHits
    BY <1>2 DEF ClearDevice, TypeOK
  <2>2. \A t \in Sources : NoHits[t] <= now
    BY <1>0, LimitsAssumption DEF NoHits, Never
  <2> QED
    BY <2>1, <2>2 DEF RecentInv, TypeOK
<1>3. CASE Tick
  <2>1. now' = now + 1 /\ UNCHANGED <<profiles, known, hits>>
    BY <1>3 DEF Tick, codeVars
  <2>2. \A d \in Devices, t \in Sources : hits[d][t] <= now + 1
    BY <1>0 DEF RecentInv
  <2> QED
    BY <2>1, <2>2 DEF RecentInv
<1>4. CASE UNCHANGED vars
  BY <1>4 DEF vars, codeVars, RecentInv
<1> QED
  BY <1>1, <1>2, <1>3, <1>4 DEF Next

\* Two sources are not one.
LEMMA TwoSources ==
  ASSUME NEW S, NEW s, Cardinality(S) >= 2
  PROVE  \E t \in S : t # s
<1> SUFFICES ASSUME \A t \in S : t = s PROVE FALSE
  OBVIOUS
<1>1. CASE S = {}
  <2>1. Cardinality(S) = 0
    BY <1>1, FS_EmptySet
  <2> QED
    BY <2>1
<1>2. CASE S # {}
  <2>1. S = {s}
    BY <1>2
  <2>2. Cardinality({s}) = 1
    BY FS_Singleton
  <2> QED
    BY <2>1, <2>2
<1> QED
  BY <1>1, <1>2

(***************************************************************************)
(* The correlation bonus is given only when a second source did give       *)
(* evidence about the device within the window, for any sources and any    *)
(* window, through pruning and cleared devices (threat_scorer.rs:115-127,  *)
(* 198-203).                                                               *)
(***************************************************************************)
THEOREM CorrelationReal == Spec => CorrelationIsReal
<1> DEFINE Real == \A b \in Devices, s \in Sources : AddEvidence(b, s) =>
                     (Correlated(Scored(b, s).recent) => Converging(b, s))
<1>1. TypeOK /\ RecentInv => Real
  <2> SUFFICES ASSUME TypeOK, RecentInv, NEW b \in Devices, NEW s \in Sources,
                      Correlated(Scored(b, s).recent)
               PROVE  Converging(b, s)
    OBVIOUS
  <2> DEFINE recent == Scored(b, s).recent
  <2>1. PICK t \in DistinctRecent(recent) : t # s
    BY TwoSources DEF Correlated
  <2>2. PICK h \in recent : h.src = t /\ now - h.at < CORRELATION_WINDOW
    BY <2>1 DEF DistinctRecent
  <2>3. h \in [src : Sources, at : Nat] /\ b \in known /\ h \in profiles[b].recent
    <3>1. h # [src |-> s, at |-> now]
      BY <2>1, <2>2
    <3> QED
      BY <3>1, ScoredRecent
  <2>4. h.at <= hits[b][t] /\ t \in Sources \ {s}
    BY <2>1, <2>2, <2>3 DEF RecentInv
  <2>5. hits[b][t] \in Int /\ now \in Nat /\ h.at \in Nat /\ CORRELATION_WINDOW \in Nat
    BY <2>3, <2>4, LimitsAssumption DEF TypeOK
  <2>6. now - hits[b][t] < CORRELATION_WINDOW
    BY <2>2, <2>4, <2>5
  <2> QED
    BY <2>4, <2>6 DEF Converging
<1>2. TypeOK /\ RecentInv /\ [Next]_vars => [Real]_vars
  BY <1>1
<1>3. Init => RecentInv
  BY LimitsAssumption DEF Init, RecentInv, NoHits, Never
<1>4. TypeOK /\ RecentInv /\ [Next]_vars => RecentInv'
  BY RecentStep
<1> QED
  BY <1>2, <1>3, <1>4, TypeCorrect, PTL DEF Spec, CorrelationIsReal

=============================================================================
