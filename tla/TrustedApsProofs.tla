-------------------------- MODULE TrustedApsProofs --------------------------
(***************************************************************************)
(* Theorems about TrustedAps, for any networks, any initial whitelist and  *)
(* any number of frames, requests, disk failures and crashes.              *)
(***************************************************************************)
EXTENDS TrustedAps, TLAPS

LEMMA LoadTyped ==
  ASSUME NEW f \in [lines : SUBSET Aps, parses : BOOLEAN]
  PROVE  \A S \in Load(f) : S \subseteq Aps
  BY DEF Load, Parsed

LEMMA RemainsTyped ==
  ASSUME TypeOK, NEW f \in Remains
  PROVE  f \in [lines : SUBSET Aps, parses : BOOLEAN]
<1>1. \A L \in SUBSET trusted : L \in SUBSET Aps
  BY DEF TypeOK
<1>2. CASE api.at = "Write"
  <2>1. f \in [lines : SUBSET trusted, parses : BOOLEAN]
    BY <1>2 DEF Remains
  <2> QED
    BY <1>1, <2>1
<1>3. CASE api.at # "Write"
  BY <1>3 DEF Remains, TypeOK
<1> QED
  BY <1>2, <1>3

LEMMA InitTypeOK == Init => TypeOK
<1> SUFFICES ASSUME Init PROVE TypeOK
  OBVIOUS
<1>1. trusted \subseteq Aps
  BY LoadTyped DEF Init
<1> QED
  BY <1>1 DEF Init, TypeOK, NothingSeen, NoReports

LEMMA CaptureTyped ==
  ASSUME TypeOK,
         (\E p \in Aps : Beacon(p)) \/ LookUpTrusted \/ LookUpEntries \/ AddEvidence
  PROVE  TypeOK'
<1> USE DEF TypeOK, history, whitelistVars, CaptureSteps
<1>1. ASSUME NEW p \in Aps, Beacon(p) PROVE TypeOK'
  <2>1. p[1] \in SSIDs /\ p[2] \in BSSIDs
    BY DEF Aps
  <2>2. seen' \in [SSIDs -> SUBSET BSSIDs] /\ alerted' \subseteq Aps
    BY <1>1, <2>1 DEF Beacon
  <2>3. capture' \in [at : CaptureSteps, ap : Aps]
    BY <1>1 DEF Beacon
  <2> QED
    BY <1>1, <2>2, <2>3 DEF Beacon
<1>2. CASE LookUpTrusted
  BY <1>2 DEF LookUpTrusted, Waiting
<1>3. CASE LookUpEntries
  BY <1>3 DEF LookUpEntries, Waiting
<1>4. CASE AddEvidence
  BY <1>4 DEF AddEvidence, Waiting
<1> QED
  BY <1>1, <1>2, <1>3, <1>4

LEMMA ApiTyped ==
  ASSUME TypeOK,
         \/ \E p \in Aps : AddAgain(p)
         \/ \E p \in Aps, spelled \in Spellings : AddTrusted(p, spelled)
         \/ Truncate \/ Write \/ PersistFails
  PROVE  TypeOK'
<1> USE DEF TypeOK, captureVars, whitelistVars, ApiSteps
<1>1. ASSUME NEW p \in Aps, AddAgain(p) PROVE TypeOK'
  BY <1>1 DEF AddAgain
<1>2. ASSUME NEW p \in Aps, NEW spelled \in Spellings, AddTrusted(p, spelled) PROVE TypeOK'
  BY <1>2 DEF AddTrusted
<1>3. CASE Truncate
  BY <1>3 DEF Truncate, Idle
<1>4. CASE Write
  <2>1. file' \in [lines : SUBSET Aps, parses : BOOLEAN]
    BY <1>4 DEF Write
  <2>2. api' \in [at : ApiSteps, ap : Aps, spelled : Spellings]
    BY <1>4 DEF Write, Idle
  <2> QED
    BY <1>4, <2>1, <2>2 DEF Write
<1>5. CASE PersistFails
  BY <1>5, RemainsTyped DEF PersistFails, Persisting, Idle
<1> QED
  BY <1>1, <1>2, <1>3, <1>4, <1>5

\* Every step of an API request works on an access point that is trusted.
ApIsTrusted == api.at \in ApiSteps => api.ap \in trusted

LEMMA ClearTyped ==
  ASSUME TypeOK, ApIsTrusted, ClearScore
  PROVE  TypeOK'
<1>1. api.ap \in trusted
  BY DEF ClearScore, ApIsTrusted, ApiSteps
<1>2. reports' \in [Aps -> Nat]
  BY DEF TypeOK, ClearScore
<1> QED
  BY <1>1, <1>2 DEF TypeOK, ClearScore, whitelistVars

LEMMA CrashTyped ==
  ASSUME TypeOK, Crash
  PROVE  TypeOK'
<1>1. file' \in [lines : SUBSET Aps, parses : BOOLEAN]
  BY RemainsTyped DEF Crash
<1>2. trusted' \subseteq Aps
  BY <1>1, LoadTyped DEF Crash
<1> QED
  BY <1>1, <1>2 DEF Crash, TypeOK, NothingSeen, NoReports

LEMMA ApIsTrustedStep ==
  ASSUME TypeOK, ApIsTrusted, [Next]_vars
  PROVE  ApIsTrusted'
<1> USE DEF ApIsTrusted, ApiSteps, Idle
<1>1. ASSUME NEW p \in Aps, Beacon(p) PROVE ApIsTrusted'
  BY <1>1 DEF Beacon, whitelistVars
<1>2. ASSUME NEW p \in Aps, NEW spelled \in Spellings, AddTrusted(p, spelled)
      PROVE  ApIsTrusted'
  BY <1>2 DEF AddTrusted
<1>3. ASSUME NEW p \in Aps, AddAgain(p) PROVE ApIsTrusted'
  BY <1>3 DEF AddAgain, whitelistVars
<1>4. CASE LookUpTrusted \/ LookUpEntries \/ AddEvidence
  BY <1>4 DEF LookUpTrusted, LookUpEntries, AddEvidence, whitelistVars
<1>5. CASE Truncate \/ Write \/ PersistFails
  BY <1>5 DEF Truncate, Write, PersistFails, Persisting, TypeOK
<1>6. CASE ClearScore \/ Crash
  BY <1>6 DEF ClearScore, Crash
<1>7. CASE UNCHANGED vars
  BY <1>7 DEF vars
<1> QED
  BY <1>1, <1>2, <1>3, <1>4, <1>5, <1>6, <1>7 DEF Next

TypeInv == TypeOK /\ ApIsTrusted

LEMMA TypeStep == TypeInv /\ [Next]_vars => TypeInv'
<1> SUFFICES ASSUME TypeOK, ApIsTrusted, [Next]_vars PROVE TypeOK'
  BY ApIsTrustedStep DEF TypeInv
<1>1. CASE UNCHANGED vars
  BY <1>1 DEF vars, TypeOK
<1> QED
  BY <1>1, CaptureTyped, ApiTyped, ClearTyped, CrashTyped DEF Next

(***************************************************************************)
(* Whatever the operator does, the disk does and the crashes do, the state *)
(* is well typed: only what memory trusts was cleared, and memory trusts   *)
(* nothing that was never added (whitelist.rs, api_server.rs:721-758).     *)
(***************************************************************************)
THEOREM TypeCorrect == Spec => []TypeOK
<1>1. Init => TypeInv
  BY InitTypeOK DEF Init, TypeInv, ApIsTrusted, ApiSteps, Idle
<1> QED
  BY <1>1, TypeStep, PTL DEF Spec, TypeInv

LEMMA TypeInvAlways == Spec => []TypeInv
<1>1. Init => TypeInv
  BY InitTypeOK DEF Init, TypeInv, ApIsTrusted, ApiSteps, Idle
<1> QED
  BY <1>1, TypeStep, PTL DEF Spec

----------------------------------------------------------------------------
(***************************************************************************)
(* Where the file stands while it is written.  Before the truncation it    *)
(* still is what it was when the request came, so it has all that was      *)
(* promised; from the truncation on it is dirty until it was written.      *)
(***************************************************************************)
WriteIsDirty == api.at = "Write" => dirty
OldFileIsEnough ==
  api.at = "Truncate" /\ ~dirty /\ ~broken => file.parses /\ promised \subseteq file.lines

KeptInv == TrustIsKept /\ WriteIsDirty /\ OldFileIsEnough

LEMMA KeptInit == Init => KeptInv
<1> SUFFICES ASSUME Init PROVE KeptInv
  OBVIOUS
<1>1. file.parses => file = [lines |-> file.lines, parses |-> TRUE]
  BY DEF Init
<1> QED
  BY <1>1 DEF Init, KeptInv, TrustIsKept, WriteIsDirty, OldFileIsEnough, Idle, Persisting

LEMMA KeptCapture ==
  ASSUME KeptInv, UNCHANGED <<file, trusted, api, promised, dirty, broken>>
  PROVE  KeptInv'
  BY DEF KeptInv, TrustIsKept, WriteIsDirty, OldFileIsEnough, Persisting

LEMMA KeptAdd ==
  ASSUME TypeInv, KeptInv, NEW p \in Aps, NEW spelled \in Spellings, AddTrusted(p, spelled)
  PROVE  KeptInv'
<1>1. ~dirty => file = [lines |-> trusted, parses |-> TRUE]
  BY DEF KeptInv, TrustIsKept, AddTrusted, Persisting
<1>2. ~broken => promised \subseteq trusted
  BY DEF KeptInv, TrustIsKept
<1> QED
  BY <1>1, <1>2
  DEF AddTrusted, KeptInv, TrustIsKept, WriteIsDirty, OldFileIsEnough, Persisting

LEMMA KeptPersist ==
  ASSUME TypeInv, KeptInv, Truncate \/ Write \/ PersistFails
  PROVE  KeptInv'
<1>1. api'.at = IF Truncate THEN "Write" ELSE "ClearScore"
  <2>1. CASE api = Idle
    BY <2>1 DEF Idle, Truncate, Write, PersistFails, Persisting
  <2>2. CASE api \in [at : ApiSteps, ap : Aps, spelled : Spellings]
    BY <2>2 DEF Truncate, Write, PersistFails
  <2> QED
    BY <2>1, <2>2 DEF TypeInv, TypeOK
<1>2. CASE Truncate
  BY <1>1, <1>2 DEF Truncate, KeptInv, TrustIsKept, WriteIsDirty, OldFileIsEnough, Persisting
<1>3. CASE Write /\ ~Truncate
  BY <1>1, <1>3 DEF Write, KeptInv, TrustIsKept, WriteIsDirty, OldFileIsEnough, Persisting
<1>4. CASE PersistFails /\ ~Truncate
  BY <1>1, <1>4 DEF PersistFails, KeptInv, TrustIsKept, WriteIsDirty, OldFileIsEnough, Persisting
<1> QED
  BY <1>2, <1>3, <1>4

LEMMA KeptClear ==
  ASSUME TypeInv, KeptInv, ClearScore
  PROVE  KeptInv'
<1>1. api.ap \in trusted
  BY DEF TypeInv, ApIsTrusted, ApiSteps, ClearScore
<1>2. ~Persisting /\ ~Persisting'
  BY DEF ClearScore, Persisting, Idle
<1> QED
  BY <1>1, <1>2
  DEF ClearScore, whitelistVars, KeptInv, TrustIsKept, WriteIsDirty, OldFileIsEnough,
      Persisting, Idle

LEMMA KeptCrash ==
  ASSUME TypeInv, KeptInv, Crash
  PROVE  KeptInv'
<1>1. file' \in [lines : SUBSET Aps, parses : BOOLEAN]
  BY RemainsTyped DEF Crash, TypeInv
<1>2. file'.parses => file' = [lines |-> file'.lines, parses |-> TRUE]
  BY <1>1
<1>3. ~broken' => promised \subseteq trusted'
  <2> SUFFICES ASSUME ~broken, ~dirty, trusted' = Parsed(file')
               PROVE  promised \subseteq trusted'
    BY DEF Crash, TypeInv, TypeOK
  <2>1. api.at # "Write" /\ file' = file
    BY DEF Crash, Remains, KeptInv, WriteIsDirty
  <2>2. CASE api.at = "Truncate"
    BY <2>1, <2>2 DEF Crash, KeptInv, OldFileIsEnough, Parsed
  <2>3. CASE api.at # "Truncate"
    BY <2>1, <2>3 DEF Crash, KeptInv, TrustIsKept, Persisting, Parsed
  <2> QED
    BY <2>2, <2>3
<1>4. ~dirty' => file' = [lines |-> trusted', parses |-> TRUE]
  BY <1>2 DEF Crash
<1> QED
  BY <1>3, <1>4
  DEF Crash, KeptInv, TrustIsKept, WriteIsDirty, OldFileIsEnough, Persisting, Idle

LEMMA KeptStep == TypeInv /\ KeptInv /\ [Next]_vars => KeptInv'
<1> SUFFICES ASSUME TypeInv, KeptInv, [Next]_vars PROVE KeptInv'
  OBVIOUS
<1>1. ASSUME NEW p \in Aps, Beacon(p) PROVE KeptInv'
  BY <1>1, KeptCapture DEF Beacon, whitelistVars, history
<1>2. CASE LookUpTrusted \/ LookUpEntries \/ AddEvidence
  BY <1>2, KeptCapture DEF LookUpTrusted, LookUpEntries, AddEvidence, whitelistVars, history
<1>3. ASSUME NEW p \in Aps, AddAgain(p) PROVE KeptInv'
  BY <1>3 DEF AddAgain, whitelistVars, KeptInv, TrustIsKept, WriteIsDirty, OldFileIsEnough,
              Persisting
<1>4. CASE UNCHANGED vars
  BY <1>4, KeptCapture DEF vars
<1> QED
  BY <1>1, <1>2, <1>3, <1>4, KeptAdd, KeptPersist, KeptClear, KeptCrash DEF Next

(***************************************************************************)
(* A restart loads all that the operator wrote or was told is trusted,     *)
(* unless a crash fell between truncating and writing the file, its last   *)
(* write had failed, it did not parse from the beginning, or the start     *)
(* could not read it (whitelist.rs:27-50, 64-75, 106-116).                 *)
(***************************************************************************)
THEOREM TrustKept == Spec => []TrustIsKept
<1>1. KeptInv => TrustIsKept
  BY DEF KeptInv
<1> QED
  BY <1>1, TypeInvAlways, KeptInit, KeptStep, PTL DEF Spec

(***************************************************************************)
(* Once a request was answered, no Rogue AP alert is fired for its access  *)
(* point, now or after a restart, as long as no promise was broken         *)
(* (main.rs:313-321, rogue_ap.rs:54).                                      *)
(***************************************************************************)
LEMMA AlarmStep ==
  ASSUME KeptInv, [Next]_vars
  PROVE  [~broken => \A p \in alerted' \ alerted : p \notin promised]_vars
<1> SUFFICES ASSUME ~broken, NEW p \in alerted', p \notin alerted
             PROVE  p \notin promised
  OBVIOUS
<1>1. ASSUME NEW q \in Aps, Beacon(q) PROVE p \notin promised
  <2>1. p = q /\ IsRogue(q)
    BY <1>1 DEF Beacon
  <2> QED
    BY <2>1 DEF IsRogue, KeptInv, TrustIsKept
<1>3. ASSUME ~\E q \in Aps : Beacon(q) PROVE alerted' = alerted
  BY <1>3 DEF Next, LookUpTrusted, LookUpEntries, AddEvidence, AddAgain, AddTrusted, Truncate,
              Write, PersistFails, ClearScore, Crash, vars
<1> QED
  BY <1>1, <1>3

(***************************************************************************)
(* An answered request silences the Rogue AP alerts of its access point    *)
(* for good, as long as no promise was broken (main.rs:313-321).           *)
(***************************************************************************)
THEOREM TrustedNeverAlarmed == Spec => NoAlarmOnTrusted
  BY TypeInvAlways, KeptInit, KeptStep, AlarmStep, PTL DEF Spec, NoAlarmOnTrusted

----------------------------------------------------------------------------
(***************************************************************************)
(* The loop is past its first lookup about p: it has found p untrusted.    *)
(* It can be so about a cleared p only if no evidence came since.          *)
(***************************************************************************)
InFlight(p) == capture.ap = p /\ capture.at \in {"LookUpEntries", "AddEvidence"}
LateInv ==
  \A p \in cleared : reports[p] <= 1 /\ (InFlight(p) => reports[p] = 0)

LEMMA LateCapture ==
  ASSUME TypeInv, LateInv, NEW p \in cleared,
         (\E q \in Aps : Beacon(q)) \/ LookUpTrusted \/ LookUpEntries \/ AddEvidence
  PROVE  reports'[p] <= 1 /\ (InFlight(p)' => reports'[p] = 0)
<1>1. p \in Aps /\ p \in trusted /\ reports[p] \in Nat
  BY DEF TypeInv, TypeOK
<1>2. reports[p] <= 1 /\ (InFlight(p) => reports[p] = 0)
  BY DEF LateInv
<1>3. ASSUME NEW q \in Aps, Beacon(q) PROVE ~InFlight(p)' /\ reports' = reports
  BY <1>3 DEF Beacon, InFlight
<1>4. CASE LookUpTrusted
  <2>1. reports' = reports
    BY <1>4 DEF LookUpTrusted
  <2>2. ~InFlight(p)'
    <3>1. CASE capture.ap \in trusted
      BY <1>4, <3>1 DEF LookUpTrusted, InFlight, Waiting
    <3>2. CASE capture.ap \notin trusted
      BY <1>1, <1>4, <3>2 DEF LookUpTrusted, InFlight, TypeInv, TypeOK, Waiting
    <3> QED
      BY <3>1, <3>2
  <2> QED
    BY <1>2, <2>1, <2>2
<1>5. CASE LookUpEntries
  <2>1. InFlight(p)' => InFlight(p)
    <3>1. CASE HasEntriesFor(capture.ap[1])
      BY <1>5, <3>1 DEF LookUpEntries, InFlight, TypeInv, TypeOK, Waiting
    <3>2. CASE ~HasEntriesFor(capture.ap[1])
      BY <1>5, <3>2 DEF LookUpEntries, InFlight, Waiting
    <3> QED
      BY <3>1, <3>2
  <2> QED
    BY <1>2, <1>5, <2>1 DEF LookUpEntries
<1>6. CASE AddEvidence
  <2>1. ~InFlight(p)'
    BY <1>6 DEF AddEvidence, InFlight, Waiting
  <2>2. CASE capture.ap = p
    <3>1. reports'[p] = reports[p] + 1
      BY <1>1, <1>6, <2>2 DEF AddEvidence, TypeInv, TypeOK
    <3>2. reports[p] = 0
      BY <1>2, <1>6, <2>2 DEF AddEvidence, InFlight
    <3> QED
      BY <2>1, <3>1, <3>2
  <2>3. CASE capture.ap # p
    <3>1. reports'[p] = reports[p]
      BY <1>1, <1>6, <2>3 DEF AddEvidence, TypeInv, TypeOK
    <3> QED
      BY <1>2, <2>1, <3>1
  <2> QED
    BY <2>2, <2>3
<1> QED
  BY <1>2, <1>3, <1>4, <1>5, <1>6

LEMMA LateClear ==
  ASSUME TypeInv, LateInv, ClearScore
  PROVE  LateInv'
<1> SUFFICES ASSUME NEW p \in cleared'
             PROVE  reports'[p] <= 1 /\ (InFlight(p)' => reports'[p] = 0)
  BY DEF LateInv
<1>1. api.ap \in Aps
  BY DEF TypeInv, TypeOK, ApIsTrusted, ApiSteps, ClearScore
<1>2. p \in Aps /\ (p \in cleared \/ (Found /\ p = api.ap))
  BY <1>1 DEF ClearScore, TypeInv, TypeOK
<1>3. InFlight(p)' = InFlight(p)
  BY DEF ClearScore, InFlight
<1>4. reports'[p] = 0 \/ (p \in cleared /\ reports'[p] = reports[p])
  BY <1>1, <1>2 DEF ClearScore, TypeInv, TypeOK
<1> QED
  BY <1>3, <1>4 DEF LateInv

LEMMA LateStep == TypeInv /\ LateInv /\ [Next]_vars => LateInv'
<1> SUFFICES ASSUME TypeInv, LateInv, [Next]_vars PROVE LateInv'
  OBVIOUS
<1>1. CASE (\E q \in Aps : Beacon(q)) \/ LookUpTrusted \/ LookUpEntries \/ AddEvidence
  <2>1. cleared' = cleared
    BY <1>1 DEF Beacon, LookUpTrusted, LookUpEntries, AddEvidence, history
  <2> QED
    BY <1>1, <2>1, LateCapture DEF LateInv
<1>2. CASE UNCHANGED <<reports, capture, cleared>>
  BY <1>2 DEF LateInv, InFlight
<1>3. CASE Crash
  BY <1>3 DEF Crash, LateInv
<1>4. ASSUME NEW p \in Aps, AddAgain(p) PROVE UNCHANGED <<reports, capture, cleared>>
  BY <1>4 DEF AddAgain, captureVars
<1>5. ASSUME NEW p \in Aps, NEW spelled \in Spellings, AddTrusted(p, spelled)
      PROVE  UNCHANGED <<reports, capture, cleared>>
  BY <1>5 DEF AddTrusted, captureVars
<1>6. ASSUME Truncate \/ Write \/ PersistFails \/ UNCHANGED vars
      PROVE  UNCHANGED <<reports, capture, cleared>>
  BY <1>6 DEF Truncate, Write, PersistFails, captureVars, vars
<1> QED
  BY <1>1, <1>2, <1>3, <1>4, <1>5, <1>6, LateClear DEF Next

(***************************************************************************)
(* At most one piece of evidence reaches an access point after it was      *)
(* trusted and its score was cleared, in any interleaving of the loop's    *)
(* lookups with the request (main.rs:339-344, api_server.rs:735-747).      *)
(***************************************************************************)
THEOREM AtMostOneLate == Spec => []OneLateReport
<1>1. Init => LateInv
  BY DEF Init, LateInv
<1>2. LateInv => OneLateReport
  BY DEF LateInv, OneLateReport
<1> QED
  BY <1>1, <1>2, TypeInvAlways, LateStep, PTL DEF Spec

----------------------------------------------------------------------------
LEMMA TwinsBeacon ==
  ASSUME TypeInv, TwinsAreReported, NEW p \in Aps, Beacon(p)
  PROVE  TwinsAreReported'
<1> SUFFICES ASSUME NEW s \in SSIDs, NEW b \in NeverTrusted(s)', NEW c \in NeverTrusted(s)',
                    b # c
             PROVE  <<s, b>> \in alerted' \/ <<s, c>> \in alerted'
  BY DEF TwinsAreReported
<1>1. everTrusted' = everTrusted /\ trusted \subseteq everTrusted /\ alerted \subseteq alerted'
  BY DEF Beacon, history, TypeInv, TypeOK
<1>2. p[1] \in SSIDs /\ p[2] \in BSSIDs /\ p = <<p[1], p[2]>>
  BY DEF Aps
<1>3. /\ b \in seen'[s] /\ <<s, b>> \notin everTrusted
      /\ c \in seen'[s] /\ <<s, c>> \notin everTrusted
  BY <1>1 DEF NeverTrusted
<1>4. CASE b \in seen[s] /\ c \in seen[s]
  BY <1>1, <1>3, <1>4 DEF NeverTrusted, TwinsAreReported
<1>5. ASSUME NEW d \in BSSIDs, d \in seen'[s], d \notin seen[s], <<s, d>> \notin everTrusted,
             NEW e \in seen[s]
      PROVE  <<s, d>> \in alerted'
  <2>1. p[1] = s /\ p[2] = d /\ p[1] # Hidden
    BY <1>2, <1>5 DEF Beacon, TypeInv, TypeOK
  <2>2. IsRogue(p)
    BY <1>1, <1>2, <1>5, <2>1 DEF IsRogue
  <2> QED
    BY <1>2, <2>1, <2>2 DEF Beacon
<1>6. \A d, e : d \in seen'[s] \ seen[s] /\ e \in seen'[s] \ seen[s] => d = e
  BY <1>2 DEF Beacon, TypeInv, TypeOK
<1>7. b \in BSSIDs /\ c \in BSSIDs
  BY <1>2, <1>3 DEF Beacon, TypeInv, TypeOK
<1> QED
  BY <1>3, <1>4, <1>5, <1>6, <1>7

LEMMA TwinsStep == TypeInv /\ TwinsAreReported /\ [Next]_vars => TwinsAreReported'
<1> SUFFICES ASSUME TypeInv, TwinsAreReported, [Next]_vars PROVE TwinsAreReported'
  OBVIOUS
<1>1. CASE Crash
  BY <1>1 DEF Crash, TwinsAreReported, NeverTrusted, NothingSeen
<1>2. CASE UNCHANGED <<seen, alerted>> /\ everTrusted \subseteq everTrusted'
  BY <1>2 DEF TwinsAreReported, NeverTrusted
<1>3. CASE LookUpTrusted \/ LookUpEntries \/ AddEvidence \/ UNCHANGED vars
  BY <1>2, <1>3 DEF LookUpTrusted, LookUpEntries, AddEvidence, history, vars
<1>4. ASSUME NEW p \in Aps, AddAgain(p) PROVE TwinsAreReported'
  BY <1>2, <1>4 DEF AddAgain, captureVars
<1>5. ASSUME NEW p \in Aps, NEW spelled \in Spellings, AddTrusted(p, spelled)
      PROVE  TwinsAreReported'
  BY <1>2, <1>5 DEF AddTrusted, captureVars
<1>6. CASE Truncate \/ Write \/ PersistFails \/ ClearScore
  BY <1>2, <1>6 DEF Truncate, Write, PersistFails, ClearScore, captureVars
<1> QED
  BY <1>1, <1>3, <1>4, <1>5, <1>6, TwinsBeacon DEF Next

(***************************************************************************)
(* Of any two access points that share an SSID and were never trusted, one *)
(* at least is alerted on (rogue_ap.rs:46-56).                             *)
(***************************************************************************)
THEOREM TwinsReported == Spec => []TwinsAreReported
<1>1. Init => TwinsAreReported
  BY DEF Init, TwinsAreReported, NeverTrusted, NothingSeen
<1> QED
  BY <1>1, TypeInvAlways, TwinsStep, PTL DEF Spec

=============================================================================
