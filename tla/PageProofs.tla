----------------------------- MODULE PageProofs -----------------------------
(***************************************************************************)
(* Proofs about the pages on which the user acts.                          *)
(*                                                                         *)
(* The settings page, for any switches and any number of configurations    *)
(* and detections.  SwitchesReachBackend follows a configuration from the  *)
(* row that posts it to the backend: while it is the last one posted, and  *)
(* no GET crosses it, its switches are those of localStorage on its way    *)
(* (PostsAgree) and when it was applied (ConfigAgrees).  Only the answer   *)
(* to a GET could change localStorage meanwhile; those asked for when no   *)
(* post was under way (GetAlone) bring back what the backend already has   *)
(* (AnswersAgree).  CamerasStop counts the cameras that are on: the        *)
(* dialog's and those granted late.                                        *)
(*                                                                         *)
(* The pages that list alerts, for any number of alerts and any limits,    *)
(* filters and page sizes (PagesInv of module Pages).                      *)
(***************************************************************************)
EXTENDS SettingsPage, Pages, FiniteSetTheorems, WellFoundedInduction, TLAPS

Flags == [Kept -> BOOLEAN]
States == {"on", "off", "unset"}

TypeOK ==
    /\ saved \in [Kept \cup Toggles -> States]
    /\ checked \in [Toggles -> BOOLEAN]
    /\ DOMAIN get = Gets
    /\ \A g \in Gets : get[g].answer.flags \in Flags
    /\ posted \in Nat /\ applied \in 0..posted
    /\ \A p \in posts : p.n \in 1..posted /\ p.body.flags \in Flags
    /\ config.flags \in Flags
    /\ crossed \in BOOLEAN

(* The switches f are the ones the user left.                              *)
Agrees(f) == \A k \in Kept : f[k] = getSetting(saved, k)

PostsAgree == ~crossed => \A p \in posts : p.n = posted => Agrees(p.body.flags)
ConfigAgrees == posted > 0 /\ applied = posted /\ ~crossed => Agrees(config.flags)
GetAlone == ~crossed /\ Asked # {} => posts = {}
AnswersAgree ==
    posted > 0 /\ applied = posted /\ ~crossed =>
        \A g \in Gets : get[g].pc = "read" => get[g].answer.flags = config.flags

Inv == TypeOK /\ PostsAgree /\ ConfigAgrees /\ GetAlone /\ AnswersAgree

-----------------------------------------------------------------------------
(* The default of a switch is TRUE or FALSE (SettingsPage.tsx:11-27).      *)
LEMMA OnIsBoolean == ASSUME NEW k PROVE On(k) \in BOOLEAN
<1> DEFINE S == {"channel_hopping", "passive_scan", "client_tracking", "desktop_notif",
                 "retain_forever", "passive_block"}
<1>1. CASE k \in S
  <2>1. On(k) = TRUE
    BY <1>1 DEF On
  <2> QED
    BY <2>1
<1>2. CASE k \notin S
  <2>1. On(k) = FALSE
    BY <1>2 DEF On
  <2> QED
    BY <2>1
<1> QED
  BY <1>1, <1>2

(* Reading a switch gives TRUE or FALSE (SettingsPage.tsx:6-9).            *)
LEMMA ReadIsBoolean ==
  ASSUME NEW s, NEW k
  PROVE  getSetting(s, k) \in BOOLEAN
<1>1. CASE s[k] = "unset"
  <2>1. getSetting(s, k) = On(k)
    BY <1>1 DEF getSetting
  <2>2. On(k) \in BOOLEAN
    BY OnIsBoolean
  <2> QED
    BY <2>1, <2>2
<1>2. CASE s[k] # "unset"
  <2>1. getSetting(s, k) = (s[k] = "on")
    BY <1>2 DEF getSetting
  <2>2. (s[k] = "on") \in BOOLEAN
    BY Zenon
  <2> QED
    BY <2>1, <2>2
<1> QED
  BY <1>1, <1>2

(* What agrees with localStorage goes on agreeing while no kept switch is  *)
(* written.                                                                *)
LEMMA AgreesStays ==
  ASSUME NEW f, Agrees(f), \A k \in Kept : saved'[k] = saved[k]
  PROVE  Agrees(f)'
BY DEF Agrees, getSetting

(* The switches posted by syncToBackend are those of localStorage          *)
(* (SettingsPage.tsx:81-106).                                              *)
LEMMA BodyAgrees ==
  ASSUME TypeOK, NEW id \in Toggles, NEW v \in BOOLEAN,
         saved' = [saved EXCEPT ![id] = Stored(v)]
  PROVE  /\ Body(saved', id, v).flags \in Flags
         /\ \A k \in Kept : Body(saved', id, v).flags[k] = getSetting(saved', k)
<1>1. Body(saved', id, v).flags
        = [k \in Kept |-> IF k = id THEN v ELSE getSetting(saved', k)]
  BY DEF Body
<1>2. ASSUME NEW k \in Kept
      PROVE  (IF k = id THEN v ELSE getSetting(saved', k)) = getSetting(saved', k)
  <2>1. id \in DOMAIN saved /\ k \in DOMAIN saved
    BY DEF TypeOK
  <2>2. CASE k = id
    <3>1. saved'[k] = Stored(v)
      BY <2>1, <2>2
    <3>2. getSetting(saved', k) = v
      BY <3>1 DEF getSetting, Stored
    <3> QED
      BY <2>2, <3>2, Zenon
  <2>3. CASE k # id
    BY <2>3, Zenon
  <2> QED
    BY <2>2, <2>3
<1> DEFINE F == [k \in Kept |-> IF k = id THEN v ELSE getSetting(saved', k)]
<1>3. F \in Flags
  <2>1. ASSUME NEW k \in Kept
        PROVE  (IF k = id THEN v ELSE getSetting(saved', k)) \in BOOLEAN
    BY ReadIsBoolean
  <2> QED
    BY <2>1 DEF Flags
<1>4. \A k \in Kept : F[k] = getSetting(saved', k)
  BY <1>2, Zenon
<1> QED
  BY <1>1, <1>3, <1>4, Zenon

-----------------------------------------------------------------------------
(* The configuration a backend starts with has a flag for every switch it  *)
(* keeps (SettingsPage.tsx:29).                                            *)
LEMMA DefaultFlags == DefaultConfig.flags \in Flags
<1>1. DefaultConfig.flags = [k \in Kept |-> On(k)]
  BY DEF DefaultConfig
<1>2. ASSUME NEW k \in Kept PROVE On(k) \in BOOLEAN
  BY OnIsBoolean
<1> QED
  BY <1>1, <1>2 DEF Flags

(* No switch is written and nothing is sent when the page is first loaded. *)
LEMMA InitInv == SettingsInit => Inv
<1> SUFFICES ASSUME SettingsInit PROVE Inv
  OBVIOUS
<1>1. DefaultConfig.flags \in Flags
  BY DefaultFlags
<1>2. /\ saved \in [Kept \cup Toggles -> States]
      /\ checked \in [Toggles -> BOOLEAN]
  BY DEF SettingsInit, States
<1>3. /\ posts = {} /\ posted = 0 /\ applied = 0 /\ crossed = FALSE
      /\ config = DefaultConfig /\ get = [g \in Gets |-> NoGet]
  BY DEF SettingsInit
<1>4. DOMAIN get = Gets /\ \A g \in Gets : get[g].pc = "none" /\ get[g].answer = DefaultConfig
  BY <1>3 DEF NoGet
<1>5. crossed \in BOOLEAN
  BY <1>3, Zenon
<1>6. TypeOK
  BY <1>1, <1>2, <1>3, <1>4, <1>5 DEF TypeOK
<1> QED
  BY <1>3, <1>6 DEF Inv, PostsAgree, ConfigAgrees, GetAlone, AnswersAgree

(* Steps of the dialog and of leaving the page.                            *)
LEMMA OtherStep ==
  ASSUME Inv, UNCHANGED <<saved, syncVars>>, checked' \in [Toggles -> BOOLEAN]
  PROVE  Inv'
BY DEF Inv, TypeOK, PostsAgree, ConfigAgrees, GetAlone, AnswersAgree, Agrees, getSetting,
       syncVars, Asked

(* A GET that is made, read or lost, when nothing is posted or applied.    *)
LEMMA GetStep ==
  ASSUME Inv, NEW g \in Gets, NEW pc, NEW answer,
         get' = [get EXCEPT ![g] = [pc |-> pc, answer |-> answer]],
         answer.flags \in Flags,
         pc = "read" => answer = config,
         Asked' # {} => Asked # {} \/ crossed' \/ posts = {},
         crossed' \in BOOLEAN, crossed => crossed',
         checked' \in [Toggles -> BOOLEAN],
         UNCHANGED <<saved, posts, posted, config, applied>>
  PROVE  Inv'
<1>1. /\ DOMAIN get' = Gets
      /\ get'[g].pc = pc /\ get'[g].answer = answer
      /\ \A h \in Gets \ {g} : get'[h] = get[h]
  BY DEF Inv, TypeOK
<1>2. TypeOK'
  <2>1. ASSUME NEW h \in Gets PROVE get'[h].answer.flags \in Flags
    <3>1. CASE h = g
      BY <1>1, <3>1
    <3>2. CASE h # g
      <4>1. h \in Gets \ {g}
        BY <3>2
      <4> QED
        BY <1>1, <4>1 DEF Inv, TypeOK
    <3> QED
      BY <3>1, <3>2
  <2> QED
    BY <1>1, <2>1 DEF Inv, TypeOK
<1>3. PostsAgree' /\ ConfigAgrees' /\ GetAlone'
  BY DEF Inv, PostsAgree, ConfigAgrees, GetAlone, Agrees, getSetting
<1>4. AnswersAgree'
  <2> SUFFICES ASSUME posted > 0, applied = posted, ~crossed, NEW h \in Gets, get'[h].pc = "read"
               PROVE  get'[h].answer.flags = config.flags
    BY DEF AnswersAgree
  <2>1. CASE h = g
    BY <1>1, <2>1
  <2>2. CASE h # g
    <3>1. h \in Gets \ {g}
      BY <2>2
    <3> QED
      BY <1>1, <3>1 DEF Inv, AnswersAgree
  <2> QED
    BY <2>1, <2>2
<1> QED
  BY <1>2, <1>3, <1>4 DEF Inv

LEMMA OpenStep == ASSUME Inv, NEW g \in Gets, OpenPage(g) PROVE Inv'
<1> DEFINE default == DefaultConfig
           state == "sent"
<1>1. checked' \in [Toggles -> BOOLEAN]
  BY ReadIsBoolean DEF OpenPage
<1>2. get' = [get EXCEPT ![g] = [pc |-> state, answer |-> default]]
  <2>1. [NoGet EXCEPT !.pc = "sent"] = [pc |-> state, answer |-> default]
    BY DEF NoGet
  <2> QED
    BY <2>1 DEF OpenPage
<1>3. UNCHANGED <<saved, posts, posted, config, applied>> /\ crossed' = (crossed \/ posts # {})
  BY DEF OpenPage
<1>4. (crossed => crossed') /\ (crossed' \/ posts = {})
  BY <1>3
<1>5. crossed' \in BOOLEAN
  BY <1>3, Zenon
<1>6. default.flags \in Flags
  BY DefaultFlags
<1>7. state # "read"
  OBVIOUS
<1>8. Asked' # {} => Asked # {} \/ crossed' \/ posts = {}
  BY <1>4, Zenon
<1>9. (crossed => crossed') /\ UNCHANGED <<saved, posts, posted, config, applied>>
  BY <1>3, <1>4
<1> HIDE DEF default, state
<1> QED
  BY <1>1, <1>2, <1>5, <1>6, <1>7, <1>8, <1>9, GetStep

LEMMA ReadStep == ASSUME Inv, NEW g \in Gets, ConfigRead(g) PROVE Inv'
<1>1. /\ get' = [get EXCEPT ![g] = [pc |-> "read", answer |-> config]]
      /\ get[g].pc = "sent"
      /\ UNCHANGED <<saved, checked, posts, posted, config, applied, crossed>>
  BY DEF ConfigRead, pageVars
<1>2. Asked # {}
  BY <1>1 DEF Asked
<1>3. /\ config.flags \in Flags /\ crossed' \in BOOLEAN /\ (crossed => crossed')
      /\ checked' \in [Toggles -> BOOLEAN]
  BY <1>1 DEF Inv, TypeOK
<1> QED
  BY <1>1, <1>2, <1>3, GetStep

LEMMA FailsStep == ASSUME Inv, NEW g \in Gets, ConfigFails(g) PROVE Inv'
<1> DEFINE default == DefaultConfig
           state == "none"
<1>1. /\ get' = [get EXCEPT ![g] = [pc |-> state, answer |-> default]]
      /\ g \in Asked
      /\ UNCHANGED <<saved, checked, posts, posted, config, applied, crossed>>
  BY DEF ConfigFails, pageVars, NoGet
<1>2. Asked # {}
  BY <1>1
<1>3. /\ crossed' \in BOOLEAN /\ (crossed => crossed')
      /\ checked' \in [Toggles -> BOOLEAN]
  BY <1>1 DEF Inv, TypeOK
<1>4. default.flags \in Flags
  BY DefaultFlags
<1>7. state # "read"
  OBVIOUS
<1> HIDE DEF default, state
<1> QED
  BY <1>1, <1>2, <1>3, <1>4, <1>7, GetStep

(* The answer of a GET that no post crossed writes what the backend has.   *)
LEMMA AnsweredStep == ASSUME Inv, NEW g \in Gets, ConfigAnswered(g) PROVE Inv'
<1> DEFINE flags == get[g].answer.flags
           hop == Stored(flags["channel_hopping"])
           track == Stored(flags["client_tracking"])
<1>1. /\ saved' = [saved EXCEPT !["channel_hopping"] = hop, !["client_tracking"] = track]
      /\ get[g].pc = "read"
      /\ get' = [get EXCEPT ![g] = [pc |-> "none", answer |-> DefaultConfig]]
      /\ UNCHANGED <<checked, posts, posted, config, applied, crossed>>
  BY DEF ConfigAnswered, NoGet
<1>2. DefaultConfig.flags \in Flags
  BY DefaultFlags
<1>3. saved' \in [Kept \cup Toggles -> States]
  <2>1. hop \in States /\ track \in States
    BY DEF Stored, States
  <2> QED
    BY <1>1, <2>1 DEF Inv, TypeOK
<1>4. /\ DOMAIN get' = Gets
      /\ get'[g].pc = "none" /\ get'[g].answer = DefaultConfig
      /\ \A h \in Gets \ {g} : get'[h] = get[h]
  BY <1>1 DEF Inv, TypeOK
<1>5. TypeOK'
  <2>1. ASSUME NEW h \in Gets PROVE get'[h].answer.flags \in Flags
    <3>1. CASE h = g
      BY <1>2, <1>4, <3>1
    <3>2. CASE h # g
      <4>1. h \in Gets \ {g}
        BY <3>2
      <4> QED
        BY <1>4, <4>1 DEF Inv, TypeOK
    <3> QED
      BY <3>1, <3>2
  <2> QED
    BY <1>1, <1>3, <1>4, <2>1 DEF Inv, TypeOK
<1>6. ASSUME posted > 0, applied = posted, ~crossed
      PROVE  Agrees(config.flags)'
  <2>1. Agrees(config.flags) /\ flags = config.flags /\ config.flags \in Flags
    BY <1>1, <1>6 DEF Inv, ConfigAgrees, AnswersAgree, TypeOK
  <2>2. "channel_hopping" \in Kept /\ "client_tracking" \in Kept
    BY DEF Kept
  <2> HIDE DEF flags
  <2>3. ASSUME NEW k \in Kept
        PROVE  config.flags[k] = getSetting(saved', k)
    <3>1. k \in DOMAIN saved /\ config.flags[k] \in BOOLEAN
      BY <2>1 DEF Inv, TypeOK, Flags
    <3>2. CASE k = "channel_hopping" \/ k = "client_tracking"
      <4>1. saved'[k] = Stored(config.flags[k])
        BY <1>1, <2>1, <3>1, <3>2
      <4> QED
        BY <3>1, <4>1 DEF getSetting, Stored
    <3>3. CASE k # "channel_hopping" /\ k # "client_tracking"
      <4>1. saved'[k] = saved[k]
        BY <1>1, <3>1, <3>3
      <4> QED
        BY <2>1, <4>1 DEF Agrees, getSetting
    <3> QED
      BY <3>2, <3>3
  <2> QED
    BY <1>1, <2>3 DEF Agrees
<1>7. ConfigAgrees'
  BY <1>1, <1>6 DEF ConfigAgrees
<1>8. ~crossed => posts = {}
  <2>1. Asked # {}
    BY <1>1 DEF Asked
  <2> QED
    BY <2>1 DEF Inv, GetAlone
<1>9. PostsAgree' /\ GetAlone'
  BY <1>1, <1>8 DEF GetAlone, PostsAgree
<1>10. AnswersAgree'
  <2> SUFFICES ASSUME posted > 0, applied = posted, ~crossed, NEW h \in Gets, get'[h].pc = "read"
               PROVE  get'[h].answer.flags = config.flags
    BY <1>1 DEF AnswersAgree
  <2>1. h \in Gets \ {g}
    BY <1>4
  <2> QED
    BY <1>4, <2>1 DEF Inv, AnswersAgree
<1> QED
  BY <1>5, <1>7, <1>9, <1>10 DEF Inv

(* A switch that is not posted is none the backend keeps; one that is      *)
(* makes its post the last.                                                *)
LEMMA ToggleStep == ASSUME Inv, NEW id \in Toggles, toggle(id) PROVE Inv'
<1> DEFINE v == ~checked[id]
           b == Body(saved', id, v)
<1>1. /\ v \in BOOLEAN
      /\ saved' = [saved EXCEPT ![id] = Stored(v)]
      /\ checked' = [checked EXCEPT ![id] = v]
      /\ UNCHANGED <<get, config, applied>>
  BY DEF toggle
<1>2. /\ saved' \in [Kept \cup Toggles -> States]
      /\ checked' \in [Toggles -> BOOLEAN]
  BY <1>1 DEF Inv, TypeOK, Stored, States
<1>3. CASE ~IsPosted(id, v)
  <2>1. UNCHANGED <<posted, posts, crossed>>
    BY <1>3 DEF toggle
  <2>2. id \notin Kept
    BY <1>3 DEF IsPosted, Kept, Local, Retention
  <2>3. \A k \in Kept : saved'[k] = saved[k]
    BY <1>1, <2>2 DEF Inv, TypeOK
  <2>4. TypeOK'
    BY <1>1, <1>2, <2>1 DEF Inv, TypeOK
  <2>5. PostsAgree' /\ ConfigAgrees'
    BY <1>1, <2>1, <2>3 DEF Inv, PostsAgree, ConfigAgrees, Agrees, getSetting
  <2> QED
    BY <1>1, <2>1, <2>4, <2>5 DEF Inv, GetAlone, Asked, AnswersAgree
<1>4. CASE IsPosted(id, v)
  <2>1. /\ posted' = posted + 1
        /\ posts' = posts \cup {[n |-> posted + 1, body |-> b]}
        /\ crossed' = (Asked # {})
    BY <1>1, <1>4 DEF toggle
  <2>2. b.flags \in Flags /\ \A k \in Kept : b.flags[k] = getSetting(saved', k)
    BY <1>1, BodyAgrees DEF Inv
  <2> HIDE DEF v, b
  <2>3. TypeOK'
    <3>1. posted' \in Nat /\ applied' \in 0..posted'
      BY <1>1, <2>1 DEF Inv, TypeOK
    <3>2. ASSUME NEW p \in posts'
          PROVE  p.n \in 1..posted' /\ p.body.flags \in Flags
      BY <2>1, <2>2 DEF Inv, TypeOK
    <3> QED
      BY <1>1, <1>2, <2>1, <3>1, <3>2 DEF Inv, TypeOK
  <2>4. ASSUME NEW p \in posts', p.n = posted'
        PROVE  Agrees(p.body.flags)'
    <3>1. p = [n |-> posted + 1, body |-> b]
      BY <2>1, <2>4 DEF Inv, TypeOK
    <3>2. p.body = b
      BY <3>1
    <3>3. UNCHANGED p
      OBVIOUS
    <3> QED
      BY <2>2, <3>2 DEF Agrees
  <2>5. applied' # posted'
    BY <1>1, <2>1 DEF Inv, TypeOK
  <2> QED
    BY <1>1, <2>1, <2>3, <2>4, <2>5
      DEF Inv, PostsAgree, ConfigAgrees, GetAlone, Asked, AnswersAgree
<1> QED
  BY <1>3, <1>4

LEMMA PermissionStep ==
  ASSUME Inv, NEW granted \in BOOLEAN, PermissionAnswered(granted)
  PROVE  Inv'
<1>1. /\ UNCHANGED <<checked, get, posts, posted, config, applied, crossed>>
      /\ \/ saved' = saved
         \/ saved' = [saved EXCEPT !["desktop_notif"] = "off"]
  BY DEF PermissionAnswered, syncVars
<1>2. \A k \in Kept : saved'[k] = saved[k]
  BY <1>1 DEF Inv, TypeOK, Kept
<1>3. TypeOK'
  BY <1>1 DEF Inv, TypeOK, States
<1> QED
  BY <1>1, <1>2, <1>3
    DEF Inv, PostsAgree, ConfigAgrees, GetAlone, Asked, AnswersAgree, Agrees, getSetting

LEMMA AppliedStep == ASSUME Inv, NEW p \in posts, PostApplied(p) PROVE Inv'
<1>1. /\ posts' = posts \ {p} /\ config' = p.body /\ applied' = p.n
      /\ UNCHANGED <<saved, checked, get, posted, crossed>>
  BY DEF PostApplied, pageVars
<1>2. TypeOK'
  BY <1>1 DEF Inv, TypeOK
<1>3. ASSUME applied' = posted, ~crossed
      PROVE  Agrees(config.flags)' /\ Asked = {}
  BY <1>1, <1>3 DEF Inv, PostsAgree, GetAlone, Asked, Agrees
<1> QED
  BY <1>1, <1>2, <1>3
    DEF Inv, PostsAgree, ConfigAgrees, GetAlone, Asked, AnswersAgree, Agrees, getSetting

LEMMA LostStep == ASSUME Inv, NEW p \in posts, PostFails(p) PROVE Inv'
BY DEF PostFails, pageVars, Inv, TypeOK, PostsAgree, ConfigAgrees, GetAlone, Asked, AnswersAgree,
       Agrees, getSetting

LEMMA RestartStep == ASSUME Inv, RestartBackend PROVE Inv'
<1>1. DefaultConfig.flags \in Flags
  BY DefaultFlags
<1>2. config' = DefaultConfig /\ applied' = 0
      /\ UNCHANGED <<saved, checked, get, posts, posted, crossed>>
  BY DEF RestartBackend, pageVars
<1> QED
  BY <1>1, <1>2 DEF Inv, TypeOK, PostsAgree, ConfigAgrees, GetAlone, Asked, AnswersAgree, Agrees,
    getSetting

LEMMA Inductive == Inv /\ [SettingsNext]_settingsVars => Inv'
<1> SUFFICES ASSUME Inv, [SettingsNext]_settingsVars PROVE Inv'
  OBVIOUS
<1>1. CASE LeavePage \/ (QrNext /\ UNCHANGED <<pageVars, syncVars>>) \/ UNCHANGED settingsVars
  <2>1. UNCHANGED <<saved, syncVars>> /\ checked' \in [Toggles -> BOOLEAN]
    BY <1>1 DEF LeavePage, pageVars, settingsVars, Inv, TypeOK
  <2> QED
    BY <2>1, OtherStep
<1>2. CASE \E g \in Gets : OpenPage(g) \/ ConfigRead(g) \/ ConfigAnswered(g) \/ ConfigFails(g)
  BY <1>2, OpenStep, ReadStep, AnsweredStep, FailsStep
<1> QED
  BY <1>1, <1>2, ToggleStep, PermissionStep, AppliedStep, LostStep, RestartStep DEF SettingsNext

(***************************************************************************)
(* Whatever is switched, lost, answered out of order or forgotten by a     *)
(* restart, once the last configuration posted is the one the backend took *)
(* last, and no GET crossed it, the backend's switches are those of        *)
(* localStorage (SettingsPage.tsx:69-118).                                 *)
(***************************************************************************)
THEOREM SwitchesReachBackend == SettingsSpec => []BackendHasTheSwitches
<1>1. Inv => BackendHasTheSwitches
  BY DEF Inv, ConfigAgrees, Agrees, BackendHasTheSwitches
<1> QED
  BY <1>1, InitInv, Inductive, PTL DEF SettingsSpec

-----------------------------------------------------------------------------
(* The cameras that are on: the dialog's, and those granted too late.      *)
CamerasCounted ==
    /\ cameras \in Nat /\ late \in Nat /\ orphans \in Nat
    /\ cameras = IF camera = "on" THEN late + 1 ELSE late
    /\ camera # "off" => qrOpen

(* A dialog that closes stops the camera it was granted.                   *)
LEMMA CloseStep ==
  ASSUME CamerasCounted, NEW left, Closes(left)
  PROVE  CamerasCounted'
<1>1. /\ camera' = "off" /\ late' = late
      /\ cameras' = IF camera = "on" THEN cameras - 1 ELSE cameras
      /\ orphans' = IF camera = "asked" THEN orphans + 1 ELSE orphans
  BY DEF Closes, Forgets
<1> QED
  BY <1>1 DEF CamerasCounted

LEMMA CameraStep ==
  ASSUME CamerasCounted, QrNext \/ LeavePage \/ UNCHANGED qrVars
  PROVE  CamerasCounted'
<1>1. CASE UNCHANGED <<qrOpen, cameraVars>>
  BY <1>1 DEF CamerasCounted, cameraVars
<1>2. CASE OpenDialog
  <2>1. /\ camera' = "asked" /\ UNCHANGED <<orphans, cameras, late>> /\ ~qrOpen /\ qrOpen'
    BY <1>2 DEF OpenDialog
  <2> QED
    BY <2>1 DEF CamerasCounted
<1>3. CASE CameraGranted
  <2>1. /\ camera = "asked" /\ camera' = "on" /\ cameras' = cameras + 1
        /\ UNCHANGED <<qrOpen, orphans, late>>
    BY <1>3 DEF CameraGranted
  <2>2. qrOpen
    BY <2>1 DEF CamerasCounted
  <2> QED
    BY <2>1, <2>2 DEF CamerasCounted
<1>4. CASE CameraDenied
  <2>1. /\ camera = "asked" /\ camera' = "off" /\ UNCHANGED <<qrOpen, orphans, cameras, late>>
    BY <1>4 DEF CameraDenied
  <2> QED
    BY <2>1 DEF CamerasCounted
<1>5. CASE \E granted \in BOOLEAN : OrphanAnswered(granted)
  <2>1. /\ orphans > 0 /\ orphans' = orphans - 1 /\ UNCHANGED <<qrOpen, camera>>
        /\ \/ cameras' = cameras + 1 /\ late' = late + 1
           \/ UNCHANGED <<cameras, late>>
    BY <1>5 DEF OrphanAnswered
  <2> QED
    BY <2>1 DEF CamerasCounted
<1>6. CASE \/ FirstFrame \/ FrameWithoutVideo \/ FrameReady
           \/ NothingDetected \/ InvalidCode \/ SubmitInvalid \/ UNCHANGED qrVars
  <2>1. UNCHANGED <<qrOpen, cameraVars>>
    BY <1>6 DEF FirstFrame, FrameWithoutVideo, FrameReady, NothingDetected, InvalidCode,
      SubmitInvalid, qrVars
  <2> QED
    BY <1>1, <2>1
<1>7. CASE CloseDialog \/ ValidCode \/ StaleCode \/ SubmitValid
  BY <1>7, CloseStep DEF CloseDialog, ValidCode, StaleCode, SubmitValid
<1>8. CASE LeavePage
  BY <1>1, <1>8, CloseStep DEF LeavePage
<1> QED
  BY <1>2, <1>3, <1>4, <1>5, <1>6, <1>7, <1>8 DEF QrNext

(***************************************************************************)
(* However the dialog is closed, and whatever it showed, the camera it was *)
(* granted is stopped: one that stays on was granted when its dialog had   *)
(* been closed, for any number of dialogs and detections                   *)
(* (QRScanner.tsx:27-51, 110-113).                                         *)
(***************************************************************************)
THEOREM CameraIsStopped == SettingsSpec => []CamerasStop
<1>1. SettingsInit => CamerasCounted
  BY DEF SettingsInit, QrInit, CamerasCounted
<1>2. CamerasCounted /\ [SettingsNext]_settingsVars => CamerasCounted'
  <2> SUFFICES ASSUME CamerasCounted, [SettingsNext]_settingsVars PROVE CamerasCounted'
    OBVIOUS
  <2>1. QrNext \/ LeavePage \/ UNCHANGED qrVars
    BY DEF SettingsNext, OpenPage, ConfigRead, ConfigAnswered, ConfigFails, toggle,
      PermissionAnswered, PostApplied, PostFails, RestartBackend, settingsVars
  <2> QED
    BY <2>1, CameraStep
<1>3. CamerasCounted => CamerasStop
  BY DEF CamerasCounted, CamerasStop
<1> QED
  BY <1>1, <1>2, <1>3, PTL DEF SettingsSpec

-----------------------------------------------------------------------------
(***************************************************************************)
(* The alert pages.                                                        *)
(***************************************************************************)
LEMMA LeastNatural ==
  ASSUME NEW T \in SUBSET Nat, T # {}
  PROVE  \E m \in T : \A y \in T : m <= y
<1> DEFINE R == OpToRel(<, Nat)
<1>1. IsWellFoundedOn(R, Nat)
  BY NatLessThanWellFounded
<1> HIDE DEF R
<1>2. PICK m \in T : \A y \in T : ~ (<<y, m>> \in R)
  BY <1>1, WFMin
<1>3. \A y \in T : ~ (y < m)
  BY <1>2 DEF R, OpToRel
<1> QED
  BY <1>3

(* Places are ranked without a gap.                                        *)
LEMMA Ranked ==
  ASSUME NEW n \in Nat, NEW S \in SUBSET (1..n), NEW k \in 1..Cardinality(S)
  PROVE  \E i \in S : Cardinality({j \in S : j <= i}) = k
<1> DEFINE upTo(i) == {j \in S : j <= i}
           T == {i \in Nat : k <= Cardinality(upTo(i))}
<1>0. \A j \in S : j \in Nat /\ 1 <= j /\ j <= n
  OBVIOUS
<1>1. IsFiniteSet(S)
  <2>1. IsFiniteSet(1..n)
    BY FS_Interval
  <2> QED
    BY <2>1, FS_Subset
<1>2. ASSUME NEW i \in Nat PROVE IsFiniteSet(upTo(i)) /\ Cardinality(upTo(i)) \in Nat
  <2>1. IsFiniteSet(upTo(i))
    BY <1>1, FS_Subset
  <2> HIDE DEF upTo
  <2> QED
    BY <2>1, FS_CardinalityType
<1>3. n \in T
  <2>1. upTo(n) = S
    BY <1>0
  <2>2. Cardinality(S) \in Nat
    BY <1>1, FS_CardinalityType
  <2> HIDE DEF upTo
  <2> QED
    BY <2>1, <2>2
<1>4. PICK m \in T : \A y \in T : m <= y
  <2> HIDE DEF upTo
  <2> QED
    BY <1>3, LeastNatural
<1>5. m # 0
  <2>1. upTo(0) = {}
    <3>1. \A j \in S : ~ (j <= 0)
      BY <1>0
    <3> QED
      BY <3>1
  <2> HIDE DEF upTo
  <2>2. Cardinality(upTo(0)) = 0
    BY <2>1, FS_EmptySet
  <2> QED
    BY <2>2
<1>6. m - 1 \in Nat /\ m \in Nat /\ m - 1 \notin T
  <2> HIDE DEF upTo
  <2>1. m \in Nat /\ m - 1 \in Nat
    BY <1>4, <1>5
  <2> HIDE DEF T
  <2> QED
    BY <1>4, <2>1
<1> DEFINE a == upTo(m - 1)
           b == upTo(m)
<1>7. m \notin a /\ (m \in S => b = a \cup {m}) /\ (m \notin S => b = a)
  <2>1. \A j \in S : (j <= m) <=> (j <= m - 1 \/ j = m)
    BY <1>0, <1>6
  <2>2. ~ (m <= m - 1)
    BY <1>6
  <2>3. m <= m
    BY <1>6
  <2> QED
    BY <2>1, <2>2, <2>3, Zenon
<1>8. IsFiniteSet(a) /\ Cardinality(a) \in Nat /\ Cardinality(a) < k /\ k <= Cardinality(b)
  <2>1. IsFiniteSet(a) /\ Cardinality(a) \in Nat
    BY <1>2, <1>6
  <2>2. ~ (k <= Cardinality(a))
    BY <1>6
  <2>3. k <= Cardinality(b)
    BY <1>4
  <2> HIDE DEF a, b
  <2> QED
    BY <2>1, <2>2, <2>3
<1> HIDE DEF upTo, T, a, b
<1>9. m \in S
  BY <1>7, <1>8
<1>10. Cardinality(b) = Cardinality(a) + 1
  BY <1>7, <1>8, <1>9, FS_AddElement
<1>11. Cardinality(b) = k
  BY <1>8, <1>10
<1> QED
  BY <1>9, <1>11 DEF b, upTo

LEMMA FilteredFinite ==
  ASSUME PagesTypeOK
  PROVE  /\ Len(list) \in Nat /\ Filtered \subseteq 1..Len(list)
         /\ IsFiniteSet(Filtered) /\ Cardinality(Filtered) \in Nat
<1>1. Len(list) \in Nat /\ Filtered \subseteq 1..Len(list)
  BY DEF PagesTypeOK, Filtered
<1>2. IsFiniteSet(1..Len(list))
  BY <1>1, FS_Interval
<1>3. IsFiniteSet(Filtered)
  BY <1>1, <1>2, FS_Subset
<1> QED
  BY <1>1, <1>3, FS_CardinalityType

(* The same of the rows let through when the list was longest; as long as  *)
(* all alerts are shown, the rows filtered now are among them, and are all *)
(* of them when the list is as long as it was.                             *)
LEMMA ReachedFinite ==
  ASSUME PagesTypeOK
  PROVE  IsFiniteSet(Reached) /\ Cardinality(Reached) \in Nat
<1>1. IsFiniteSet(1..longest)
  BY FS_Interval DEF PagesTypeOK
<1>2. IsFiniteSet(Reached)
  BY <1>1, FS_Subset DEF Reached
<1> QED
  BY <1>2, FS_CardinalityType

LEMMA FilteredReached ==
  ASSUME PagesTypeOK, InOrder, AllShown
  PROVE  /\ Filtered \subseteq Reached
         /\ Cardinality(Filtered) <= Cardinality(Reached)
         /\ Len(list) = longest => Filtered = Reached
<1>1. /\ Len(list) \in Nat /\ longest \in Nat /\ Len(list) <= longest
      /\ \A i \in 1..Len(list) : list[i] = i
  BY DEF PagesTypeOK, InOrder
<1>2. Filtered = (1..Len(list)) \cap only
  BY <1>1 DEF Filtered
<1>3. Filtered \subseteq Reached
  BY <1>1, <1>2 DEF Reached
<1>4. Cardinality(Filtered) <= Cardinality(Reached)
  BY <1>3, ReachedFinite, FS_Subset
<1> QED
  BY <1>2, <1>3, <1>4 DEF Reached

(* As long as all alerts are shown, an answer of now or of an earlier time *)
(* has row i in place i.                                                   *)
LEMMA ListInPlace ==
  ASSUME PagesTypeOK, InOrder, NEW f \in 1..first, NEW l \in 0..data, f <= l + 1,
         list' = Displayed(ApiAlerts(f, l), list)
  PROVE  /\ list' \in Seq(Rows)
         /\ AllShown => /\ Len(list') <= data
                        /\ \A i \in 1..Len(list') : list'[i] = i
<1> DEFINE n == Least(l - f + 1, ListLimit)
           raw == ApiAlerts(f, l)
           rev == Reverse(raw)
<1>1. /\ f \in Nat \ {0} /\ l \in Nat /\ l <= data /\ data \in Nat /\ data <= MaxRows
      /\ MaxRows \in Nat /\ list \in Seq(Rows)
  BY ListAssumption DEF PagesTypeOK
<1>2. n \in Nat /\ n <= l - f + 1
  BY <1>1, ListAssumption DEF Least
<1>3. raw = [i \in 1..n |-> l - i + 1]
  BY DEF ApiAlerts
<1>4. AllShown => n = l
  <2>1. AllShown => f = 1 /\ l <= ListLimit /\ ListLimit \in Nat
    BY <1>1, ListAssumption DEF AllShown
  <2> QED
    BY <1>1, <2>1 DEF Least
<1> HIDE DEF n
<1>5. \A i \in 1..n : l - i + 1 \in Rows
  BY <1>1, <1>2 DEF Rows
<1>6. raw \in Seq(Rows) /\ Len(raw) = n /\ \A i \in 1..n : raw[i] = l - i + 1
  BY <1>2, <1>3, <1>5
<1> HIDE DEF raw
<1>7. rev = [i \in 1..n |-> raw[(n - i) + 1]]
  BY <1>6 DEF Reverse
<1>8. \A i \in 1..n : (n - i) + 1 \in 1..n
  BY <1>2
<1>9. rev \in Seq(Rows) /\ Len(rev) = n /\ \A i \in 1..n : rev[i] = l - n + i
  <2>1. \A i \in 1..n : rev[i] = l - ((n - i) + 1) + 1 /\ rev[i] \in Rows
    BY <1>5, <1>6, <1>7, <1>8
  <2> QED
    BY <1>1, <1>2, <1>7, <2>1
<1> HIDE DEF rev
<1>10. list' = IF raw = <<>> THEN list ELSE rev
  BY DEF Displayed, raw, rev
<1>11. list' \in Seq(Rows)
  BY <1>1, <1>9, <1>10
<1>12. ASSUME AllShown
       PROVE  /\ Len(list') <= data
              /\ \A i \in 1..Len(list') : list'[i] = i
  <2>1. Len(list) <= data /\ \A i \in 1..Len(list) : list[i] = i
    <3>1. Len(list) <= longest /\ longest <= data /\ \A i \in 1..Len(list) : list[i] = i
      BY <1>12 DEF InOrder
    <3>2. Len(list) \in Nat /\ longest \in Nat
      BY DEF PagesTypeOK
    <3> QED
      BY <1>1, <3>1, <3>2
  <2>2. Len(rev) = l /\ \A i \in 1..Len(rev) : rev[i] = i
    BY <1>1, <1>4, <1>9, <1>12
  <2>3. CASE list' = list
    BY <2>1, <2>3
  <2>4. CASE list' = rev
    BY <1>1, <2>2, <2>4
  <2> QED
    BY <1>10, <2>3, <2>4
<1> QED
  BY <1>11, <1>12

(* A page that is turned to begins before the end of the list.             *)
LEMMA TurnedTo ==
  ASSUME NEW c \in Nat, NEW s \in Nat \ {0}, NEW p \in Nat, p + 1 <= (c + s - 1) \div s
  PROVE  p * s < c
<1> DEFINE q == (c + s - 1) \div s
<1>1. q \in Nat /\ q * s <= c + s - 1
  OBVIOUS
<1> HIDE DEF q
<1>2. (p + 1) * s <= q * s
  BY <1>1 DEF q
<1>3. (p + 1) * s = p * s + s /\ p * s \in Nat /\ q * s \in Nat
  BY <1>1
<1> QED
  BY <1>1, <1>2, <1>3

LEMMA PageBefore ==
  ASSUME NEW c \in Nat, NEW s \in Nat \ {0}, NEW p \in Nat \ {0}, p * s < c
  PROVE  (p - 1) * s < c
<1>1. (p - 1) * s = p * s - s /\ p * s \in Nat
  OBVIOUS
<1> QED
  BY <1>1

SizesNatural == \A n \in PageSizes : n \in Nat \ {0}

LEMMA SizesAreNatural == SizesNatural
BY PagesAssumption DEF SizesNatural

(* A step that changes neither the list nor what is kept by place or id:   *)
(* ticks, and whatever the polled pages do (PolledPages.tla).              *)
LEMMA QuietStep ==
  ASSUME PagesTypeOK, PagesInv,
         UNCHANGED <<page, data, first, list, longest, only, overrideStatuses, confirming, actedOn,
                     pageSize, currentPage>>
  PROVE  PagesTypeOK' /\ PagesInv'
<1>1. PagesTypeOK'
  BY DEF PagesTypeOK
<1>2. InOrder'
  BY DEF PagesInv, InOrder, AllShown
<1>3. MarksActed'
  BY DEF PagesInv, MarksActed, ActedIds, AllShown
<1>4. PageBegins'
  BY DEF PagesInv, PageBegins, Reached, AllShown
<1> QED
  BY <1>1, <1>2, <1>3, <1>4 DEF PagesInv

LEMMA NavigateStep ==
  ASSUME PagesTypeOK, PagesInv, NEW new \in PageKeys, Navigate(new)
  PROVE  PagesTypeOK' /\ PagesInv'
<1> DEFINE none == <<>>
<1>1. /\ list' = none /\ longest' = 0 /\ overrideStatuses' = {} /\ confirming' = {} /\ actedOn' = {}
      /\ pageSize' = FirstSize /\ currentPage' = 0 /\ first' = first /\ data' = data
  BY DEF Navigate, MountAlerts
<1>2. none \in Seq(Rows) /\ Len(none) = 0
  OBVIOUS
<1> HIDE DEF none
<1>3. FirstSize \in PageSizes
  BY PagesAssumption DEF FirstSize
<1>4. PagesTypeOK'
  BY <1>1, <1>2, <1>3 DEF PagesTypeOK
<1>5. InOrder'
  BY <1>1, <1>2 DEF InOrder, PagesTypeOK
<1>6. MarksActed'
  BY <1>1 DEF MarksActed
<1>7. PageBegins'
  BY <1>1 DEF PageBegins
<1> QED
  BY <1>4, <1>5, <1>6, <1>7 DEF PagesInv

LEMMA RaiseStep ==
  ASSUME PagesTypeOK, PagesInv, RaiseAlert, UNCHANGED page
  PROVE  PagesTypeOK' /\ PagesInv'
<1>1. data \in Nat /\ data' = data + 1 /\ data' \in 0..MaxRows /\ first \in 1..(data' + 1)
  BY ListAssumption DEF RaiseAlert, PagesTypeOK
<1>2. UNCHANGED <<page, first, list, longest, only, overrideStatuses, confirming, actedOn, pageSize, currentPage>>
  BY DEF RaiseAlert, alertVars, listVars, threatVars, logPageVars
<1>3. AllShown' => AllShown
  BY <1>1, <1>2, ListAssumption DEF AllShown
<1>4. PagesTypeOK'
  BY <1>1, <1>2 DEF PagesTypeOK
<1>5. InOrder'
  <2>1. Len(list) \in Nat /\ longest \in Nat
    BY DEF PagesTypeOK
  <2> QED
    BY <1>1, <1>2, <1>3, <2>1 DEF PagesInv, InOrder
<1>6. MarksActed'
  BY <1>2, <1>3 DEF PagesInv, MarksActed, ActedIds
<1>7. PageBegins'
  BY <1>2, <1>3 DEF PagesInv, PageBegins, Reached
<1> QED
  BY <1>4, <1>5, <1>6, <1>7 DEF PagesInv

LEMMA ClearStep ==
  ASSUME PagesTypeOK, PagesInv, ClearAlerts, UNCHANGED page
  PROVE  PagesTypeOK' /\ PagesInv'
<1>1. /\ data \in Nat /\ data' = data /\ first' = data + 1 /\ data # 0
      /\ UNCHANGED <<list, longest, actedOn, pageSize, currentPage>>
  BY DEF ClearAlerts, PagesTypeOK, listVars, threatVars, logPageVars
<1>2. ~ AllShown'
  BY <1>1 DEF AllShown
<1>3. PagesTypeOK'
  BY <1>1 DEF PagesTypeOK
<1> QED
  BY <1>1, <1>2, <1>3 DEF PagesInv, InOrder, MarksActed, PageBegins

(* An answer, of now or out of the cache, takes no row filtered at the     *)
(* list's longest away.                                                    *)
LEMMA PollStep ==
  ASSUME PagesTypeOK, PagesInv, NEW f \in 1..first, NEW l \in 0..data, f <= l + 1,
         Lists(ApiAlerts(f, l)), UNCHANGED page
  PROVE  PagesTypeOK' /\ PagesInv'
<1>1. /\ list' = Displayed(ApiAlerts(f, l), list)
      /\ longest' = IF Len(list') > longest THEN Len(list') ELSE longest
      /\ UNCHANGED <<page, data, first, only, overrideStatuses, confirming, actedOn, pageSize, currentPage>>
  BY DEF Lists, threatVars, logPageVars
<1>2. /\ list' \in Seq(Rows)
      /\ AllShown => /\ Len(list') <= data
                     /\ \A i \in 1..Len(list') : list'[i] = i
  BY <1>1, ListInPlace DEF PagesInv
<1>3. AllShown' <=> AllShown
  BY <1>1 DEF AllShown
<1>4. /\ longest' \in Nat /\ longest \in Nat /\ longest <= longest' /\ Len(list') <= longest'
      /\ Len(list') \in Nat
  BY <1>1, <1>2 DEF PagesTypeOK
<1>5. PagesTypeOK'
  BY <1>1, <1>2, <1>4 DEF PagesTypeOK
<1>6. InOrder'
  <2>1. AllShown => longest' <= data
    BY <1>1, <1>2 DEF PagesInv, InOrder
  <2> QED
    BY <1>1, <1>2, <1>3, <1>4, <2>1 DEF InOrder
<1>7. MarksActed'
  BY <1>1, <1>3 DEF PagesInv, MarksActed, ActedIds
<1>8. Cardinality(Reached) <= Cardinality(Reached') /\ Cardinality(Reached') \in Nat
  <2>1. IsFiniteSet(Reached') /\ Cardinality(Reached') \in Nat
    <3>1. IsFiniteSet(1..longest')
      BY <1>4, FS_Interval
    <3>2. IsFiniteSet(Reached')
      BY <3>1, FS_Subset DEF Reached
    <3> QED
      BY <3>2, FS_CardinalityType
  <2>2. Reached \subseteq Reached'
    BY <1>1, <1>4 DEF Reached
  <2> QED
    BY <2>1, <2>2, FS_Subset
<1>9. PageBegins'
  <2>1. page # "log" => currentPage = 0
    BY DEF PagesInv, PageBegins
  <2>2. ASSUME AllShown, currentPage # 0 PROVE currentPage * pageSize < Cardinality(Reached')
    <3>1. currentPage * pageSize < Cardinality(Reached) /\ Cardinality(Reached) \in Nat
      BY <2>2, ReachedFinite DEF PagesInv, PageBegins
    <3>2. currentPage * pageSize \in Nat
      BY SizesAreNatural DEF PagesTypeOK, SizesNatural
    <3> QED
      BY <1>8, <3>1, <3>2
  <2> QED
    BY <1>1, <1>3, <2>1, <2>2 DEF PageBegins
<1> QED
  BY <1>5, <1>6, <1>7, <1>9 DEF PagesInv

(* A filter, a search or a new page size begins on the first page.         *)
LEMMA FilterStep ==
  ASSUME PagesTypeOK, PagesInv, UNCHANGED page,
         \/ \E rows \in Matching : FilterThreats(rows) \/ FilterLog(rows)
         \/ \E n \in PageSizes : ChoosePageSize(n)
  PROVE  PagesTypeOK' /\ PagesInv'
<1>1. /\ UNCHANGED <<data, first, list, longest, overrideStatuses, confirming, actedOn>>
      /\ pageSize' \in PageSizes
      /\ currentPage' = 0
  <2>1. ASSUME NEW rows \in Matching, FilterThreats(rows)
        PROVE  /\ UNCHANGED <<data, first, list, longest, overrideStatuses, confirming, actedOn>>
               /\ pageSize' \in PageSizes /\ currentPage' = 0
    BY <2>1 DEF FilterThreats, listVars, threatVars, logPageVars, PagesTypeOK, PagesInv, PageBegins
  <2>2. ASSUME NEW rows \in Matching, FilterLog(rows)
        PROVE  /\ UNCHANGED <<data, first, list, longest, overrideStatuses, confirming, actedOn>>
               /\ pageSize' \in PageSizes /\ currentPage' = 0
    BY <2>2 DEF FilterLog, listVars, threatVars, PagesTypeOK
  <2>3. ASSUME NEW n \in PageSizes, ChoosePageSize(n)
        PROVE  /\ UNCHANGED <<data, first, list, longest, overrideStatuses, confirming, actedOn>>
               /\ pageSize' \in PageSizes /\ currentPage' = 0
    BY <2>3 DEF ChoosePageSize, listVars, threatVars
  <2> QED
    BY <2>1, <2>2, <2>3
<1>2. PagesTypeOK'
  BY <1>1 DEF PagesTypeOK
<1>3. InOrder'
  BY <1>1 DEF PagesInv, InOrder, AllShown
<1>4. MarksActed'
  BY <1>1 DEF PagesInv, MarksActed, ActedIds, AllShown
<1>5. PageBegins'
  BY <1>1 DEF PageBegins
<1> QED
  BY <1>2, <1>3, <1>4, <1>5 DEF PagesInv

(* A button of ThreatMap: the id it marks, or asks to mark, is that of the *)
(* row it is pressed for; the answer to a confirmation marks such an id.   *)
LEMMA MarkStep ==
  ASSUME PagesTypeOK, PagesInv, UNCHANGED page,
         \/ \E i \in 1..Len(list) :
               (\E status \in Statuses : updateStatus(i, status)) \/ confirmAttack(i)
         \/ \E id \in confirming : ConfirmAnswered(id)
  PROVE  PagesTypeOK' /\ PagesInv'
<1> DEFINE ids == confirming \cup {o[1] : o \in overrideStatuses}
<1>1. /\ UNCHANGED <<page, data, first, list, longest, only, pageSize, currentPage>>
      /\ actedOn \subseteq actedOn' /\ actedOn' \subseteq Rows
      /\ AllShown => ids' \subseteq ids \cup ActedIds'
  <2>1. ASSUME NEW i \in 1..Len(list),
               (\E status \in Statuses : updateStatus(i, status)) \/ confirmAttack(i)
        PROVE  /\ UNCHANGED <<page, data, first, list, longest, only, pageSize, currentPage>>
               /\ actedOn \subseteq actedOn' /\ actedOn' \subseteq Rows
               /\ AllShown => ids' \subseteq ids \cup ActedIds'
    <3>1. /\ UNCHANGED <<page, data, first, list, longest, only, pageSize, currentPage>>
          /\ actedOn' = actedOn \cup {list[i]}
      BY <2>1 DEF updateStatus, confirmAttack, listVars, logPageVars
    <3>2. list[i] \in Rows /\ actedOn \subseteq Rows
      BY DEF PagesTypeOK
    <3>3. ids' \subseteq ids \cup {Id(i)}
      BY <2>1 DEF updateStatus, confirmAttack, Override
    <3>4. AllShown => Id(i) = <<TimeOf[i], i - 1>> /\ list[i] = i
      BY DEF Id, IdOf, PagesInv, InOrder
    <3>5. AllShown => Id(i) \in ActedIds'
      BY <3>1, <3>4 DEF ActedIds
    <3> HIDE DEF ids
    <3> QED
      BY <3>1, <3>2, <3>3, <3>5
  <2>2. ASSUME NEW id \in confirming, ConfirmAnswered(id)
        PROVE  /\ UNCHANGED <<page, data, first, list, longest, only, pageSize, currentPage>>
               /\ actedOn \subseteq actedOn' /\ actedOn' \subseteq Rows
               /\ AllShown => ids' \subseteq ids \cup ActedIds'
    <3>1. /\ UNCHANGED <<page, data, first, list, longest, only, pageSize, currentPage, actedOn>>
      BY <2>2 DEF ConfirmAnswered, listVars, logPageVars
    <3>2. ids' \subseteq ids
      BY <2>2 DEF ConfirmAnswered, Override
    <3> HIDE DEF ids
    <3> QED
      BY <3>1, <3>2 DEF PagesTypeOK
  <2> HIDE DEF ids
  <2> QED
    BY <2>1, <2>2
<1> HIDE DEF ids
<1>2. PagesTypeOK'
  BY <1>1 DEF PagesTypeOK
<1>3. InOrder'
  BY <1>1 DEF PagesInv, InOrder, AllShown
<1>4. MarksActed'
  <2>1. ActedIds \subseteq ActedIds'
    BY <1>1 DEF ActedIds
  <2>2. AllShown' => AllShown
    BY <1>1 DEF AllShown
  <2>3. AllShown => ids \subseteq ActedIds
    BY DEF PagesInv, MarksActed, ids
  <2>4. AllShown' => ids' \subseteq ActedIds'
    BY <1>1, <2>1, <2>2, <2>3
  <2> QED
    BY <2>4 DEF MarksActed, ids
<1>5. PageBegins'
  BY <1>1 DEF PagesInv, PageBegins, Reached, AllShown
<1> QED
  BY <1>2, <1>3, <1>4, <1>5 DEF PagesInv

LEMMA TurnStep ==
  ASSUME PagesTypeOK, PagesInv, NEW p \in 0..MaxRows, TurnPage(p), UNCHANGED page
  PROVE  PagesTypeOK' /\ PagesInv'
<1> DEFINE c == Cardinality(Filtered)
<1>1. /\ UNCHANGED <<page, data, first, list, longest, only, overrideStatuses, confirming, actedOn, pageSize>>
      /\ currentPage' = p /\ page = "log"
  BY DEF TurnPage, listVars, threatVars
<1>2. /\ c \in Nat /\ pageSize \in Nat \ {0} /\ currentPage \in Nat /\ p \in Nat
  BY FilteredFinite, SizesAreNatural, ListAssumption DEF PagesTypeOK, SizesNatural
<1>3. PagesTypeOK'
  BY <1>1, <1>2 DEF PagesTypeOK
<1>4. InOrder'
  BY <1>1 DEF PagesInv, InOrder, AllShown
<1>5. MarksActed'
  BY <1>1 DEF PagesInv, MarksActed, ActedIds, AllShown
<1>6. AllShown /\ p # 0 => p * pageSize < Cardinality(Reached)
  <2> DEFINE g == Cardinality(Reached)
  <2> SUFFICES ASSUME AllShown, p # 0 PROVE p * pageSize < g
    OBVIOUS
  <2>0. g \in Nat /\ c <= g
    BY ReachedFinite, FilteredReached DEF PagesInv
  <2>1. CASE currentPage > 0 /\ p = currentPage - 1
    <3>1. currentPage \in Nat \ {0} /\ currentPage * pageSize < g
      BY <1>2, <2>1 DEF PagesInv, PageBegins
    <3> HIDE DEF g
    <3>2. (currentPage - 1) * pageSize < g
      BY <1>2, <2>0, <3>1, PageBefore
    <3> QED
      BY <2>1, <3>2
  <2>2. CASE currentPage < totalPages - 1 /\ p = Least(totalPages - 1, currentPage + 1)
    <3> DEFINE t == (c + pageSize - 1) \div pageSize
    <3>1. t = totalPages
      BY DEF totalPages
    <3> HIDE DEF c, g
    <3>2. t \in Int
      BY <1>2
    <3> HIDE DEF t
    <3>3. p + 1 <= t
      BY <1>2, <2>2, <3>1, <3>2 DEF Least
    <3>4. p * pageSize < c
      BY <1>2, <3>3, TurnedTo DEF t
    <3>5. p * pageSize \in Nat
      BY <1>2
    <3> QED
      BY <1>2, <2>0, <3>4, <3>5
  <2> QED
    BY <2>1, <2>2 DEF TurnPage
<1>7. PageBegins'
  BY <1>1, <1>6 DEF PageBegins, Reached, AllShown
<1> QED
  BY <1>3, <1>4, <1>5, <1>7 DEF PagesInv

LEMMA PagesStep ==
  ASSUME PagesTypeOK, PagesInv, [Next]_vars
  PROVE  PagesTypeOK' /\ PagesInv'
<1>1. CASE \E new \in PageKeys : Navigate(new)
  BY <1>1, NavigateStep
<1>2. CASE PolledNext /\ UNCHANGED <<page, data, alertVars>>
  BY <1>2, QuietStep DEF alertVars, listVars, threatVars, logPageVars
<1>3. CASE AlertsNext /\ UNCHANGED <<page, polledVars>>
  <2>0. UNCHANGED page
    BY <1>3
  <2>1. CASE RaiseAlert
    BY <2>0, <2>1, RaiseStep
  <2>2. CASE ClearAlerts
    BY <2>0, <2>2, ClearStep
  <2>3. CASE PollList \/ PollListFails
    <3>1. CASE PollList
      <4>1. first \in 1..first /\ data \in 0..data /\ first <= data + 1
        BY DEF PagesTypeOK
      <4> QED
        BY <2>0, <3>1, <4>1, PollStep DEF PollList
    <3>2. CASE PollListFails
      BY <2>0, <3>2, PollStep DEF PollListFails
    <3> QED
      BY <2>3, <3>1, <3>2
  <2>4. CASE \/ \E rows \in Matching : FilterThreats(rows) \/ FilterLog(rows)
             \/ \E n \in PageSizes : ChoosePageSize(n)
    BY <2>0, <2>4, FilterStep
  <2>5. CASE \/ \E i \in 1..Len(list) :
                  (\E status \in Statuses : updateStatus(i, status)) \/ confirmAttack(i)
             \/ \E id \in confirming : ConfirmAnswered(id)
    BY <2>0, <2>5, MarkStep
  <2>6. CASE (\E i \in 1..Len(list) : toggleSelect(i)) \/ selectAll \/ bulkAcknowledge
    BY <2>0, <2>6, QuietStep DEF toggleSelect, selectAll, bulkAcknowledge, listVars, threatVars
  <2>7. CASE \E p \in 0..MaxRows : TurnPage(p)
    BY <2>0, <2>7, TurnStep
  <2> QED
    BY <1>3, <2>1, <2>2, <2>3, <2>4, <2>5, <2>6, <2>7 DEF AlertsNext
<1>4. CASE UNCHANGED vars
  BY <1>4, QuietStep DEF vars, alertVars, listVars, threatVars, logPageVars
<1> QED
  BY <1>1, <1>2, <1>3, <1>4 DEF Next

LEMMA PagesStart ==
  ASSUME Init
  PROVE  PagesTypeOK /\ PagesInv
<1> DEFINE none == <<>>
<1>1. /\ list = none /\ longest = 0 /\ overrideStatuses = {} /\ confirming = {} /\ actedOn = {}
      /\ pageSize = FirstSize /\ currentPage = 0 /\ first = 1 /\ data = 0
  BY DEF Init, AlertsInit
<1>2. none \in Seq(Rows) /\ Len(none) = 0
  OBVIOUS
<1> HIDE DEF none
<1>3. FirstSize \in PageSizes
  BY PagesAssumption DEF FirstSize
<1>4. PagesTypeOK
  BY <1>1, <1>2, <1>3, ListAssumption DEF PagesTypeOK
<1>5. InOrder
  BY <1>1, <1>2 DEF InOrder
<1>6. MarksActed
  BY <1>1 DEF MarksActed
<1>7. PageBegins
  BY <1>1 DEF PageBegins
<1> QED
  BY <1>4, <1>5, <1>6, <1>7 DEF PagesInv

(* The pages that list alerts keep their places in order, their marks with *)
(* the rows acted on, and their page within the list, whatever is raised,  *)
(* filtered and navigated (ThreatMap.tsx, EventLog.tsx).                   *)
THEOREM PagesInvariant == Spec => [](PagesTypeOK /\ PagesInv)
<1>1. PagesTypeOK /\ PagesInv /\ [Next]_vars => (PagesTypeOK /\ PagesInv)'
  BY PagesStep
<1> QED
  BY <1>1, PagesStart, PTL DEF Spec

(* For any number of alerts: as long as none was cleared and they all fit  *)
(* in one answer, the status ThreatMap shows for an alert was given by a   *)
(* button of that very alert, though a confirmation is answered when the   *)
(* list has grown and is keyed by time and place (ThreatMap.tsx:16-101).   *)
THEOREM MarksStay == Spec => []MarkedWasActedOn
<1>1. ASSUME PagesTypeOK, PagesInv PROVE MarkedWasActedOn
  <2> SUFFICES ASSUME AllShown, NEW i \in 1..Len(list),
                      NEW o \in overrideStatuses, o[1] = Id(i)
               PROVE  list[i] \in actedOn
    BY DEF MarkedWasActedOn, AllShown
  <2>1. list[i] = i /\ Id(i) = <<TimeOf[i], i - 1>>
    BY <1>1 DEF PagesInv, InOrder, Id, IdOf
  <2>2. Id(i) \in ActedIds
    BY <1>1 DEF PagesInv, MarksActed
  <2>3. PICK r \in actedOn : <<TimeOf[i], i - 1>> = <<TimeOf[r], r - 1>>
    BY <2>1, <2>2 DEF ActedIds
  <2>4. r \in Int /\ i \in Int
    BY <1>1, ListAssumption DEF PagesTypeOK, Rows
  <2>5. i - 1 = r - 1
    BY <2>3
  <2> QED
    BY <2>1, <2>4, <2>5
<1> QED
  BY <1>1, PagesInvariant, PTL

(* Under the same condition, for any filters and page sizes, EventLog      *)
(* shows an empty page of a list that has matching alerts only while a     *)
(* cached answer keeps the list shorter than it was on this visit: what    *)
(* was turned to lay within the list, and every other change goes back to  *)
(* the first page (EventLog.tsx:59-149).                                   *)
THEOREM PagesHaveRows == Spec => []PageHasRows
<1>1. ASSUME PagesTypeOK, PagesInv PROVE PageHasRows
  <2> SUFFICES ASSUME AllShown, page = "log", Len(list) = longest, Filtered # {}
               PROVE  paginatedLogs # {}
    BY DEF PageHasRows, AllShown
  <2> DEFINE c == Cardinality(Filtered)
             k == currentPage * pageSize
  <2>1. /\ c \in Nat /\ Filtered \subseteq 1..Len(list) /\ Len(list) \in Nat
        /\ IsFiniteSet(Filtered)
    BY <1>1, FilteredFinite
  <2>2. c # 0
    BY <2>1, FS_EmptySet
  <2>3. /\ currentPage \in Nat /\ pageSize \in Nat \ {0}
    BY <1>1, SizesAreNatural DEF PagesTypeOK, SizesNatural
  <2>4. k < c
    <3>1. currentPage # 0 => k < c
      BY <1>1, FilteredReached DEF PagesInv, PageBegins
    <3>2. currentPage = 0 => k = 0
      BY <2>3
    <3> HIDE DEF c, k
    <3> QED
      BY <2>1, <2>2, <3>1, <3>2
  <2>5. k \in Nat /\ (currentPage + 1) * pageSize = k + pageSize
    BY <2>3
  <2> HIDE DEF k
  <2>6. k + 1 \in 1..c
    <3> HIDE DEF c
    <3> QED
      BY <2>1, <2>4, <2>5
  <2>7. PICK i \in Filtered : Rank(i) = k + 1
    <3> DEFINE S == Filtered
               n == Len(list)
               m == k + 1
    <3>1. n \in Nat /\ S \in SUBSET (1..n) /\ m \in 1..Cardinality(S)
      BY <2>1, <2>6
    <3> HIDE DEF S, n, m
    <3>2. \E i \in S : Cardinality({j \in S : j <= i}) = m
      BY <3>1, Ranked
    <3> QED
      BY <3>2 DEF Rank, S, m
  <2>8. Rank(i) \in (k + 1)..(k + pageSize)
    <3> DEFINE r == Rank(i)
    <3> HIDE DEF r
    <3>1. r = k + 1
      BY <2>7 DEF r
    <3>2. r \in (k + 1)..(k + pageSize)
      BY <2>3, <2>5, <3>1
    <3> QED
      BY <3>2 DEF r
  <2>9. i \in paginatedLogs
    BY <2>5, <2>7, <2>8 DEF paginatedLogs, k
  <2> QED
    BY <2>9
<1> QED
  BY <1>1, PagesInvariant, PTL

=============================================================================
