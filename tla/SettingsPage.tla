---------------------------- MODULE SettingsPage ----------------------------
(***************************************************************************)
(* The settings page: switches kept in localStorage, some of which are     *)
(* also posted to the backend's run-time configuration, which answers      *)
(* later, in any order, or not at all, and forgets all of it when it       *)
(* restarts; and the dialog of QRScanner over it.                          *)
(*                                                                         *)
(* A row reads its switch from localStorage once, when the page is opened; *)
(* the answer to the configuration the page asks for comes after that.     *)
(***************************************************************************)
EXTENDS QRScanner

CONSTANTS
    Toggles,   \* the switches of the model, of those below
    MaxPosts,  \* bound on the configurations posted
    MaxGets    \* bound on the GETs under way

(* passive_scan is posted too, but the backend does not keep it.           *)
Kept == {"channel_hopping", "client_tracking", "passive_block", "client_warn"}
Retention == [retain_forever |-> 0, retain_30d |-> 30, retain_7d |-> 7]
Local == {"desktop_notif", "sound_critical", "reduced_motion", "compact_tables", "active_contain"}

ASSUME SettingsAssumption ==
    /\ Toggles \subseteq Kept \cup DOMAIN Retention \cup Local \cup {"passive_scan", "auto_mark_read"}
    /\ MaxPosts \in Nat /\ MaxGets \in Nat

VARIABLES
    open,       \* the page is shown
    saved,      \* localStorage: "on", "off" or "unset"
    checked,    \* the rows' switches
    asking,     \* the browser asks whether notifications are allowed
    get,        \* GETs of /api/config, of this visit and of earlier ones
    posts,      \* the posts under way, with their numbers
    posted,     \* how many were made
    config,     \* the backend's configuration
    applied,    \* ghost: the post it is of, 0 for none
    crossed     \* ghost: a GET was under way when the last post was made, or
                \* made when a post was

pageVars == <<open, saved, checked, asking>>
syncVars == <<get, posts, posted, config, applied, crossed>>
settingsVars == <<qrVars, pageVars, syncVars>>

On(id) == id \in {"channel_hopping", "passive_scan", "client_tracking", "desktop_notif",
                  "retain_forever", "passive_block"}
getSetting(stored, id) == IF stored[id] = "unset" THEN On(id) ELSE stored[id] = "on"

Stored(v) == IF v THEN "on" ELSE "off"

(* The defaults are those of the switches.                                 *)
DefaultConfig == [flags |-> [id \in Kept |-> On(id)], retention |-> 0, archive |-> 0]

NoGet == [pc |-> "none", answer |-> DefaultConfig]
Gets == 1..MaxGets
Asked == {g \in Gets : get[g].pc # "none"}

SettingsInit ==
    /\ QrInit
    /\ open = FALSE
    /\ saved = [id \in Kept \cup Toggles |-> "unset"]
    /\ checked = [id \in Toggles |-> FALSE]
    /\ asking = FALSE
    /\ get = [g \in Gets |-> NoGet] /\ posts = {} /\ posted = 0
    /\ config = DefaultConfig /\ applied = 0 /\ crossed = FALSE

(***************************************************************************)
(* Opening and leaving the page.                                           *)
(***************************************************************************)
OpenPage(g) ==
    /\ ~open /\ g \notin Asked
    /\ open' = TRUE
    /\ checked' = [id \in Toggles |-> getSetting(saved, id)]
    /\ get' = [get EXCEPT ![g] = [NoGet EXCEPT !.pc = "sent"]]
    /\ crossed' = (crossed \/ posts # {})
    /\ UNCHANGED <<qrVars, saved, asking, posts, posted, config, applied>>

(* A dialog goes with the page, to which its detections then report.       *)
LeavePage ==
    /\ open
    /\ open' = FALSE
    /\ checked' = [id \in Toggles |-> FALSE]
    /\ IF qrOpen THEN Closes(0)
       ELSE stale' = 0 /\ UNCHANGED <<qrOpen, cameraVars, scanning, error, frames, detecting>>
    /\ UNCHANGED <<saved, asking, syncVars>>

ConfigRead(g) ==
    /\ get[g].pc = "sent"
    /\ get' = [get EXCEPT ![g] = [pc |-> "read", answer |-> config]]
    /\ UNCHANGED <<qrVars, pageVars, posts, posted, config, applied, crossed>>

(* Two switches are written, by the GET of a page that was left as well,   *)
(* and the rows do not look again.                                         *)
ConfigAnswered(g) ==
    LET flags == get[g].answer.flags IN
    /\ get[g].pc = "read"
    /\ saved' = [saved EXCEPT !["channel_hopping"] = Stored(flags["channel_hopping"]),
                              !["client_tracking"] = Stored(flags["client_tracking"])]
    /\ get' = [get EXCEPT ![g] = NoGet]
    /\ UNCHANGED <<qrVars, open, checked, asking, posts, posted, config, applied, crossed>>

ConfigFails(g) ==
    /\ g \in Asked
    /\ get' = [get EXCEPT ![g] = NoGet]
    /\ UNCHANGED <<qrVars, pageVars, posts, posted, config, applied, crossed>>

(***************************************************************************)
(* A switch.  The switches of the display also set styles of the page, and *)
(* every answer raises a toast: neither is modelled.                       *)
(***************************************************************************)
(* Mutant: what is not the switch's own key is sent as it is by default.   *)
BodyOfDefaults(stored, id, v) ==
    [flags |-> [k \in Kept |-> IF k = id THEN v ELSE On(k)],
     retention |-> IF id \in DOMAIN Retention THEN Retention[id] ELSE 0,
     archive |-> IF id = "auto_mark_read" /\ v THEN 24 ELSE 0]

(* The body of syncToBackend: retention and archiving are sent as 0 by     *)
(* every switch but their own.                                             *)
Body(stored, id, v) ==
    [flags |-> [k \in Kept |-> IF k = id THEN v ELSE getSetting(stored, k)],
     retention |-> IF id \in DOMAIN Retention THEN Retention[id] ELSE 0,
     archive |-> IF id = "auto_mark_read" /\ v THEN 24 ELSE 0]

IsPosted(id, v) == id \notin Local /\ (id \in DOMAIN Retention => v)

toggle(id) ==
    LET v == ~checked[id]
        stored == [saved EXCEPT ![id] = Stored(v)]
    IN
    /\ open /\ ~qrOpen
    /\ checked' = [checked EXCEPT ![id] = v]
    /\ saved' = stored
    /\ IF IsPosted(id, v)
       THEN /\ posted < MaxPosts
            /\ posted' = posted + 1
            /\ posts' = posts \cup {[n |-> posted + 1, body |-> Body(stored, id, v)]}
            /\ crossed' = (Asked # {})
       ELSE UNCHANGED <<posted, posts, crossed>>
    /\ asking' = (asking \/ (id = "desktop_notif" /\ v))
    /\ UNCHANGED <<qrVars, open, get, config, applied>>

(* handleDesktopNotif: a refusal is written under the switch, which stays  *)
(* on.  Requests made while one is open are answered with it.              *)
PermissionAnswered(granted) ==
    /\ asking
    /\ asking' = FALSE
    /\ saved' = IF granted THEN saved ELSE [saved EXCEPT !["desktop_notif"] = "off"]
    /\ UNCHANGED <<qrVars, open, checked, syncVars>>

(***************************************************************************)
(* The backend.                                                            *)
(***************************************************************************)
PostApplied(p) ==
    /\ posts' = posts \ {p}
    /\ config' = p.body /\ applied' = p.n
    /\ UNCHANGED <<qrVars, pageVars, get, posted, crossed>>

PostFails(p) ==
    /\ posts' = posts \ {p}
    /\ UNCHANGED <<qrVars, pageVars, get, posted, config, applied, crossed>>

RestartBackend ==
    /\ config' = DefaultConfig /\ applied' = 0
    /\ UNCHANGED <<qrVars, pageVars, get, posts, posted, crossed>>

(***************************************************************************)
(* The specification.                                                      *)
(***************************************************************************)
SettingsNext ==
    \/ LeavePage
    \/ \E g \in Gets : OpenPage(g) \/ ConfigRead(g) \/ ConfigAnswered(g) \/ ConfigFails(g)
    \/ \E id \in Toggles : toggle(id)
    \/ \E granted \in BOOLEAN : PermissionAnswered(granted)
    \/ \E p \in posts : PostApplied(p) \/ PostFails(p)
    \/ RestartBackend
    \/ QrNext /\ (qrOpen' => open) /\ UNCHANGED <<pageVars, syncVars>>

SettingsSpec == SettingsInit /\ [][SettingsNext]_settingsVars

(***************************************************************************)
(* Properties.                                                             *)
(***************************************************************************)
(* Once the last configuration posted is the one the backend took last,    *)
(* and no GET crossed it, the backend has every switch it keeps as         *)
(* localStorage has it: what a lost post or a restart left behind, the     *)
(* next post brings along.  That is as the user left it, but for channel   *)
(* hopping and client tracking: the answer to a GET writes the backend's   *)
(* over them, which undoes what was lost for good.                         *)
BackendHasTheSwitches ==
    posted > 0 /\ applied = posted /\ ~crossed =>
        \A id \in Kept : config.flags[id] = getSetting(saved, id)

(* With the dialog closed, by a click, a code, the report of an earlier    *)
(* dialog or with the page, no camera is on but those granted to a dialog  *)
(* that had been closed while the user was still being asked.              *)
CamerasStop == ~qrOpen => cameras = late

=============================================================================
