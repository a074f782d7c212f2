---------------------------- MODULE TrustedAps ----------------------------
(***************************************************************************)
(* The whitelist of trusted access points (whitelist.rs), the detector of  *)
(* rogue access points that reads it (detectors/rogue_ap.rs), the capture  *)
(* loop that reads it twice more for every beacon (main.rs), and the API   *)
(* request that adds to it while frames are handled.                       *)
(*                                                                         *)
(* An access point is a pair <<ssid, bssid>>.  The whitelist's mutex is    *)
(* held while the file is written, in two steps (the file is truncated,    *)
(* then written), so only a crash can see what is in between.  A call of   *)
(* the detector is one step: it holds the mutex, alert included.           *)
(***************************************************************************)
EXTENDS Integers

CONSTANTS
  SSIDs, BSSIDs,
  Hidden,         \* what a beacon without an SSID is filed under
  Spellings,      \* of the BSSID in a request: as frames spell it, or not
  FaultyDisk,     \* whether reading, opening or writing the file may fail
  MaxFrames,      \* bound: frames captured
  MaxAdds,        \* bound: requests
  MaxCrashes      \* bound: crashes

ASSUME SpellingsAssumption == Spellings \subseteq {"upper", "other"}
ASSUME BoundsAssumption ==
  FaultyDisk \in BOOLEAN /\ MaxFrames \in Nat /\ MaxAdds \in Nat /\ MaxCrashes \in Nat

Aps == SSIDs \X BSSIDs
NoAp == <<>>

VARIABLES
  file,       \* whitelist.toml: its entries, and whether it parses
  trusted,    \* Whitelist.trusted
  seen,       \* RogueApDetector.seen: BSSIDs by SSID
  reports,    \* pieces of "rogue_ap" evidence since the device was cleared
  capture,    \* what the capture loop does, for which access point
  api         \* what the API thread does

VARIABLES     \* history
  alerted,    \* access points a Rogue AP alert was fired for
  everTrusted,\* all that was ever in trusted
  promised,   \* what the operator wrote in the file or was told is trusted
  cleared,    \* added in this life, with the device's score cleared
  dirty,      \* the file is not what memory was last written as
  broken,     \* a start found less than was promised
  frames, adds, crashes

whitelistVars == <<file, trusted>>
captureVars == <<seen, reports, capture>>
history == <<everTrusted, promised, cleared, dirty, broken>>
vars == <<file, trusted, seen, reports, capture, api, alerted, everTrusted,
          promised, cleared, dirty, broken, frames, adds, crashes>>

----------------------------------------------------------------------------
\* Whitelist::load: what does not parse counts as empty, and so does a file
\* that cannot be read.
Parsed(f) == IF f.parses THEN f.lines ELSE {}
Load(f) == {Parsed(f)} \union (IF FaultyDisk THEN {{}} ELSE {})

HasEntriesFor(ssid) == \E b \in BSSIDs : <<ssid, b>> \in trusted

\* The whitelist's mutex is held from the insertion to the end of persist.
Persisting == api.at \in {"Truncate", "Write"}

Waiting == [at |-> "Receive", ap |-> NoAp]
Idle == [at |-> "Idle", ap |-> NoAp, spelled |-> "upper"]

NothingSeen == [s \in SSIDs |-> {}]
NoReports == [p \in Aps |-> 0]

Init ==
  /\ file \in [lines : SUBSET Aps, parses : BOOLEAN]
  /\ trusted \in Load(file)
  /\ seen = NothingSeen /\ reports = NoReports
  /\ capture = Waiting /\ api = Idle /\ cleared = {}
  /\ alerted = {} /\ everTrusted = trusted /\ promised = file.lines
  /\ dirty = (~file.parses \/ trusted # file.lines)
  /\ broken = (trusted # file.lines)
  /\ frames = 0 /\ adds = 0 /\ crashes = 0

----------------------------------------------------------------------------
(* The capture loop. *)

\* Mutant of IsRogue: the second BSSID of an SSID is let through.
IsRogueFromThird(p) ==
  /\ p[2] \notin seen[p[1]] /\ \E b, c \in seen[p[1]] : b # c
  /\ p \notin trusted

\* Mutant of IsRogue: trust is not looked at.
IsRogueUntrusting(p) == p[2] \notin seen[p[1]] /\ seen[p[1]] # {}

\* A BSSID new to its SSID, not the only one, and not trusted.
IsRogue(p) ==
  /\ p[2] \notin seen[p[1]] /\ seen[p[1]] # {}
  /\ p \notin trusted

\* A beacon goes through RogueApDetector::process, which skips hidden
\* networks.
Beacon(p) ==
  /\ capture.at = "Receive" /\ frames < MaxFrames /\ ~Persisting
  /\ frames' = frames + 1
  /\ IF p[1] = Hidden
       THEN UNCHANGED <<seen, alerted>>
       ELSE /\ seen' = [seen EXCEPT ![p[1]] = @ \union {p[2]}]
            /\ alerted' = IF IsRogue(p) THEN alerted \union {p} ELSE alerted
  /\ capture' = [at |-> "LookUpTrusted", ap |-> p]
  /\ UNCHANGED <<whitelistVars, reports, api, history, adds, crashes>>

\* Mutant of LookUpTrusted: whatever is found, the entries are looked up.
LookUpTrustedOnly ==
  /\ capture.at = "LookUpTrusted" /\ ~Persisting
  /\ capture' = [capture EXCEPT !.at = "LookUpEntries"]
  /\ UNCHANGED <<whitelistVars, seen, reports, api, alerted, history, frames, adds, crashes>>

\* The two lookups of the condition, each with the mutex of its own ...
LookUpTrusted ==
  /\ capture.at = "LookUpTrusted" /\ ~Persisting
  /\ capture' = IF capture.ap \in trusted THEN Waiting
                ELSE [capture EXCEPT !.at = "LookUpEntries"]
  /\ UNCHANGED <<whitelistVars, seen, reports, api, alerted, history, frames, adds, crashes>>

LookUpEntries ==
  /\ capture.at = "LookUpEntries" /\ ~Persisting
  /\ capture' = IF HasEntriesFor(capture.ap[1]) THEN [capture EXCEPT !.at = "AddEvidence"]
                ELSE Waiting
  /\ UNCHANGED <<whitelistVars, seen, reports, api, alerted, history, frames, adds, crashes>>

\* ... and the evidence, when neither is held any more.
AddEvidence ==
  /\ capture.at = "AddEvidence"
  /\ reports' = [reports EXCEPT ![capture.ap] = @ + 1]
  /\ capture' = Waiting
  /\ UNCHANGED <<whitelistVars, seen, api, alerted, history, frames, adds, crashes>>

----------------------------------------------------------------------------
(* POST /api/whitelist. *)

\* Already trusted: nothing changes.
AddAgain(p) ==
  /\ api.at = "Idle" /\ adds < MaxAdds /\ p \in trusted
  /\ adds' = adds + 1
  /\ promised' = promised \union {p}
  /\ UNCHANGED <<whitelistVars, captureVars, api, alerted, everTrusted, cleared, dirty,
                 broken, frames, crashes>>

\* add_trusted takes the mutex and inserts, in upper case.
AddTrusted(p, spelled) ==
  /\ api.at = "Idle" /\ adds < MaxAdds /\ p \notin trusted
  /\ adds' = adds + 1
  /\ trusted' = trusted \union {p}
  /\ everTrusted' = everTrusted \union {p}
  /\ api' = [at |-> "Truncate", ap |-> p, spelled |-> spelled]
  /\ UNCHANGED <<file, captureVars, alerted, promised, cleared, dirty, broken, frames, crashes>>

\* persist: fs::write truncates the file ...
Truncate ==
  /\ api.at = "Truncate"
  /\ file' = [lines |-> {}, parses |-> FALSE]
  /\ dirty' = TRUE
  /\ api' = [api EXCEPT !.at = "Write"]
  /\ UNCHANGED <<trusted, captureVars, alerted, everTrusted, promised, cleared, broken,
                 frames, adds, crashes>>

\* Mutant of Write: only the new entry is written.
WriteNewOnly ==
  /\ api.at = "Write"
  /\ file' = [lines |-> {api.ap}, parses |-> TRUE]
  /\ dirty' = FALSE
  /\ api' = [api EXCEPT !.at = "ClearScore"]
  /\ UNCHANGED <<trusted, captureVars, alerted, everTrusted, promised, cleared, broken,
                 frames, adds, crashes>>

\* ... and writes all of the whitelist into it.
Write ==
  /\ api.at = "Write"
  /\ file' = [lines |-> trusted, parses |-> TRUE]
  /\ dirty' = FALSE
  /\ api' = [api EXCEPT !.at = "ClearScore"]
  /\ UNCHANGED <<trusted, captureVars, alerted, everTrusted, promised, cleared, broken,
                 frames, adds, crashes>>

\* What a failed or interrupted write leaves of the file: any part of it.
Remains ==
  IF api.at = "Write"
    THEN {f \in [lines : SUBSET trusted, parses : BOOLEAN] : f.parses => f.lines # {}}
    ELSE {file}

\* A failure to open or to write the file is dropped.
PersistFails ==
  /\ FaultyDisk /\ Persisting
  /\ file' \in Remains
  /\ dirty' = TRUE
  /\ api' = [api EXCEPT !.at = "ClearScore"]
  /\ UNCHANGED <<trusted, captureVars, alerted, everTrusted, promised, cleared, broken,
                 frames, adds, crashes>>

\* The scorer spells BSSIDs as frames do: another spelling finds nothing.
Found == api.spelled = "upper"

\* clear_device, and the answer "added".
ClearScore ==
  /\ api.at = "ClearScore"
  /\ reports' = IF Found THEN [p \in Aps |-> IF p[2] = api.ap[2] THEN 0 ELSE reports[p]]
                ELSE reports
  /\ promised' = promised \union {api.ap}
  /\ cleared' = IF Found THEN cleared \union {api.ap} ELSE cleared
  /\ api' = Idle
  /\ UNCHANGED <<whitelistVars, seen, capture, alerted, everTrusted, dirty, broken,
                 frames, adds, crashes>>

----------------------------------------------------------------------------
\* The process dies, is started again and loads the file.
Crash ==
  /\ crashes < MaxCrashes /\ crashes' = crashes + 1
  /\ file' \in Remains
  /\ trusted' \in Load(file')
  /\ seen' = NothingSeen /\ reports' = NoReports
  /\ capture' = Waiting /\ api' = Idle /\ cleared' = {}
  /\ everTrusted' = everTrusted \union trusted'
  /\ dirty' = (~file'.parses \/ trusted' # file'.lines)
  /\ broken' = (broken \/ dirty \/ trusted' # Parsed(file'))
  /\ UNCHANGED <<alerted, promised, frames, adds>>

Next ==
  \/ \E p \in Aps : Beacon(p)
  \/ LookUpTrusted \/ LookUpEntries \/ AddEvidence
  \/ \E p \in Aps : AddAgain(p)
  \/ \E p \in Aps, spelled \in Spellings : AddTrusted(p, spelled)
  \/ Truncate \/ Write \/ PersistFails \/ ClearScore
  \/ Crash

Spec == Init /\ [][Next]_vars

----------------------------------------------------------------------------
CaptureSteps == {"LookUpTrusted", "LookUpEntries", "AddEvidence"}
ApiSteps == {"Truncate", "Write", "ClearScore"}

TypeOK ==
  /\ file \in [lines : SUBSET Aps, parses : BOOLEAN]
  /\ trusted \subseteq Aps /\ everTrusted \subseteq Aps /\ trusted \subseteq everTrusted
  /\ seen \in [SSIDs -> SUBSET BSSIDs]
  /\ reports \in [Aps -> Nat]
  /\ capture = Waiting \/ capture \in [at : CaptureSteps, ap : Aps]
  /\ api = Idle \/ api \in [at : ApiSteps, ap : Aps, spelled : Spellings]
  /\ alerted \subseteq Aps /\ promised \subseteq Aps /\ cleared \subseteq trusted
  /\ dirty \in BOOLEAN /\ broken \in BOOLEAN
  /\ frames \in Nat /\ adds \in Nat /\ crashes \in Nat

(***************************************************************************)
(* Trust survives a restart: a restart loads all that the file had or a    *)
(* request was answered for, unless a crash fell between the truncation    *)
(* and the rewriting of the file, or the last write of it had failed, or   *)
(* it did not parse to begin with, or the start could not read it          *)
(* (whitelist.rs:28-50, 64-75, 106-116).  The file is memory whenever the  *)
(* last write or read of it went well.                                     *)
(***************************************************************************)
TrustIsKept ==
  /\ ~broken => promised \subseteq trusted
  /\ ~dirty /\ ~Persisting => file = [lines |-> trusted, parses |-> TRUE]

(***************************************************************************)
(* Once a request for an access point was answered, no Rogue AP alert is   *)
(* fired for it, now or after a restart, whatever beacon of it was being   *)
(* handled when the request came (main.rs:313-321, rogue_ap.rs:54).        *)
(***************************************************************************)
NoAlarmOnTrusted ==
  [][~broken => \A p \in alerted' \ alerted : p \notin promised]_vars

(***************************************************************************)
(* Of any two access points that share an SSID and were never trusted, one *)
(* at least is alerted on, whichever comes first and whatever requests and *)
(* restarts change in between (rogue_ap.rs:46-56).                         *)
(***************************************************************************)
NeverTrusted(s) == {b \in seen[s] : <<s, b>> \notin everTrusted}
TwinsAreReported ==
  \A s \in SSIDs : \A b, c \in NeverTrusted(s) :
    b # c => <<s, b>> \in alerted \/ <<s, c>> \in alerted

(***************************************************************************)
(* The loop decides with two lookups and adds the evidence when it holds   *)
(* no lock, so evidence can reach a device just after it was trusted and   *)
(* cleared; but at most one piece ever does (main.rs:339-344,              *)
(* api_server.rs:735-747).                                                 *)
(***************************************************************************)
OneLateReport == \A p \in cleared : reports[p] <= 1

=============================================================================
