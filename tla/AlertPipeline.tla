--------------------------- MODULE AlertPipeline ---------------------------
(***************************************************************************)
(* The alert pipeline of the WIDPS backend: alert::fire (alert.rs), called *)
(* by several threads, writes every alert to three sinks under one file    *)
(* lock: the JSONL log, the SSE broadcaster and the SQLite table of db.rs. *)
(* The API thread clears, acknowledges and audits the same alerts, and the *)
(* maintenance thread prunes and archives them, under the database mutex   *)
(* only.                                                                   *)
(*                                                                         *)
(* An alert is known by the order in which its fire call got the file      *)
(* lock (n = 1, 2, ...).  Severity, title and detail play no part: a       *)
(* signature is the timestamp it was computed from.                        *)
(***************************************************************************)
EXTENDS Integers, Sequences, FiniteSets

CONSTANTS
  Callers,      \* threads that call alert::fire (capture loop, honeypot)
  NoOne,        \* the value of a mutex that is free
  Api,          \* the single API thread, as an owner of the database mutex
  FaultySinks,  \* sinks whose operations may fail: a subset of {"jsonl", "db"}
  Retentions,   \* values of retention_days met by the maintenance thread
  ArchiveAges,  \* values of auto_archive_hours, in the same clock units
  MaxAlerts,    \* bound: fire calls that get the file lock
  MaxClock,     \* bound: seconds that pass
  MaxClears,    \* bound: "clear" requests
  MaxCrashes,   \* bound: process restarts
  MaxSetBacks   \* bound: times the wall clock is set back

ASSUME CallersAssumption == NoOne \notin Callers /\ Api # NoOne
ASSUME BoundsAssumption ==
  MaxAlerts \in Nat /\ MaxClock \in Nat /\ MaxClears \in Nat /\ MaxCrashes \in Nat
  /\ MaxSetBacks \in Nat
ASSUME AgesAssumption == Retentions \subseteq Nat /\ ArchiveAges \subseteq Nat

VARIABLES
  clock,      \* Local::now, in the one-second grain of its format string:
              \* local wall-clock time, which may be set back
  pc,         \* where each caller is in alert::fire
  cur,        \* the caller's alert: its number and the timestamp it signed
  fileLock,   \* ALERT_FILE_LOCK
  dbLock,     \* the Database mutex, when it is held for more than one step
  apiPc,      \* where the API thread is in a "clear" request
  jsonl,      \* widps_alerts.jsonl: alert numbers, NL for each newline, and
              \* PART for the part of a record that a failed write left
  pushed,     \* alerts handed to SseBroadcaster::push since the start
  rows,       \* the table alerts
  nextRowId   \* its AUTOINCREMENT counter

VARIABLES     \* history: what the properties compare the sinks with
  tickets,    \* alerts numbered so far
  done,       \* alerts whose fire call returned
  clearing,   \* alerts that the present clear request has to remove
  cleared,    \* alerts that a clear request removed, table and file
  deleted,    \* alerts whose row a clear request or retention deleted
  truncated,  \* alerts whose line a clear request removed
  forgotten,  \* alerts pushed before the last restart
  unlogged,   \* alerts whose write to the file failed
  unstored,   \* alerts whose INSERT failed
  torn,       \* failed writes that left a line of the file open
  setBacks,   \* times the clock was set back: the era of a row
  clears, crashes

fireVars == <<pc, cur, fileLock>>
sinkVars == <<jsonl, pushed, rows, nextRowId>>
removals == <<clearing, cleared, deleted, truncated, forgotten>>
faults == <<unlogged, unstored, torn>>
bounds == <<setBacks, clears, crashes>>
histVars == <<done, removals, faults, bounds>>
vars == <<clock, fireVars, dbLock, apiPc, sinkVars, tickets, histVars>>

----------------------------------------------------------------------------
NL == 0
PART == -1
NoAlert == [n |-> 0, ts |-> 0]

\* The places in alert::fire where the caller holds ALERT_FILE_LOCK.
Held == {"line", "newline", "sse", "db", "return"}

JsonlAlerts == {jsonl[i] : i \in DOMAIN jsonl} \ {NL, PART}
PushedAlerts == {pushed[i] : i \in DOMAIN pushed}
RowAlerts == {r.n : r \in rows}

\* verify_alert_signature: the signature was computed from signedTs, and is
\* recomputed from the timestamp the table holds.
Verifies(r) == r.signedTs = r.ts

\* What GET /api/alerts answers: the table, or the JSONL file when the table
\* is empty.
Served == IF rows = {} THEN JsonlAlerts ELSE RowAlerts

----------------------------------------------------------------------------
Init ==
  /\ clock = 0
  /\ pc = [c \in Callers |-> "idle"]
  /\ cur = [c \in Callers |-> NoAlert]
  /\ fileLock = NoOne /\ dbLock = NoOne /\ apiPc = "idle"
  /\ jsonl = <<>> /\ pushed = <<>> /\ rows = {} /\ nextRowId = 1
  /\ tickets = 0
  /\ done = {} /\ clearing = {} /\ cleared = {} /\ deleted = {} /\ truncated = {}
  /\ forgotten = {} /\ unlogged = {} /\ unstored = {} /\ torn = 0
  /\ setBacks = 0 /\ clears = 0 /\ crashes = 0

Goto(c, place) == pc' = [pc EXCEPT ![c] = place]

\* fire: take the timestamp and sign with it, before any lock is taken.
Sign(c) ==
  /\ pc[c] = "idle"
  /\ Goto(c, "signed")
  /\ cur' = [cur EXCEPT ![c] = [n |-> 0, ts |-> clock]]
  /\ UNCHANGED <<clock, fileLock, dbLock, apiPc, sinkVars, tickets, histVars>>

\* Mutant of TakeFileLock: alerts are written without taking the lock.
TakeNoFileLock(c) ==
  /\ pc[c] = "signed"
  /\ tickets < MaxAlerts
  /\ fileLock' = fileLock
  /\ tickets' = tickets + 1
  /\ cur' = [cur EXCEPT ![c].n = tickets + 1]
  /\ Goto(c, "line")
  /\ UNCHANGED <<clock, dbLock, apiPc, sinkVars, histVars>>

\* fire: take ALERT_FILE_LOCK, which is kept until the call returns.
TakeFileLock(c) ==
  /\ pc[c] = "signed"
  /\ tickets < MaxAlerts
  /\ fileLock = NoOne
  /\ fileLock' = c
  /\ tickets' = tickets + 1
  /\ cur' = [cur EXCEPT ![c].n = tickets + 1]
  /\ Goto(c, "line")
  /\ UNCHANGED <<clock, dbLock, apiPc, sinkVars, histVars>>

\* The write of the caller's record to the file fails.
LogFails(c) == "jsonl" \in FaultySinks /\ unlogged' = unlogged \union {cur[c].n}

\* Mutant of WriteLine: a failed open returns from fire.
WriteLineOrGiveUp(c) ==
  /\ pc[c] = "line"
  /\ \/ jsonl' = Append(jsonl, cur[c].n) /\ Goto(c, "newline") /\ UNCHANGED <<unlogged, torn>>
     \/ LogFails(c) /\ Goto(c, "return") /\ UNCHANGED <<jsonl, torn>>
  /\ UNCHANGED <<clock, cur, fileLock, dbLock, apiPc, pushed, rows, nextRowId,
                 tickets, done, removals, unstored, bounds>>

\* fire: open for append; writeln! writes the record and the newline with
\* two writes.  When the open fails, or the first write does, nothing or a
\* part of the record is in the file, the newline is not written, and the
\* error is dropped.
WriteLine(c) ==
  /\ pc[c] = "line"
  /\ \/ jsonl' = Append(jsonl, cur[c].n) /\ Goto(c, "newline") /\ UNCHANGED <<unlogged, torn>>
     \/ LogFails(c) /\ Goto(c, "sse") /\ UNCHANGED <<jsonl, torn>>
     \/ /\ LogFails(c) /\ Goto(c, "sse")
        /\ jsonl' = Append(jsonl, PART) /\ torn' = torn + 1
  /\ UNCHANGED <<clock, cur, fileLock, dbLock, apiPc, pushed, rows, nextRowId,
                 tickets, done, removals, unstored, bounds>>

\* Mutant of WriteNewline: the lock covers the file only.
WriteNewlineAndUnlock(c) ==
  /\ pc[c] = "newline"
  /\ jsonl' = Append(jsonl, NL)
  /\ Goto(c, "sse")
  /\ fileLock' = NoOne
  /\ UNCHANGED <<clock, cur, dbLock, apiPc, pushed, rows, nextRowId, tickets, histVars>>

\* The second write of writeln!, which may fail on its own.
WriteNewline(c) ==
  /\ pc[c] = "newline"
  /\ \/ jsonl' = Append(jsonl, NL) /\ torn' = torn
     \/ "jsonl" \in FaultySinks /\ jsonl' = jsonl /\ torn' = torn + 1
  /\ Goto(c, "sse")
  /\ UNCHANGED <<clock, cur, fileLock, dbLock, apiPc, pushed, rows, nextRowId,
                 tickets, done, removals, unlogged, unstored, bounds>>

\* fire: broadcaster.push under the broadcaster mutex (which nobody keeps
\* while waiting for another lock).
PushSse(c) ==
  /\ pc[c] = "sse"
  /\ pushed' = Append(pushed, cur[c].n)
  /\ Goto(c, "db")
  /\ UNCHANGED <<clock, cur, fileLock, dbLock, apiPc, jsonl, rows, nextRowId,
                 tickets, histVars>>

NewRow(alert, ts) ==
  [id |-> nextRowId, n |-> alert.n, ts |-> ts, signedTs |-> alert.ts, ack |-> FALSE,
   era |-> setBacks]

\* Mutant of InsertRow: the row gets the timestamp that was signed.
InsertRowAsSigned(c) ==
  /\ pc[c] = "db"
  /\ dbLock = NoOne
  /\ rows' = rows \union {NewRow(cur[c], cur[c].ts)}
  /\ nextRowId' = nextRowId + 1
  /\ Goto(c, "return")
  /\ UNCHANGED <<clock, cur, fileLock, dbLock, apiPc, jsonl, pushed, tickets, histVars>>

\* fire: insert_alert under the database mutex, with a timestamp of its own;
\* the error of a failed INSERT is dropped.
InsertRow(c) ==
  /\ pc[c] = "db"
  /\ dbLock = NoOne
  /\ \/ /\ rows' = rows \union {NewRow(cur[c], clock)}
        /\ nextRowId' = nextRowId + 1 /\ unstored' = unstored
     \/ /\ "db" \in FaultySinks /\ UNCHANGED <<rows, nextRowId>>
        /\ unstored' = unstored \union {cur[c].n}
  /\ Goto(c, "return")
  /\ UNCHANGED <<clock, cur, fileLock, dbLock, apiPc, jsonl, pushed, tickets, done, removals, unlogged, torn, bounds>>

\* fire: the guard of ALERT_FILE_LOCK is dropped at the end of the function.
Return(c) ==
  /\ pc[c] = "return"
  /\ Goto(c, "idle")
  /\ fileLock' = NoOne
  /\ done' = done \union {cur[c].n}
  /\ UNCHANGED <<clock, cur, dbLock, apiPc, sinkVars, tickets, removals,
                 faults, bounds>>

----------------------------------------------------------------------------
\* POST /api/alerts {"action":"clear"}: DELETE FROM alerts, then overwrite the
\* JSONL file, with the database mutex held over both and ALERT_FILE_LOCK not
\* taken.  Either may fail: the error is dropped, and the request is answered
\* "cleared" all the same.
ClearTable ==
  /\ apiPc = "idle" /\ clears < MaxClears
  /\ dbLock = NoOne
  /\ dbLock' = Api /\ apiPc' = "truncate"
  /\ \/ /\ rows' = {} /\ deleted' = deleted \union RowAlerts
        /\ clearing' = RowAlerts \union done
     \/ "db" \in FaultySinks /\ UNCHANGED <<rows, deleted>> /\ clearing' = {}
  /\ clears' = clears + 1
  /\ UNCHANGED <<clock, fireVars, jsonl, pushed, nextRowId, tickets,
                 done, cleared, truncated, forgotten, faults, setBacks, crashes>>

\* Of ClearFile: the end of the request, and the variables it leaves alone.
Answered == apiPc' = "idle" /\ clearing' = {}
ClearFileKeeps ==
  UNCHANGED <<clock, pc, cur, fileLock, pushed, rows, nextRowId, tickets,
              done, deleted, forgotten, faults, bounds>>
Emptied ==
  /\ jsonl' = <<>> /\ truncated' = truncated \union JsonlAlerts
  /\ cleared' = cleared \union clearing

\* Mutants of ClearFile: the file is left alone; the database mutex is not
\* given back; ALERT_FILE_LOCK is taken with the database mutex held.
ClearNoFile ==
  /\ apiPc = "truncate" /\ dbLock' = NoOne /\ Answered
  /\ cleared' = cleared \union clearing
  /\ UNCHANGED <<jsonl, truncated>> /\ ClearFileKeeps

ClearFileKeepingLock ==
  /\ apiPc = "truncate" /\ dbLock' = dbLock /\ Answered
  /\ Emptied /\ ClearFileKeeps

ClearFileUnderFileLock ==
  /\ apiPc = "truncate" /\ fileLock = NoOne /\ dbLock' = NoOne /\ Answered
  /\ Emptied /\ ClearFileKeeps

ClearFile ==
  /\ apiPc = "truncate" /\ dbLock' = NoOne /\ Answered
  /\ \/ Emptied
     \/ "jsonl" \in FaultySinks /\ UNCHANGED <<jsonl, truncated, cleared>>
  /\ ClearFileKeeps

\* POST /api/alerts/:id/ack (one that fails changes nothing).
Acknowledge(id) ==
  /\ apiPc = "idle" /\ dbLock = NoOne
  /\ rows' = {IF r.id = id THEN [r EXCEPT !.ack = TRUE] ELSE r : r \in rows}
  /\ UNCHANGED <<clock, fireVars, dbLock, apiPc, jsonl, pushed, nextRowId,
                 tickets, histVars>>

\* GET /api/audit/integrity, which takes the database mutex: the alerts it
\* finds tampered (the handler answers how many they are).
AuditAnswers == apiPc = "idle" /\ dbLock = NoOne
Audit == {r.n : r \in {s \in rows : ~ Verifies(s)}}

\* Older than a cutoff of the maintenance thread; an age of 0 turns it off.
OlderThan(age, r) == age > 0 /\ r.ts < clock - age

\* The rows older than a cutoff.
Outdated(age) == {r \in rows : OlderThan(age, r)}

\* A statement on the table applies to these rows, or fails and to none.
Statement(S) == IF "db" \in FaultySinks THEN {S, {}} ELSE {S}

\* The maintenance thread, every five minutes: prune, then archive, in one
\* critical section.
Maintain(retention, archiveAge) ==
  /\ dbLock = NoOne
  /\ \E old \in Statement(Outdated(retention)) :
       /\ \E aged \in Statement(Outdated(archiveAge)) :
            rows' = {IF r \in aged THEN [r EXCEPT !.ack = TRUE] ELSE r : r \in rows \ old}
       /\ deleted' = deleted \union {r.n : r \in old}
  /\ UNCHANGED <<clock, fireVars, dbLock, apiPc, jsonl, pushed, nextRowId,
                 tickets, done, clearing, cleared, truncated, forgotten,
                 faults, bounds>>

----------------------------------------------------------------------------
Tick ==
  /\ clock < MaxClock
  /\ clock' = clock + 1
  /\ UNCHANGED <<fireVars, dbLock, apiPc, sinkVars, tickets, histVars>>

\* Local time goes back: summer time ends, or the clock is corrected.
SetBack ==
  /\ setBacks < MaxSetBacks /\ setBacks' = setBacks + 1
  /\ clock' \in 0..(clock - 1)
  /\ UNCHANGED <<fireVars, dbLock, apiPc, sinkVars, tickets, done, removals,
                 faults, clears, crashes>>

\* The process dies and the service manager starts it again: the file and the
\* table stay, the broadcaster starts empty.
Crash ==
  /\ crashes < MaxCrashes
  /\ crashes' = crashes + 1
  /\ pc' = [c \in Callers |-> "idle"]
  /\ cur' = [c \in Callers |-> NoAlert]
  /\ fileLock' = NoOne /\ dbLock' = NoOne /\ apiPc' = "idle"
  /\ pushed' = <<>>
  /\ forgotten' = forgotten \union PushedAlerts
  /\ clearing' = {}
  /\ UNCHANGED <<clock, jsonl, rows, nextRowId, tickets, done, cleared,
                 deleted, truncated, faults, setBacks, clears>>

FireStep(c) ==
  TakeFileLock(c) \/ WriteLine(c) \/ WriteNewline(c) \/ PushSse(c)
    \/ InsertRow(c) \/ Return(c)

Next ==
  \/ \E c \in Callers : Sign(c) \/ FireStep(c)
  \/ ClearTable \/ ClearFile
  \/ \E id \in 1..(nextRowId - 1) : Acknowledge(id)
  \/ \E r \in Retentions, a \in ArchiveAges : Maintain(r, a)
  \/ Tick \/ SetBack
  \/ Crash

Spec == Init /\ [][Next]_vars

\* A thread inside fire, or inside a clear request, keeps running; nothing
\* makes a new call, a request or a tick happen.
FairSpec ==
  /\ Spec
  /\ \A c \in Callers : WF_vars(FireStep(c))
  /\ WF_vars(ClearFile)

----------------------------------------------------------------------------
Entry == Nat \union {PART}
Row == [id : Nat, n : Nat, ts : Nat, signedTs : Nat, ack : BOOLEAN, era : Nat]

FireTypeOK ==
  /\ pc \in [Callers -> {"idle", "signed"} \union Held]
  /\ cur \in [Callers -> [n : Nat, ts : Nat]]
  /\ fileLock \in Callers \union {NoOne}
  /\ clock \in Nat /\ tickets \in Nat

ApiTypeOK ==
  /\ dbLock \in {Api, NoOne} /\ apiPc \in {"idle", "truncate"}
  /\ dbLock = Api <=> apiPc = "truncate"

SinkTypeOK ==
  /\ jsonl \in Seq(Entry) /\ pushed \in Seq(Nat)
  /\ rows \in SUBSET Row /\ nextRowId \in Nat

HistTypeOK ==
  /\ done \subseteq Nat /\ clearing \subseteq Nat /\ cleared \subseteq Nat
  /\ deleted \subseteq Nat /\ truncated \subseteq Nat /\ forgotten \subseteq Nat
  /\ unlogged \subseteq Nat /\ unstored \subseteq Nat /\ torn \in Nat
  /\ setBacks \in Nat /\ clears \in Nat /\ crashes \in Nat

TypeOK == FireTypeOK /\ ApiTypeOK /\ SinkTypeOK /\ HistTypeOK

(***************************************************************************)
(* The three sinks agree on the order of the alerts: the JSONL lines, the  *)
(* event ids of the broadcaster and the row ids of the table all follow    *)
(* the order in which the fire calls got ALERT_FILE_LOCK, although the     *)
(* broadcaster and the table have mutexes of their own (alert.rs:91-110).  *)
(* This is what makes "latest 200" mean the same alerts everywhere.        *)
(***************************************************************************)
FileOrder == \A i, j \in DOMAIN jsonl :
  i < j /\ jsonl[i] > 0 /\ jsonl[j] > 0 => jsonl[i] < jsonl[j]
PushOrder == \A i, j \in DOMAIN pushed : i < j => pushed[i] < pushed[j]
RowOrder == \A r, s \in rows : r.id < s.id => r.n < s.n
SinkOrder == FileOrder /\ PushOrder /\ RowOrder

(***************************************************************************)
(* Why the order holds: the caller inside the lock has the latest number,  *)
(* and a sink it has not reached yet holds only earlier ones               *)
(* (alert.rs:91-110).  Inductive; SinkOrder is its last conjunct.          *)
(***************************************************************************)
LockOwner == \A c \in Callers : pc[c] \in Held <=> fileLock = c
LatestNumber == \A c \in Callers : pc[c] \in Held => cur[c].n = tickets /\ tickets > 0
Ahead(c, places, n) == n <= tickets /\ (pc[c] \in places => n < tickets)
SinksBehind == \A c \in Callers :
  /\ \A i \in DOMAIN jsonl : Ahead(c, {"line"}, jsonl[i])
  /\ \A i \in DOMAIN pushed : Ahead(c, {"line", "newline", "sse"}, pushed[i])
  /\ \A r \in rows : Ahead(c, {"line", "newline", "sse", "db"}, r.n)
RowIdsUsed == \A r \in rows : r.id < nextRowId
OrderInv == LockOwner /\ LatestNumber /\ SinksBehind /\ RowIdsUsed /\ SinkOrder

(***************************************************************************)
(* Two records share a line of the JSONL file only where the process died  *)
(* between the two writes of writeln!, or where one of the two failed      *)
(* after something of the line was written (alert.rs:93): concurrent       *)
(* callers never glue their lines, and a clear request that truncates the  *)
(* file between the two writes leaves a blank line, not a broken one.      *)
(***************************************************************************)
Glued == {i \in 1..(Len(jsonl) - 1) : jsonl[i] # NL /\ jsonl[i + 1] # NL}
LinesStayWhole == Cardinality(Glued) <= crashes + torn

\* Why: a line is left open only by a crash or a failed write, and the next
\* alert closes it, so each of these can pay for one glued pair.
LineLeftOpen ==
  /\ jsonl # <<>> /\ jsonl[Len(jsonl)] # NL
  /\ \A c \in Callers : pc[c] # "newline"
LineInv == Cardinality(Glued) + (IF LineLeftOpen THEN 1 ELSE 0) <= crashes + torn

(***************************************************************************)
(* When fire returns, its alert is in every sink whose own write of it did *)
(* not fail, unless a clear, retention or a restart removed it since: an   *)
(* error of one sink never costs the others their copy (alert.rs:92-110).  *)
(***************************************************************************)
OnStream == PushedAlerts \union forgotten
InTable == RowAlerts \union deleted \union unstored
InFile == JsonlAlerts \union truncated \union unlogged

DeliveredDespiteFaults == done \subseteq OnStream \intersect InTable \intersect InFile

\* Why: a caller's alert has reached each sink whose place it has passed, and
\* no step takes an alert out of a sink without accounting for it; a failure
\* is on record only for an alert whose call has come to that sink.
ReachedSinks == \A c \in Callers :
  /\ pc[c] \in {"db", "return"} => cur[c].n \in OnStream
  /\ pc[c] = "return" => cur[c].n \in InTable
  /\ pc[c] \in Held \ {"line"} => cur[c].n \in InFile
DeliveryInv == ReachedSinks /\ DeliveredDespiteFaults

(***************************************************************************)
(* Once both halves of a clear request worked, GET /api/alerts never again *)
(* serves an alert that had returned from fire, or was in the table, when  *)
(* the request began: not from the table, and not from the JSONL file that *)
(* the handler falls back to, whatever fire calls were in progress (clear  *)
(* does not take ALERT_FILE_LOCK), whatever fails or crashes afterwards,   *)
(* later clear requests included (api_server.rs:292-309).  When a half     *)
(* fails, or the process dies between the two, nothing is promised.        *)
(***************************************************************************)
ClearedStaysCleared == Served \intersect cleared = {}

\* Why: an alert a clear request must remove has been through the file and
\* the table already, so no later step of its fire call can write it again.
WrittenOnce == \A c \in Callers, n \in done \union cleared \union clearing :
  Ahead(c, {"line", "newline", "sse", "db"}, n)
TableStaysCleared == RowAlerts \intersect (cleared \union clearing) = {}
FileStaysCleared == JsonlAlerts \intersect cleared = {}
ClearInv == WrittenOnce /\ TableStaysCleared /\ FileStaysCleared

(***************************************************************************)
(* No step deletes a row and keeps one that came before it, unless the     *)
(* clock was set back between the two: retention goes by the time in the   *)
(* row, which is the wall clock of its own INSERT and not the time that    *)
(* was signed (db.rs:98-104, 237-244).                                     *)
(***************************************************************************)
Kept(r) == \E q \in rows' : q.id = r.id
OldestGoFirst ==
  [][\A r, s \in rows : r.id < s.id /\ r.era = s.era /\ Kept(r) => Kept(s)]_vars

\* Why: a row is stamped under the database mutex, with the clock of that
\* moment, and the clock goes back only from one era to the next.
RowTimesFollowIds == \A r, s \in rows : r.id < s.id /\ r.era = s.era => r.ts <= s.ts
RowIdsNameRows == \A r, s \in rows : r.id = s.id => r.ts = s.ts /\ r.era = s.era
RowTimesInv ==
  /\ RowIdsNameRows
  /\ \A r \in rows : r.era <= setBacks /\ (r.era = setBacks => r.ts <= clock)
  /\ RowTimesFollowIds

(***************************************************************************)
(* A thread that got ALERT_FILE_LOCK gives it back: no other lock it waits *)
(* for inside fire is held by someone who waits for ALERT_FILE_LOCK.       *)
(***************************************************************************)
FileLockReleased == \A c \in Callers : (fileLock = c) ~> (fileLock # c)

(***************************************************************************)
(* No row is deleted or changed by the model except through the program's  *)
(* own operations, so the tamper detection of /api/audit/integrity should  *)
(* never report one (README.md:300).                                       *)
(***************************************************************************)
AuditReportsNoTampering == AuditAnswers => Audit = {}

============================================================================
