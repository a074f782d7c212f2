------------------------ MODULE AlertPipelineProofs ------------------------
(***************************************************************************)
(* Theorems about AlertPipeline, for any set of callers and any bounds.    *)
(***************************************************************************)
EXTENDS AlertPipeline, TLAPS, FiniteSetTheorems

(***************************************************************************)
(* The state stays well typed, and the database mutex is held exactly      *)
(* while a clear request is between its two steps (api_server.rs:297-300). *)
(***************************************************************************)
LEMMA InitTypeOK == Init => TypeOK
  BY BoundsAssumption, CallersAssumption
  DEF Init, TypeOK, FireTypeOK, ApiTypeOK, SinkTypeOK, HistTypeOK, NoAlert, Held, Row

LEMMA RowTypes ==
  ASSUME NEW r \in Row
  PROVE  [r EXCEPT !.ack = TRUE] \in Row /\ r.n \in Nat
  BY DEF Row

\* The alerts named in a sink are numbers.
LEMMA SinkAlertTypes ==
  ASSUME SinkTypeOK
  PROVE  /\ \A S \in SUBSET rows : {r.n : r \in S} \subseteq Nat
         /\ JsonlAlerts \subseteq Nat
         /\ PushedAlerts \subseteq Nat
         /\ RowAlerts \subseteq Nat
<1>1. \A S \in SUBSET rows : {r.n : r \in S} \subseteq Nat
  BY RowTypes DEF SinkTypeOK
<1>2. JsonlAlerts \subseteq Nat /\ PushedAlerts \subseteq Nat
  BY DEF SinkTypeOK, JsonlAlerts, PushedAlerts, Entry
<1> QED
  BY <1>1, <1>2 DEF RowAlerts

\* One more entry of the file leaves the others where they are.
LEMMA Appended ==
  ASSUME SinkTypeOK, NEW m \in Int, jsonl' = Append(jsonl, m)
  PROVE  /\ DOMAIN jsonl' = DOMAIN jsonl \union {Len(jsonl) + 1}
         /\ \A i \in DOMAIN jsonl : jsonl'[i] = jsonl[i]
         /\ jsonl'[Len(jsonl) + 1] = m
         /\ DOMAIN jsonl = 1..Len(jsonl) /\ Len(jsonl) \in Nat
         /\ Len(jsonl') = Len(jsonl) + 1
         /\ \A i \in DOMAIN jsonl : jsonl[i] \in Int
<1>1. jsonl \in Seq(Int)
  BY DEF SinkTypeOK, Entry, PART
<1> QED
  BY <1>1

\* What a statement applies to is a set of the rows it may apply to.
LEMMA StatementRows == \A S \in SUBSET rows : Statement(S) \subseteq SUBSET rows
  BY DEF Statement

\* Pruning and archiving leave rows of the table, marked at most, and account
\* for those that they delete.
LEMMA MaintainRows ==
  ASSUME TypeOK, NEW a, NEW b, Maintain(a, b)
  PROVE  \E old \in Statement(Outdated(a)) :
           /\ old \subseteq rows
           /\ \A r \in rows' : r \in Row /\ \E q \in rows \ old :
                 r.id = q.id /\ r.n = q.n /\ r.ts = q.ts /\ r.era = q.era
           /\ \A q \in rows \ old : \E r \in rows' :
                 r.id = q.id /\ r.n = q.n /\ r.ts = q.ts /\ r.era = q.era
           /\ deleted' = deleted \union {r.n : r \in old}
<1>1. PICK old \in Statement(Outdated(a)) :
        /\ \E aged \in Statement(Outdated(b)) :
             rows' = {IF r \in aged THEN [r EXCEPT !.ack = TRUE] ELSE r : r \in rows \ old}
        /\ deleted' = deleted \union {r.n : r \in old}
  BY DEF Maintain
<1>2. PICK aged : rows' = {IF r \in aged THEN [r EXCEPT !.ack = TRUE] ELSE r : r \in rows \ old}
  BY <1>1
<1>3. old \subseteq rows
  BY StatementRows DEF Outdated
<1>4. \A q \in rows : LET m == IF q \in aged THEN [q EXCEPT !.ack = TRUE] ELSE q
                      IN  /\ m \in Row
                          /\ m.id = q.id /\ m.n = q.n /\ m.ts = q.ts /\ m.era = q.era
  BY DEF TypeOK, SinkTypeOK, Row
<1> QED
  BY <1>1, <1>2, <1>3, <1>4

LEMMA FireStepsTyped ==
  ASSUME TypeOK, NEW c \in Callers, Sign(c) \/ FireStep(c)
  PROVE  TypeOK'
<1> USE DEF TypeOK, fireVars, sinkVars, histVars, removals, faults, bounds
<1>1. FireTypeOK'
  <2> USE DEF FireTypeOK, Held, Goto
  <2>1. CASE Sign(c)          BY <2>1 DEF Sign
  <2>2. CASE TakeFileLock(c)  BY <2>2 DEF TakeFileLock
  <2>3. CASE WriteLine(c)     BY <2>3 DEF WriteLine, LogFails
  <2>4. CASE WriteNewline(c)  BY <2>4 DEF WriteNewline
  <2>5. CASE PushSse(c)       BY <2>5 DEF PushSse
  <2>6. CASE InsertRow(c)     BY <2>6 DEF InsertRow
  <2>7. CASE Return(c)        BY <2>7 DEF Return
  <2> QED
    BY <2>1, <2>2, <2>3, <2>4, <2>5, <2>6, <2>7 DEF FireStep
<1>2. ApiTypeOK'
  BY DEF ApiTypeOK, FireStep, Sign, TakeFileLock, WriteLine, LogFails, WriteNewline,
         PushSse, InsertRow, Return
<1>3. SinkTypeOK'
  <2>1. cur[c].n \in Nat
    BY DEF FireTypeOK
  <2>2. NewRow(cur[c], clock) \in Row
    BY DEF NewRow, Row, FireTypeOK, SinkTypeOK, HistTypeOK
  <2> USE DEF SinkTypeOK, Entry
  <2>3. CASE WriteLine(c)
    <3>1. CASE jsonl' = Append(jsonl, cur[c].n)
      BY <2>1, <2>3, <3>1 DEF WriteLine, LogFails
    <3>2. CASE jsonl' = Append(jsonl, PART)
      BY <2>3, <3>2 DEF WriteLine, LogFails
    <3>3. CASE jsonl' = jsonl
      BY <2>3, <3>3 DEF WriteLine, LogFails
    <3> QED
      BY <2>3, <3>1, <3>2, <3>3 DEF WriteLine, LogFails
  <2>4. CASE WriteNewline(c)  BY <2>4 DEF WriteNewline, NL
  <2>5. CASE PushSse(c)       BY <2>1, <2>5 DEF PushSse
  <2>6. CASE InsertRow(c)     BY <2>2, <2>6 DEF InsertRow
  <2>7. CASE Sign(c) \/ TakeFileLock(c) \/ Return(c)
    BY <2>7 DEF Sign, TakeFileLock, Return
  <2> QED
    BY <2>3, <2>4, <2>5, <2>6, <2>7 DEF FireStep
<1>4. HistTypeOK'
  <2>1. cur[c].n \in Nat
    BY DEF FireTypeOK
  <2> QED
    BY <2>1 DEF HistTypeOK, FireStep, Sign, TakeFileLock, WriteLine, LogFails,
                WriteNewline, PushSse, InsertRow, Return
<1> QED
  BY <1>1, <1>2, <1>3, <1>4

OtherStep ==
  \/ ClearTable \/ ClearFile \/ Tick \/ SetBack \/ Crash
  \/ \E id \in 1..(nextRowId - 1) : Acknowledge(id)
  \/ \E r \in Retentions, a \in ArchiveAges : Maintain(r, a)

LEMMA OtherStepsTyped ==
  ASSUME TypeOK, OtherStep
  PROVE  TypeOK'
<1> USE DEF TypeOK, fireVars, sinkVars, histVars, removals, faults, bounds
<1>1. FireTypeOK'
  <2> USE DEF FireTypeOK
  <2>1. CASE Crash    BY <2>1 DEF Crash, NoAlert, Held
  <2>2. CASE ~Crash
    BY <2>2 DEF OtherStep, ClearTable, ClearFile, Answered, ClearFileKeeps, Emptied,
                Tick, SetBack, Acknowledge, Maintain, Statement, Outdated, NoAlert,
                Held
  <2> QED
    BY <2>1, <2>2
<1>2. ApiTypeOK'
  BY SinkAlertTypes, CallersAssumption
  DEF ApiTypeOK, OtherStep, ClearTable, ClearFile, Answered, ClearFileKeeps, Emptied,
      Tick, SetBack, Crash, Acknowledge, Maintain, Statement, Outdated
<1>3. SinkTypeOK'
  <2> USE DEF SinkTypeOK
  <2>1. CASE ClearTable    BY <2>1 DEF ClearTable
  <2>2. CASE ClearFile
    <3>1. <<>> \in Seq(Entry)
      OBVIOUS
    <3> QED
      BY <2>2, <3>1 DEF ClearFile, Answered, ClearFileKeeps, Emptied
  <2>3. CASE Crash         BY <2>3 DEF Crash
  <2>4. CASE Tick \/ SetBack  BY <2>4 DEF Tick, SetBack
  <2>5. ASSUME NEW id, Acknowledge(id) PROVE SinkTypeOK'
    BY <2>5, RowTypes DEF Acknowledge
  <2>6. ASSUME NEW r, NEW a, Maintain(r, a) PROVE SinkTypeOK'
    <3>1. \A q \in rows' : q \in Row
      BY <2>6, MaintainRows
    <3> QED
      BY <2>6, <3>1 DEF Maintain
  <2> QED
    BY <2>1, <2>2, <2>3, <2>4, <2>5, <2>6 DEF OtherStep
<1>4. HistTypeOK'
  <2> USE DEF HistTypeOK
  <2>0. JsonlAlerts \subseteq Nat /\ PushedAlerts \subseteq Nat /\ RowAlerts \subseteq Nat
    BY SinkAlertTypes
  <2>1. CASE ClearTable
    <3>1. /\ deleted' \in {deleted, deleted \union RowAlerts}
          /\ clearing' \in {{}, RowAlerts \union done}
          /\ clears' = clears + 1
          /\ UNCHANGED <<done, cleared, truncated, forgotten, unlogged, unstored, torn,
                         setBacks, crashes>>
      BY <2>1 DEF ClearTable
    <3>2. \A S, T : S \subseteq Nat /\ T \subseteq Nat => S \union T \subseteq Nat
      OBVIOUS
    <3>3. deleted' \subseteq Nat /\ clearing' \subseteq Nat
      BY <2>0, <3>1, <3>2
    <3> QED
      BY <3>1, <3>3
  <2>2. CASE ClearFile     BY <2>0, <2>2 DEF ClearFile, Answered, ClearFileKeeps,
                                             Emptied
  <2>3. CASE Crash
    <3>1. /\ forgotten' = forgotten \union PushedAlerts /\ clearing' = {}
          /\ crashes' = crashes + 1
          /\ UNCHANGED <<done, cleared, deleted, truncated, unlogged, unstored, torn,
                         setBacks, clears>>
      BY <2>3 DEF Crash
    <3>2. forgotten' \subseteq Nat
      BY <2>0, <3>1
    <3> QED
      BY <3>1, <3>2
  <2>4. CASE Tick \/ SetBack
    <3>1. /\ setBacks' \in {setBacks, setBacks + 1}
          /\ UNCHANGED <<done, clearing, cleared, deleted, truncated, forgotten,
                         unlogged, unstored, torn, clears, crashes>>
      BY <2>4 DEF Tick, SetBack
    <3> QED
      BY <3>1
  <2>5. ASSUME NEW id, Acknowledge(id) PROVE HistTypeOK'
    BY <2>5 DEF Acknowledge
  <2>6. ASSUME NEW r, NEW a, Maintain(r, a) PROVE HistTypeOK'
    <3>1. PICK old \in SUBSET rows : deleted' = deleted \union {q.n : q \in old}
      BY <2>6, MaintainRows
    <3>2. {q.n : q \in old} \subseteq Nat
      BY SinkAlertTypes
    <3> QED
      BY <2>6, <3>1, <3>2 DEF Maintain
  <2> QED
    BY <2>1, <2>2, <2>3, <2>4, <2>5, <2>6 DEF OtherStep
<1> QED
  BY <1>1, <1>2, <1>3, <1>4

(***************************************************************************)
(* The state stays well typed for any callers, and the database mutex is   *)
(* held by the API thread exactly between the two steps of a clear.        *)
(***************************************************************************)
THEOREM TypeCorrect == Spec => []TypeOK
<1>1. TypeOK /\ [Next]_vars => TypeOK'
  <2> SUFFICES ASSUME TypeOK, [Next]_vars PROVE TypeOK'
    OBVIOUS
  <2>1. CASE UNCHANGED vars
    BY <2>1 DEF vars, TypeOK, FireTypeOK, ApiTypeOK, SinkTypeOK, HistTypeOK,
                fireVars, sinkVars, histVars, removals, faults, bounds
  <2>2. CASE Next
    BY <2>2, FireStepsTyped, OtherStepsTyped DEF Next, OtherStep
  <2> QED
    BY <2>1, <2>2
<1> QED
  BY <1>1, InitTypeOK, PTL DEF Spec
(***************************************************************************)
(* The JSONL file, the event stream and the table keep the alerts in the   *)
(* same order, whatever the callers, the clears, the retention, the faults *)
(* and the restarts (alert.rs:91-110).                                     *)
(***************************************************************************)
LEMMA InitOrder == Init => OrderInv
  BY CallersAssumption
  DEF Init, OrderInv, LockOwner, LatestNumber, SinksBehind, RowIdsUsed, SinkOrder,
      FileOrder, PushOrder, RowOrder, Held

LEMMA OwnerKept ==
  ASSUME TypeOK, OrderInv, [Next]_vars
  PROVE  LockOwner' /\ LatestNumber'
<1> USE CallersAssumption
    DEF TypeOK, FireTypeOK, OrderInv, LockOwner, LatestNumber, Held
<1>1. ASSUME NEW c \in Callers, Sign(c) \/ FireStep(c)
      PROVE  LockOwner' /\ LatestNumber'
  <2>1. CASE Sign(c)          BY <2>1 DEF Sign, Goto
  <2>2. CASE TakeFileLock(c)  BY <2>2 DEF TakeFileLock, Goto
  <2>3. CASE WriteLine(c)     BY <2>3 DEF WriteLine, LogFails, Goto
  <2>4. CASE WriteNewline(c)  BY <2>4 DEF WriteNewline, Goto
  <2>5. CASE PushSse(c)       BY <2>5 DEF PushSse, Goto
  <2>6. CASE InsertRow(c)     BY <2>6 DEF InsertRow, Goto
  <2>7. CASE Return(c)        BY <2>7 DEF Return, Goto
  <2> QED
    BY <1>1, <2>1, <2>2, <2>3, <2>4, <2>5, <2>6, <2>7 DEF FireStep
<1>2. CASE OtherStep
  <2>1. CASE Crash
    BY <2>1 DEF Crash
  <2>2. CASE ~ Crash
    <3>1. UNCHANGED <<pc, cur, fileLock, tickets>>
      BY <1>2, <2>2 DEF OtherStep, ClearTable, ClearFile, Answered, ClearFileKeeps,
                        Emptied, Tick, SetBack, Acknowledge, Maintain, Statement,
                        Outdated, fireVars
    <3> QED
      BY <3>1
  <2> QED
    BY <2>1, <2>2
<1>3. CASE UNCHANGED vars
  BY <1>3 DEF vars, fireVars
<1> QED
  BY <1>1, <1>2, <1>3 DEF Next, OtherStep
LEMMA FileStep ==
  ASSUME TypeOK, OrderInv, NEW c \in Callers, WriteLine(c) \/ WriteNewline(c)
  PROVE  SinksBehind' /\ SinkOrder' /\ RowIdsUsed'
<1> USE DEF OrderInv
<1>1. SinkTypeOK /\ FireTypeOK
  BY DEF TypeOK
<1>2. /\ pc[c] \in {"line", "newline"} /\ cur[c].n = tickets /\ tickets \in Nat \ {0}
      /\ \A d \in Callers \ {c} : pc[d] \notin Held
  BY <1>1 DEF LockOwner, LatestNumber, WriteLine, LogFails, WriteNewline, Held,
              FireTypeOK
<1>3. PICK place \in {"newline", "sse"} : pc' = [pc EXCEPT ![c] = place]
  BY DEF WriteLine, LogFails, WriteNewline, Goto
<1>4. /\ pc'[c] \in {"newline", "sse"}
      /\ \A d \in Callers \ {c} : pc'[d] \notin Held
  BY <1>1, <1>2, <1>3 DEF FireTypeOK
<1>5. UNCHANGED <<pushed, rows, nextRowId, tickets>>
  BY DEF WriteLine, LogFails, WriteNewline
<1>6. PICK m \in Int : /\ jsonl' = jsonl \/ jsonl' = Append(jsonl, m)
                       /\ \/ m \in {NL, PART}
                          \/ m = tickets /\ \A i \in DOMAIN jsonl : jsonl[i] < m
  <2>1. NL \in Int /\ PART \in Int
    BY DEF NL, PART
  <2>2. CASE WriteNewline(c)
    BY <2>1, <2>2 DEF WriteNewline
  <2>3. CASE WriteLine(c)
    <3>1. jsonl' \in {jsonl, Append(jsonl, tickets), Append(jsonl, PART)}
      BY <1>2, <2>3 DEF WriteLine, LogFails
    <3>2. \A i \in DOMAIN jsonl : jsonl[i] < tickets
      BY <2>3 DEF WriteLine, SinksBehind, Ahead
    <3>3. CASE jsonl' = Append(jsonl, tickets)
      <4>1. tickets \in Int
        BY <1>2
      <4> QED
        BY <4>1, <3>2, <3>3, Zenon
    <3>4. CASE jsonl' \in {jsonl, Append(jsonl, PART)}
      BY <2>1, <3>4
    <3> QED
      BY <3>1, <3>3, <3>4
  <2> QED
    BY <2>2, <2>3
<1>7. /\ \A i \in DOMAIN jsonl' : jsonl'[i] <= tickets
      /\ FileOrder'
  <2>1. /\ \A i \in DOMAIN jsonl : jsonl[i] <= tickets
        /\ FileOrder
    BY <1>1 DEF SinksBehind, Ahead, SinkOrder
  <2>2. CASE jsonl' = jsonl
    BY <1>5, <2>1, <2>2 DEF FileOrder
  <2>3. CASE jsonl' = Append(jsonl, m)
    <3>1. /\ DOMAIN jsonl' = DOMAIN jsonl \union {Len(jsonl) + 1}
          /\ \A i \in DOMAIN jsonl : jsonl'[i] = jsonl[i]
          /\ jsonl'[Len(jsonl) + 1] = m
          /\ DOMAIN jsonl = 1..Len(jsonl) /\ Len(jsonl) \in Nat
      BY <1>1, <2>3, Appended
    <3>2. m <= tickets
      BY <1>2, <1>6 DEF NL, PART
    <3>3. \A i \in DOMAIN jsonl' : jsonl'[i] <= tickets
      BY <2>1, <3>1, <3>2
    <3>4. FileOrder'
      BY <1>6, <2>1, <3>1 DEF FileOrder, NL, PART
    <3> QED
      BY <3>3, <3>4
  <2> QED
    BY <1>6, <2>2, <2>3
<1>8. SinksBehind'
  BY <1>2, <1>4, <1>5, <1>7 DEF SinksBehind, Ahead, Held
<1> QED
  BY <1>5, <1>7, <1>8 DEF SinkOrder, PushOrder, RowOrder, RowIdsUsed
LEMMA PushStep ==
  ASSUME TypeOK, OrderInv, NEW c \in Callers, PushSse(c)
  PROVE  SinksBehind' /\ SinkOrder' /\ RowIdsUsed'
<1> USE DEF OrderInv
<1>1. SinkTypeOK /\ FireTypeOK
  BY DEF TypeOK
<1>2. /\ pc[c] = "sse" /\ cur[c].n = tickets /\ tickets \in Nat
      /\ \A d \in Callers \ {c} : pc[d] \notin Held
  BY <1>1 DEF LockOwner, LatestNumber, PushSse, Held, FireTypeOK
<1>3. /\ pc'[c] = "db"
      /\ \A d \in Callers \ {c} : pc'[d] \notin Held
      /\ UNCHANGED <<jsonl, rows, nextRowId, tickets>>
  BY <1>1, <1>2 DEF PushSse, Goto, FireTypeOK
<1>4. /\ DOMAIN pushed' = DOMAIN pushed \union {Len(pushed) + 1}
      /\ \A i \in DOMAIN pushed : pushed'[i] = pushed[i]
      /\ pushed'[Len(pushed) + 1] = tickets
      /\ DOMAIN pushed = 1..Len(pushed) /\ Len(pushed) \in Nat
      /\ pushed \in Seq(Nat)
  BY <1>1, <1>2 DEF PushSse, SinkTypeOK
<1>5. \A i \in DOMAIN pushed : pushed[i] < tickets
  BY <1>2 DEF SinksBehind, Ahead
<1>6. PushOrder'
  BY <1>4, <1>5 DEF SinkOrder, PushOrder
<1>7. \A i \in DOMAIN pushed' : pushed'[i] <= tickets
  BY <1>2, <1>4, <1>5
<1>8. SinksBehind'
  BY <1>2, <1>3, <1>7 DEF SinksBehind, Ahead, Held
<1> QED
  BY <1>3, <1>6, <1>8 DEF SinkOrder, FileOrder, RowOrder, RowIdsUsed

LEMMA RowStep ==
  ASSUME TypeOK, OrderInv, NEW c \in Callers, InsertRow(c)
  PROVE  SinksBehind' /\ SinkOrder' /\ RowIdsUsed'
<1> USE DEF OrderInv
<1>1. SinkTypeOK /\ FireTypeOK
  BY DEF TypeOK
<1>2. /\ pc[c] = "db" /\ cur[c].n = tickets /\ tickets \in Nat
      /\ \A d \in Callers \ {c} : pc[d] \notin Held
  BY <1>1 DEF LockOwner, LatestNumber, InsertRow, Held, FireTypeOK
<1>3. /\ pc'[c] = "return"
      /\ \A d \in Callers \ {c} : pc'[d] \notin Held
      /\ UNCHANGED <<jsonl, pushed, tickets>>
  BY <1>1, <1>2 DEF InsertRow, Goto, FireTypeOK
<1>4. \/ UNCHANGED <<rows, nextRowId>>
      \/ /\ nextRowId' = nextRowId + 1
         /\ \A r \in rows' : r \in rows \/ (r.id = nextRowId /\ r.n = tickets)
  BY <1>2 DEF InsertRow, NewRow
<1>5. /\ nextRowId \in Nat
      /\ \A r \in rows : r.n < tickets /\ r.id < nextRowId /\ r.n \in Nat /\ r.id \in Nat
  BY <1>1, <1>2 DEF SinksBehind, Ahead, RowIdsUsed, SinkTypeOK, Row
<1>6. RowOrder' /\ RowIdsUsed'
  BY <1>2, <1>4, <1>5 DEF SinkOrder, RowOrder, RowIdsUsed
<1>7. \A r \in rows' : r.n <= tickets
  BY <1>2, <1>4, <1>5
<1>8. SinksBehind'
  BY <1>2, <1>3, <1>7 DEF SinksBehind, Ahead, Held
<1> QED
  BY <1>3, <1>6, <1>8 DEF SinkOrder, FileOrder, PushOrder

LEMMA LockStep ==
  ASSUME TypeOK, OrderInv, NEW c \in Callers,
         Sign(c) \/ TakeFileLock(c) \/ Return(c)
  PROVE  SinksBehind' /\ SinkOrder' /\ RowIdsUsed'
<1> USE DEF OrderInv
<1>1. SinkTypeOK /\ FireTypeOK
  BY DEF TypeOK
<1>2. UNCHANGED <<jsonl, pushed, rows, nextRowId>>
  BY DEF Sign, TakeFileLock, Return, sinkVars
<1>3. /\ \A i \in DOMAIN jsonl : jsonl[i] \in Int /\ jsonl[i] <= tickets
      /\ \A i \in DOMAIN pushed : pushed[i] \in Nat /\ pushed[i] <= tickets
      /\ \A r \in rows : r.n \in Nat /\ r.n <= tickets
      /\ tickets \in Nat
  <2>1. \A r \in rows : r.n \in Nat
    BY <1>1, RowTypes DEF SinkTypeOK
  <2>2. jsonl \in Seq(Int) /\ pushed \in Seq(Nat) /\ tickets \in Nat
    BY <1>1 DEF SinkTypeOK, FireTypeOK, Entry, PART
  <2> QED
    BY <2>1, <2>2 DEF SinksBehind, Ahead
<1>4. SinksBehind'
  <2>1. CASE TakeFileLock(c)
    BY <1>2, <1>3, <2>1 DEF TakeFileLock, SinksBehind, Ahead
  <2>2. CASE Sign(c) \/ Return(c)
    <3>1. /\ tickets' = tickets /\ pc'[c] \notin Held
          /\ \A d \in Callers \ {c} : pc'[d] = pc[d]
      BY <1>1, <2>2 DEF Sign, Return, Goto, FireTypeOK, Held
    <3> QED
      BY <1>2, <1>3, <3>1 DEF SinksBehind, Ahead, Held
  <2> QED
    BY <2>1, <2>2
<1> QED
  BY <1>2, <1>4 DEF SinkOrder, FileOrder, PushOrder, RowOrder, RowIdsUsed

\* Acknowledging and archiving change neither the id, the alert nor the time
\* of a row.
LEMMA RowsOnlyMarked ==
  ASSUME TypeOK, OtherStep \/ UNCHANGED vars
  PROVE  \A r \in rows' : \E q \in rows :
           r.id = q.id /\ r.n = q.n /\ r.ts = q.ts /\ r.era = q.era
<1> DEFINE Same(r, q) == r.id = q.id /\ r.n = q.n /\ r.ts = q.ts /\ r.era = q.era
           Marked == \A r \in rows' : \E q \in rows : Same(r, q)
<1>1. \A q \in rows : Same([q EXCEPT !.ack = TRUE], q)
  BY DEF TypeOK, SinkTypeOK, Row
<1>2. ASSUME NEW id, Acknowledge(id) PROVE Marked
  BY <1>1, <1>2 DEF Acknowledge
<1>3. ASSUME NEW a, NEW b, Maintain(a, b) PROVE Marked
  BY <1>3, MaintainRows
<1>4. CASE rows' \in {rows, {}}
  BY <1>4
<1> QED
  BY <1>2, <1>3, <1>4 DEF OtherStep, ClearTable, ClearFile, ClearFileKeeps, Tick,
                          SetBack, Crash, sinkVars, vars

LEMMA OtherStepOrder ==
  ASSUME TypeOK, OrderInv, OtherStep \/ UNCHANGED vars
  PROVE  SinksBehind' /\ SinkOrder' /\ RowIdsUsed'
<1> USE DEF OrderInv
<1>1. UNCHANGED <<tickets, nextRowId>>
  BY DEF OtherStep, ClearTable, ClearFile, Answered, ClearFileKeeps, Emptied, Tick,
         SetBack, Crash, Acknowledge, Maintain, Statement, Outdated, sinkVars, vars
<1>2. /\ UNCHANGED jsonl \/ jsonl' = <<>>
      /\ UNCHANGED pushed \/ pushed' = <<>>
  BY DEF OtherStep, ClearTable, ClearFile, Answered, ClearFileKeeps, Emptied, Tick,
         SetBack, Crash, Acknowledge, Maintain, Statement, Outdated, sinkVars, vars
<1>3. \A r \in rows' : \E q \in rows : r.id = q.id /\ r.n = q.n
  BY RowsOnlyMarked
<1>4. \A c \in Callers : pc'[c] \in Held => pc'[c] = pc[c]
  <2>1. CASE Crash
    BY <2>1 DEF Crash, Held
  <2>2. CASE ~ Crash
    BY <2>2 DEF OtherStep, ClearTable, ClearFile, Answered, ClearFileKeeps, Emptied,
                Tick, SetBack, Acknowledge, Maintain, Statement, Outdated, fireVars,
                vars
  <2> QED
    BY <2>1, <2>2
<1>5. SinksBehind'
  BY <1>1, <1>2, <1>3, <1>4 DEF SinksBehind, Ahead, Held
<1> QED
  BY <1>1, <1>2, <1>3, <1>5
  DEF SinkOrder, FileOrder, PushOrder, RowOrder, RowIdsUsed

LEMMA OrderInvariant == Spec => []OrderInv
<1>1. TypeOK /\ OrderInv /\ [Next]_vars => OrderInv'
  BY OwnerKept, FileStep, PushStep, RowStep, LockStep, OtherStepOrder
  DEF Next, FireStep, OtherStep, OrderInv
<1> QED
  BY <1>1, InitOrder, TypeCorrect, PTL DEF Spec

(***************************************************************************)
(* No interleaving of fire calls puts two alerts in one order in a sink    *)
(* and in the other order in another (alert.rs:91-110).                    *)
(***************************************************************************)
THEOREM SinksAgree == Spec => []SinkOrder
<1>1. OrderInv => SinkOrder
  BY DEF OrderInv
<1> QED
  BY <1>1, OrderInvariant, PTL
(***************************************************************************)
(* An alert that both halves of a clear request removed is not served      *)
(* again (api_server.rs:292-309), although clear does not take             *)
(* ALERT_FILE_LOCK and the handler falls back from the table to the file.  *)
(***************************************************************************)
LEMMA InitClear == Init => ClearInv
  BY DEF Init, ClearInv, WrittenOnce, TableStaysCleared, FileStaysCleared, RowAlerts

LEMMA FireKeepsClear ==
  ASSUME TypeOK, OrderInv, ClearInv, NEW c \in Callers, Sign(c) \/ FireStep(c)
  PROVE  ClearInv'
<1> USE DEF ClearInv
<1> DEFINE Before == {"line", "newline", "sse", "db"}
<1>1. FireTypeOK /\ SinkTypeOK /\ HistTypeOK
  BY DEF TypeOK
<1>2. /\ tickets \in Nat
      /\ \A d \in Callers \ {c} : pc[c] \in Held => pc[d] \notin Held
      /\ pc[c] \in Held => cur[c].n = tickets
      /\ pc[c] \in Before => \A n \in done \union cleared \union clearing : n < tickets
      /\ \A n \in done \union cleared \union clearing : n \in Nat /\ n <= tickets
  BY <1>1 DEF OrderInv, LockOwner, LatestNumber, WrittenOnce, Ahead, FireTypeOK,
              HistTypeOK, Held
<1>3. UNCHANGED <<cleared, clearing>>
  BY DEF FireStep, Sign, TakeFileLock, WriteLine, LogFails, WriteNewline, PushSse,
         InsertRow, Return, histVars, removals, faults, bounds
<1>4. WrittenOnce'
  <2>1. CASE TakeFileLock(c)
    BY <1>2, <2>1 DEF TakeFileLock, histVars, removals, faults, bounds, WrittenOnce,
                      Ahead
  <2>2. CASE Return(c)
    <3>1. done' = done \union {tickets} /\ tickets' = tickets
      BY <1>2, <2>2 DEF Return, Held
    <3>2. \A d \in Callers : pc'[d] \notin Before
      BY <1>1, <1>2, <2>2 DEF Return, Goto, Held, FireTypeOK
    <3> QED
      BY <1>2, <1>3, <3>1, <3>2 DEF WrittenOnce, Ahead
  <2>3. CASE Sign(c) \/ WriteLine(c) \/ WriteNewline(c) \/ PushSse(c) \/ InsertRow(c)
    <3>1. UNCHANGED <<done, cleared, clearing, tickets>>
      BY <2>3 DEF Sign, WriteLine, LogFails, WriteNewline, PushSse, InsertRow, histVars,
                  removals, faults, bounds
    <3>2. \A d \in Callers : pc'[d] \in Before => pc[d] \in Before
      BY <1>1, <2>3 DEF Sign, WriteLine, LogFails, WriteNewline, PushSse, InsertRow,
                        Goto, FireTypeOK
    <3> QED
      BY <3>1, <3>2 DEF WrittenOnce, Ahead
  <2> QED
    BY <2>1, <2>2, <2>3 DEF FireStep
<1>5. TableStaysCleared'
  <2>1. CASE InsertRow(c)
    BY <1>2, <1>3, <2>1 DEF InsertRow, NewRow, TableStaysCleared, RowAlerts,
                            Held
  <2>2. CASE ~ InsertRow(c)
    <3>1. UNCHANGED rows
      BY <2>2 DEF FireStep, Sign, TakeFileLock, WriteLine, LogFails, WriteNewline,
                  PushSse, Return, sinkVars
    <3> QED
      BY <1>3, <3>1 DEF TableStaysCleared, RowAlerts
  <2> QED
    BY <2>1, <2>2
<1>6. JsonlAlerts' \subseteq JsonlAlerts \union {tickets}
      /\ (pc[c] # "line" => JsonlAlerts' \subseteq JsonlAlerts)
  <2>1. \/ jsonl' = jsonl
        \/ jsonl' = Append(jsonl, NL) \/ jsonl' = Append(jsonl, PART)
        \/ pc[c] = "line" /\ jsonl' = Append(jsonl, tickets)
    BY <1>2 DEF FireStep, Sign, TakeFileLock, WriteLine, LogFails, WriteNewline,
                PushSse, InsertRow, Return, sinkVars, Held
  <2>2. CASE jsonl' = jsonl
    BY <2>2 DEF JsonlAlerts
  <2>3. ASSUME NEW m \in Int, jsonl' = Append(jsonl, m)
        PROVE  JsonlAlerts' \subseteq JsonlAlerts \union ({m} \ {NL, PART})
    <3>1. /\ DOMAIN jsonl' = DOMAIN jsonl \union {Len(jsonl) + 1}
          /\ \A i \in DOMAIN jsonl : jsonl'[i] = jsonl[i]
          /\ jsonl'[Len(jsonl) + 1] = m
      BY <1>1, <2>3, Appended
    <3> QED
      BY <3>1 DEF JsonlAlerts
  <2>4. NL \in Int /\ PART \in Int /\ tickets \in Int
    BY <1>2 DEF NL, PART
  <2> QED
    BY <2>1, <2>2, <2>3, <2>4
<1>7. FileStaysCleared'
  BY <1>2, <1>3, <1>6 DEF FileStaysCleared
<1> QED
  BY <1>4, <1>5, <1>7
LEMMA OtherKeepsClear ==
  ASSUME TypeOK, OrderInv, ClearInv, OtherStep \/ UNCHANGED vars
  PROVE  ClearInv'
<1> USE DEF ClearInv
<1> DEFINE Before == {"line", "newline", "sse", "db"}
<1>1. HistTypeOK /\ FireTypeOK /\ ApiTypeOK
  BY DEF TypeOK
<1>2. /\ UNCHANGED <<tickets, done>>
      /\ \A c \in Callers : pc'[c] \in Before => pc[c] \in Before
  <2>1. CASE Crash
    BY <2>1 DEF Crash
  <2>2. CASE ~ Crash
    BY <2>2 DEF OtherStep, ClearTable, ClearFile, Answered, ClearFileKeeps, Emptied,
                Tick, SetBack, Acknowledge, Maintain, Statement, Outdated, fireVars,
                histVars, removals, faults, bounds, vars
  <2> QED
    BY <2>1, <2>2
<1>3. \A c \in Callers, n \in RowAlerts : Ahead(c, Before, n)
  BY DEF OrderInv, SinksBehind, RowAlerts
<1>4. /\ clearing' \subseteq clearing \union RowAlerts \union done
      /\ cleared' \subseteq cleared \union clearing
  BY DEF OtherStep, ClearTable, ClearFile, Answered, ClearFileKeeps, Emptied, Tick,
         SetBack, Crash, Acknowledge, Maintain, histVars, removals, vars
<1>5. WrittenOnce'
  BY <1>2, <1>3, <1>4 DEF WrittenOnce, Ahead
<1>6. TableStaysCleared'
  <2>1. RowAlerts' \subseteq RowAlerts
    BY RowsOnlyMarked DEF RowAlerts
  <2>2. CASE rows' = {}
    BY <2>2 DEF TableStaysCleared, RowAlerts
  <2>3. CASE clearing' \subseteq clearing
    BY <1>4, <2>1, <2>3 DEF TableStaysCleared
  <2> QED
    BY <2>2, <2>3 DEF OtherStep, ClearTable, ClearFile, Answered, Tick, SetBack, Crash,
                      Acknowledge, Maintain, histVars, removals, vars
<1>7. FileStaysCleared'
  <2>1. CASE jsonl' = <<>>
    BY <2>1 DEF FileStaysCleared, JsonlAlerts
  <2>2. CASE UNCHANGED <<jsonl, cleared>>
    BY <2>2 DEF FileStaysCleared, JsonlAlerts
  <2> QED
    BY <2>1, <2>2 DEF OtherStep, ClearTable, ClearFile, Emptied, Tick, SetBack, Crash,
                      Acknowledge, Maintain, sinkVars, histVars, removals, vars
<1> QED
  BY <1>5, <1>6, <1>7

(***************************************************************************)
(* What a clear request removed from the table and from the file, because  *)
(* neither half failed, GET /api/alerts never serves again from either,    *)
(* for any callers and any later faults (api_server.rs:292-309).           *)
(***************************************************************************)
THEOREM ClearIsFinal == Spec => []ClearedStaysCleared
<1>1. TypeOK /\ OrderInv /\ ClearInv /\ [Next]_vars => ClearInv'
  BY FireKeepsClear, OtherKeepsClear DEF Next, OtherStep
<1>2. ClearInv => ClearedStaysCleared
  BY DEF ClearInv, TableStaysCleared, FileStaysCleared, ClearedStaysCleared, Served
<1> QED
  BY <1>1, <1>2, InitClear, TypeCorrect, OrderInvariant, PTL DEF Spec

(***************************************************************************)
(* Row ids and row timestamps agree as long as the clock is not set back   *)
(* (db.rs:98-104): a row is stamped while the database mutex is held, so   *)
(* retention by timestamp removes the rows that came first.                *)
(***************************************************************************)
LEMMA TimesStep ==
  ASSUME TypeOK, OrderInv, RowTimesInv, [Next]_vars
  PROVE  RowTimesInv'
<1>1. /\ clock \in Nat /\ nextRowId \in Nat /\ setBacks \in Nat
      /\ \A r \in rows : r.id \in Nat /\ r.ts \in Nat /\ r.era \in Nat
  BY DEF TypeOK, FireTypeOK, SinkTypeOK, HistTypeOK, Row
<1>2. \/ setBacks' = setBacks /\ clock' \in {clock, clock + 1}
      \/ setBacks' = setBacks + 1
  BY DEF Next, FireStep, Sign, TakeFileLock, WriteLine, WriteNewline, PushSse,
         InsertRow, Return, ClearTable, ClearFile, ClearFileKeeps, Acknowledge,
         Maintain, Tick, SetBack, Crash, histVars, bounds, vars
<1>3. ASSUME NEW c \in Callers, InsertRow(c)
      PROVE  RowTimesInv'
  <2>1. /\ clock' = clock /\ setBacks' = setBacks
        /\ \A r \in rows' :
             r \in rows \/ (r.id = nextRowId /\ r.ts = clock /\ r.era = setBacks)
    BY <1>3 DEF InsertRow, NewRow, bounds
  <2>2. \A r \in rows : r.id < nextRowId
    BY DEF OrderInv, RowIdsUsed
  <2>3. \A r \in rows : r.era <= setBacks /\ (r.era = setBacks => r.ts <= clock)
    BY DEF RowTimesInv
  <2>4. RowTimesFollowIds'
    BY <1>1, <2>1, <2>2, <2>3 DEF RowTimesInv, RowTimesFollowIds
  <2>5. \A r \in rows' : r.era <= setBacks' /\ (r.era = setBacks' => r.ts <= clock')
    BY <1>1, <2>1, <2>3
  <2>6. RowIdsNameRows'
    BY <1>1, <2>1, <2>2 DEF RowTimesInv, RowIdsNameRows
  <2> QED
    BY <2>4, <2>5, <2>6 DEF RowTimesInv
<1>4. ASSUME \A r \in rows' : \E q \in rows : r.id = q.id /\ r.ts = q.ts /\ r.era = q.era
      PROVE  RowTimesInv'
  <2>1. RowTimesFollowIds' /\ RowIdsNameRows'
    BY <1>4 DEF RowTimesInv, RowTimesFollowIds, RowIdsNameRows
  <2>2. ASSUME NEW r \in rows'
        PROVE  r.era <= setBacks' /\ (r.era = setBacks' => r.ts <= clock')
    <3>1. PICK q \in rows : r.id = q.id /\ r.ts = q.ts /\ r.era = q.era
      BY <1>4
    <3>2. q.era <= setBacks /\ (q.era = setBacks => q.ts <= clock)
      BY DEF RowTimesInv
    <3> QED
      BY <1>1, <1>2, <3>1, <3>2
  <2> QED
    BY <2>1, <2>2 DEF RowTimesInv
<1>5. ASSUME NEW c \in Callers, Sign(c) \/ FireStep(c), ~ InsertRow(c)
      PROVE  rows' = rows
  BY <1>5 DEF FireStep, Sign, TakeFileLock, WriteLine, LogFails, WriteNewline, PushSse,
              Return, sinkVars
<1>6. CASE OtherStep \/ UNCHANGED vars
  BY <1>4, <1>6, RowsOnlyMarked
<1> QED
  BY <1>3, <1>4, <1>5, <1>6 DEF Next, FireStep, OtherStep

LEMMA TimesInvariant == Spec => []RowTimesInv
<1>1. Init => RowTimesInv
  BY DEF Init, RowTimesInv, RowTimesFollowIds, RowIdsNameRows
<1> QED
  BY <1>1, TimesStep, TypeCorrect, OrderInvariant, PTL DEF Spec

\* Retention deletes the rows whose time is before its cutoff, or none.
LEMMA RetentionGoesByAge ==
  ASSUME TypeOK, RowTimesInv, NEW a \in Nat, NEW b, Maintain(a, b),
         NEW r \in rows, NEW s \in rows, r.id < s.id, r.era = s.era, Kept(r)
  PROVE  Kept(s)
<1>1. PICK old \in Statement(Outdated(a)) :
        /\ \A p \in rows' : \E q \in rows \ old : p.id = q.id
        /\ \A q \in rows \ old : \E p \in rows' : p.id = q.id
  BY MaintainRows
<1>2. PICK q \in rows \ old : q.id = r.id
  BY <1>1 DEF Kept
<1>3. q.ts <= s.ts /\ q.ts \in Nat /\ s.ts \in Nat /\ clock \in Nat
  BY <1>2 DEF RowTimesInv, RowTimesFollowIds, RowIdsNameRows, TypeOK, SinkTypeOK,
              FireTypeOK, Row
<1>4. s \notin old
  <2>1. CASE old = Outdated(a)
    <3>1. ~ OlderThan(a, q)
      BY <1>2, <2>1 DEF Outdated
    <3>2. ~ OlderThan(a, s)
      BY <1>3, <3>1 DEF OlderThan
    <3> QED
      BY <2>1, <3>2 DEF Outdated
  <2>2. CASE old = {}
    BY <2>2
  <2> QED
    BY <1>1, <2>1, <2>2 DEF Statement
<1> QED
  BY <1>1, <1>4 DEF Kept

(***************************************************************************)
(* Retention, which goes by time, never keeps an alert older than one it   *)
(* deletes, unless the clock was set back between the two                  *)
(* (db.rs:98-104, 237-244).                                                *)
(***************************************************************************)
THEOREM OldestGo == Spec => OldestGoFirst
<1> DEFINE InOrder == \A r, s \in rows :
             r.id < s.id /\ r.era = s.era /\ Kept(r) => Kept(s)
<1>1. TypeOK /\ RowTimesInv /\ [Next]_vars => [InOrder]_vars
  <2> SUFFICES ASSUME TypeOK, RowTimesInv, [Next]_vars PROVE InOrder
    OBVIOUS
  <2>1. CASE rows' = {}
    BY <2>1 DEF Kept
  <2>2. CASE \A q \in rows : \E p \in rows' : p.id = q.id
    BY <2>2 DEF Kept
  <2>3. ASSUME NEW c \in Callers, Sign(c) \/ FireStep(c)
        PROVE  rows \subseteq rows'
    BY <2>3 DEF FireStep, Sign, TakeFileLock, WriteLine, WriteNewline, PushSse,
                InsertRow, Return, sinkVars
  <2>4. ASSUME NEW id, Acknowledge(id)
        PROVE  \A q \in rows : \E p \in rows' : p.id = q.id
    <3>1. \A q \in rows : [q EXCEPT !.ack = TRUE].id = q.id
      BY DEF TypeOK, SinkTypeOK, Row
    <3> QED
      BY <2>4, <3>1 DEF Acknowledge
  <2>5. ASSUME NEW a \in Retentions, NEW b \in ArchiveAges, Maintain(a, b)
        PROVE  InOrder
    BY <2>5, AgesAssumption, RetentionGoesByAge
  <2>6. CASE OtherStep \/ UNCHANGED vars
    BY <2>1, <2>2, <2>4, <2>5, <2>6
    DEF OtherStep, ClearTable, ClearFile, ClearFileKeeps, Tick, SetBack, Crash,
        sinkVars, vars
  <2> QED
    BY <2>2, <2>3, <2>6 DEF Next, OtherStep
<1> QED
  BY <1>1, TimesInvariant, TypeCorrect, PTL DEF Spec, OldestGoFirst

(***************************************************************************)
(* An alert whose fire call returned is in every sink whose own write of   *)
(* it did not fail, or was removed from it by a clear, by retention or by  *)
(* a restart (alert.rs:92-110).                                            *)
(***************************************************************************)
\* No step loses an alert from a sink without accounting for it.
LEMMA JsonlAlertsAppend ==
  ASSUME SinkTypeOK, NEW m \in Int, jsonl' = Append(jsonl, m)
  PROVE  /\ JsonlAlerts \subseteq JsonlAlerts'
         /\ m \notin {NL, PART} => m \in JsonlAlerts'
  BY Appended DEF JsonlAlerts

\* What a step of fire does to the file.
LEMMA FireWrites ==
  ASSUME TypeOK, NEW c \in Callers, Sign(c) \/ FireStep(c)
  PROVE  \/ jsonl' = jsonl
         \/ \E m \in Int : jsonl' = Append(jsonl, m)
<1>1. cur[c].n \in Int /\ NL \in Int /\ PART \in Int
  BY DEF TypeOK, FireTypeOK, NL, PART
<1>2. jsonl' \in {jsonl, Append(jsonl, cur[c].n), Append(jsonl, NL), Append(jsonl, PART)}
  BY DEF FireStep, Sign, TakeFileLock, WriteLine, LogFails, WriteNewline, PushSse,
         InsertRow, Return, sinkVars
<1> QED
  BY <1>1, <1>2

LEMMA PushedAlertsAppend ==
  ASSUME pushed \in Seq(Nat), NEW m \in Nat, pushed' = Append(pushed, m)
  PROVE  PushedAlerts' = PushedAlerts \union {m}
<1>1. /\ DOMAIN pushed' = DOMAIN pushed \union {Len(pushed) + 1}
      /\ \A i \in DOMAIN pushed : pushed'[i] = pushed[i]
      /\ pushed'[Len(pushed) + 1] = m
  OBVIOUS
<1> QED
  BY <1>1 DEF PushedAlerts

LEMMA FireKeepsSinks ==
  ASSUME TypeOK, NEW c \in Callers, Sign(c) \/ FireStep(c)
  PROVE  OnStream \subseteq OnStream' /\ InTable \subseteq InTable' /\ InFile \subseteq InFile'
<1>1. SinkTypeOK /\ cur[c].n \in Nat
  BY DEF TypeOK, FireTypeOK
<1>2. /\ UNCHANGED <<deleted, truncated, forgotten>>
      /\ unlogged \subseteq unlogged' /\ unstored \subseteq unstored'
  BY DEF FireStep, Sign, TakeFileLock, WriteLine, LogFails, WriteNewline, PushSse,
         InsertRow, Return, histVars, removals, faults, bounds
<1>3. JsonlAlerts \subseteq JsonlAlerts'
  <2>1. CASE jsonl' = jsonl
    BY <2>1 DEF JsonlAlerts
  <2>2. ASSUME NEW m \in Int, jsonl' = Append(jsonl, m)
        PROVE  JsonlAlerts \subseteq JsonlAlerts'
    BY <1>1, <2>2, JsonlAlertsAppend
  <2> QED
    BY <2>1, <2>2, FireWrites
<1>4. PushedAlerts \subseteq PushedAlerts'
  <2>1. CASE PushSse(c)
    BY <1>1, <2>1, PushedAlertsAppend DEF PushSse, SinkTypeOK
  <2>2. CASE pushed' = pushed
    BY <2>2 DEF PushedAlerts
  <2> QED
    BY <2>1, <2>2 DEF FireStep, Sign, TakeFileLock, WriteLine, LogFails, WriteNewline,
                      InsertRow, Return, sinkVars
<1>5. rows \subseteq rows'
  BY DEF FireStep, Sign, TakeFileLock, WriteLine, LogFails, WriteNewline, PushSse,
         InsertRow, Return, sinkVars
<1> QED
  BY <1>2, <1>3, <1>4, <1>5 DEF OnStream, InTable, InFile, RowAlerts

LEMMA OtherKeepsSinks ==
  ASSUME TypeOK, OtherStep \/ UNCHANGED vars
  PROVE  OnStream \subseteq OnStream' /\ InTable \subseteq InTable' /\ InFile \subseteq InFile'
<1>1. OnStream \subseteq OnStream'
  <2>1. CASE Crash
    BY <2>1 DEF Crash, OnStream
  <2>2. CASE ~ Crash
    BY <2>2 DEF OtherStep, ClearTable, ClearFile, Answered, ClearFileKeeps, Emptied,
                Tick, SetBack, Acknowledge, Maintain, Statement, Outdated, sinkVars,
                histVars, removals, faults, bounds, vars, OnStream, PushedAlerts
  <2> QED
    BY <2>1, <2>2
<1>2. InFile \subseteq InFile'
  <2>1. CASE ClearFile
    BY <2>1 DEF ClearFile, Answered, ClearFileKeeps, Emptied, InFile, JsonlAlerts,
                faults
  <2>2. CASE ~ ClearFile
    BY <2>2 DEF OtherStep, ClearTable, Crash, Tick, SetBack, Acknowledge, Maintain,
                Statement, Outdated, sinkVars, histVars, removals, faults, bounds,
                vars, InFile, JsonlAlerts
  <2> QED
    BY <2>1, <2>2
<1>3. InTable \subseteq InTable'
  <2>1. unstored' = unstored
    BY DEF OtherStep, ClearTable, ClearFile, ClearFileKeeps, Tick, SetBack, Crash,
           Acknowledge, Maintain, histVars, faults, vars
  <2>2. CASE ClearTable
    BY <2>1, <2>2 DEF ClearTable, InTable, RowAlerts
  <2>3. ASSUME NEW id, Acknowledge(id) PROVE InTable \subseteq InTable'
    <3>1. \A q \in rows : [q EXCEPT !.ack = TRUE].n = q.n
      BY DEF TypeOK, SinkTypeOK, Row
    <3>2. \A q \in rows : \E r \in rows' : r.n = q.n
      BY <2>3, <3>1 DEF Acknowledge
    <3>3. deleted' = deleted
      BY <2>3 DEF Acknowledge, histVars, removals
    <3> QED
      BY <2>1, <3>2, <3>3 DEF InTable, RowAlerts
  <2>4. ASSUME NEW a, NEW b, Maintain(a, b) PROVE InTable \subseteq InTable'
    <3>1. PICK old : /\ deleted' = deleted \union {r.n : r \in old}
                     /\ \A q \in rows \ old : \E r \in rows' : r.n = q.n
      BY <2>4, MaintainRows
    <3> QED
      BY <2>1, <3>1 DEF InTable, RowAlerts
  <2>5. CASE UNCHANGED <<rows, deleted>>
    BY <2>1, <2>5 DEF InTable, RowAlerts
  <2> QED
    BY <2>2, <2>3, <2>4, <2>5
    DEF OtherStep, ClearFile, ClearFileKeeps, Tick, SetBack, Crash, sinkVars,
        histVars, removals, vars
<1> QED
  BY <1>1, <1>2, <1>3

LEMMA FireDelivers ==
  ASSUME TypeOK, OrderInv, DeliveryInv, NEW c \in Callers, Sign(c) \/ FireStep(c)
  PROVE  DeliveryInv'
<1> USE DEF DeliveryInv
<1>1. /\ FireTypeOK /\ SinkTypeOK
      /\ \A d \in Callers \ {c} : pc[c] \in Held => pc[d] \notin Held
      /\ pc[c] \in Held => cur[c].n \in Int \ {NL, PART} /\ cur[c].n \in Nat
  BY DEF TypeOK, FireTypeOK, OrderInv, LockOwner, LatestNumber, NL, PART
<1>2. OnStream \subseteq OnStream' /\ InTable \subseteq InTable' /\ InFile \subseteq InFile'
  BY FireKeepsSinks
<1>3. \A d \in Callers \ {c} : pc'[d] = pc[d] /\ cur'[d] = cur[d]
  BY <1>1 DEF FireTypeOK, FireStep, Sign, TakeFileLock, WriteLine, LogFails,
              WriteNewline, PushSse, InsertRow, Return, Goto
<1>4. /\ pc'[c] \in {"db", "return"} => cur'[c].n \in OnStream'
      /\ pc'[c] = "return" => cur'[c].n \in InTable'
      /\ pc'[c] \in Held \ {"line"} => cur'[c].n \in InFile'
  <2>1. CASE Sign(c) \/ TakeFileLock(c) \/ Return(c)
    BY <1>1, <2>1 DEF Sign, TakeFileLock, Return, Goto, FireTypeOK, Held
  <2>2. CASE WriteLine(c)
    <3>1. pc'[c] \in {"newline", "sse"} /\ cur' = cur /\ pc[c] = "line"
      BY <1>1, <2>2 DEF WriteLine, LogFails, Goto, FireTypeOK
    <3>2. jsonl' = Append(jsonl, cur[c].n) \/ cur[c].n \in unlogged'
      BY <2>2 DEF WriteLine, LogFails
    <3>3. jsonl' = Append(jsonl, cur[c].n) => cur[c].n \in JsonlAlerts'
      BY <1>1, <3>1, JsonlAlertsAppend DEF Held
    <3> QED
      BY <3>1, <3>2, <3>3 DEF InFile
  <2>3. CASE WriteNewline(c)
    BY <1>1, <1>2, <2>3 DEF WriteNewline, Goto, FireTypeOK, ReachedSinks, Held
  <2>4. CASE PushSse(c)
    <3>1. pc'[c] = "db" /\ cur' = cur /\ pc[c] = "sse"
      BY <1>1, <2>4 DEF PushSse, Goto, FireTypeOK
    <3>2. cur[c].n \in PushedAlerts'
      BY <1>1, <2>4, <3>1, PushedAlertsAppend DEF PushSse, SinkTypeOK, Held
    <3> QED
      BY <1>2, <3>1, <3>2 DEF OnStream, ReachedSinks, Held
  <2>5. CASE InsertRow(c)
    <3>1. pc'[c] = "return" /\ cur' = cur /\ pc[c] = "db"
      BY <1>1, <2>5 DEF InsertRow, Goto, FireTypeOK
    <3>2. NewRow(cur[c], clock) \in rows' \/ cur[c].n \in unstored'
      BY <2>5 DEF InsertRow
    <3>3. NewRow(cur[c], clock).n = cur[c].n
      BY DEF NewRow
    <3>4. cur[c].n \in RowAlerts' \/ cur[c].n \in unstored'
      BY <3>2, <3>3 DEF RowAlerts
    <3> QED
      BY <1>2, <3>1, <3>4 DEF InTable, ReachedSinks, Held
  <2> QED
    BY <2>1, <2>2, <2>3, <2>4, <2>5 DEF FireStep
<1>5. ReachedSinks'
  BY <1>2, <1>3, <1>4 DEF ReachedSinks
<1>6. \A n \in done' : n \in done \/ (pc[c] = "return" /\ n = cur[c].n)
  BY DEF FireStep, Sign, TakeFileLock, WriteLine, LogFails, WriteNewline, PushSse,
         InsertRow, Return, histVars, removals, faults, bounds
<1>7. DeliveredDespiteFaults'
  BY <1>2, <1>6 DEF DeliveredDespiteFaults, ReachedSinks, Held
<1> QED
  BY <1>5, <1>7

LEMMA OtherDelivers ==
  ASSUME TypeOK, DeliveryInv, OtherStep \/ UNCHANGED vars
  PROVE  DeliveryInv'
<1>1. OnStream \subseteq OnStream' /\ InTable \subseteq InTable' /\ InFile \subseteq InFile'
  BY OtherKeepsSinks
<1>2. /\ done' = done
      /\ \/ UNCHANGED <<pc, cur>>
         \/ \A c \in Callers : pc'[c] = "idle"
  BY DEF OtherStep, ClearTable, ClearFile, Answered, ClearFileKeeps, Emptied, Tick,
         SetBack, Crash, Acknowledge, Maintain, Statement, Outdated, fireVars,
         histVars, removals, faults, bounds, vars
<1> QED
  BY <1>1, <1>2 DEF DeliveryInv, ReachedSinks, DeliveredDespiteFaults, Held

(***************************************************************************)
(* When fire returns, each sink whose own write of the alert did not fail  *)
(* was given it, for any callers and any faults (alert.rs:92-110).         *)
(***************************************************************************)
THEOREM AlertsDelivered == Spec => []DeliveredDespiteFaults
<1>1. Init => DeliveryInv
  BY DEF Init, DeliveryInv, ReachedSinks, DeliveredDespiteFaults, Held
<1>2. TypeOK /\ OrderInv /\ DeliveryInv /\ [Next]_vars => DeliveryInv'
  BY FireDelivers, OtherDelivers DEF Next, OtherStep
<1>3. DeliveryInv => DeliveredDespiteFaults
  BY DEF DeliveryInv
<1> QED
  BY <1>1, <1>2, <1>3, TypeCorrect, OrderInvariant, PTL DEF Spec

(***************************************************************************)
(* Two records share a line of the JSONL file at most once per crash and   *)
(* failed write that left a line open (alert.rs:93), whatever the callers  *)
(* and the clear requests do.                                              *)
(***************************************************************************)
LEMMA GluedFinite ==
  ASSUME SinkTypeOK
  PROVE  IsFiniteSet(Glued) /\ Cardinality(Glued) \in Nat
<1>1. Len(jsonl) \in Nat
  BY DEF SinkTypeOK
<1>2. Glued \in SUBSET (1..(Len(jsonl) - 1))
  BY DEF Glued
<1>3. IsFiniteSet(1..(Len(jsonl) - 1))
  BY <1>1, FS_Interval
<1>4. IsFiniteSet(Glued)
  BY <1>2, <1>3, FS_Subset
<1> QED
  BY <1>4, FS_CardinalityType

\* One more entry glues at most one pair: the last two entries, if neither is
\* a newline.
LEMMA GluedAppend ==
  ASSUME SinkTypeOK, NEW m \in Int, jsonl' = Append(jsonl, m)
  PROVE  /\ m = NL \/ jsonl = <<>> \/ jsonl[Len(jsonl)] = NL => Glued' = Glued
         /\ Cardinality(Glued') \in 0..(Cardinality(Glued) + 1)
<1> DEFINE n == Len(jsonl)
<1>1. /\ n \in Nat /\ Len(jsonl') = n + 1
      /\ \A i \in 1..n : jsonl'[i] = jsonl[i]
      /\ jsonl'[n + 1] = m
      /\ jsonl = <<>> <=> n = 0
  BY Appended DEF SinkTypeOK
<1>2. Glued' = {i \in 1..n : jsonl'[i] # NL /\ jsonl'[i + 1] # NL}
  BY <1>1 DEF Glued
<1> HIDE DEF n
<1>3. \A i : i \in Glued' <=>
        i \in Glued \/ (i = n /\ n # 0 /\ jsonl[n] # NL /\ m # NL)
  <2>1. \A i \in 1..(n - 1) : jsonl'[i] = jsonl[i] /\ jsonl'[i + 1] = jsonl[i + 1]
    BY <1>1
  <2>2. \A i : i \in 1..n <=> i \in 1..(n - 1) \/ (n # 0 /\ i = n)
    BY <1>1
  <2>3. n # 0 => jsonl'[n] = jsonl[n]
    BY <1>1
  <2>4. Glued = {i \in 1..(n - 1) : jsonl[i] # NL /\ jsonl[i + 1] # NL}
    BY DEF Glued, n
  <2> QED
    BY <1>1, <1>2, <2>1, <2>2, <2>3, <2>4
<1>4. m = NL \/ jsonl = <<>> \/ jsonl[n] = NL => Glued' = Glued
  BY <1>1, <1>3
<1>5. Cardinality(Glued') \in 0..(Cardinality(Glued) + 1)
  <2>1. Cardinality(Glued) \in Nat /\ IsFiniteSet(Glued)
    BY GluedFinite
  <2>2. CASE Glued' = Glued
    BY <2>1, <2>2
  <2>3. CASE Glued' = Glued \union {n}
    <3>1. Cardinality(Glued \union {n}) = IF n \in Glued THEN Cardinality(Glued)
                                                       ELSE Cardinality(Glued) + 1
      BY <2>1, FS_AddElement
    <3> QED
      BY <2>1, <2>3, <3>1
  <2> QED
    BY <1>3, <2>2, <2>3
<1> QED
  BY <1>4, <1>5 DEF n

LEMMA FireKeepsLines ==
  ASSUME TypeOK, OrderInv, LineInv, NEW c \in Callers, Sign(c) \/ FireStep(c)
  PROVE  LineInv'
<1>1. /\ SinkTypeOK /\ FireTypeOK /\ crashes \in Nat /\ crashes' = crashes
      /\ torn \in Nat /\ cur[c].n \in Int /\ NL \in Int /\ PART \in Int
      /\ \A d \in Callers \ {c} : pc[c] \in Held => pc[d] \notin Held
      /\ \A d \in Callers \ {c} : pc'[d] = pc[d]
  BY DEF TypeOK, HistTypeOK, FireTypeOK, OrderInv, LockOwner, FireStep, Sign,
         TakeFileLock, WriteLine, LogFails, WriteNewline, PushSse, InsertRow, Return,
         Goto, histVars, bounds, NL, PART
<1>2. Cardinality(Glued) \in Nat
  BY <1>1, GluedFinite
<1>3. CASE WriteLine(c) /\ jsonl' # jsonl
  <2>1. /\ pc[c] = "line"
        /\ \/ jsonl' = Append(jsonl, cur[c].n) /\ pc'[c] = "newline" /\ torn' = torn
           \/ jsonl' = Append(jsonl, PART) /\ torn' = torn + 1
    BY <1>1, <1>3 DEF WriteLine, LogFails, Goto, FireTypeOK
  <2>2. \A d \in Callers : pc[d] # "newline"
    BY <1>1, <2>1 DEF Held
  <2>3. Cardinality(Glued') \in 0..(Cardinality(Glued) + 1)
    BY <1>1, <2>1, GluedAppend
  <2>4. ~ LineLeftOpen => Glued' = Glued
    <3>1. ~ LineLeftOpen => jsonl = <<>> \/ jsonl[Len(jsonl)] = NL
      BY <2>2 DEF LineLeftOpen
    <3> QED
      BY <1>1, <2>1, <3>1, GluedAppend
  <2>5. torn' = torn => ~ LineLeftOpen'
    BY <1>1, <2>1 DEF LineLeftOpen
  <2>6. torn' \in {torn, torn + 1}
    BY <2>1
  <2> QED
    BY <1>1, <1>2, <2>3, <2>4, <2>5, <2>6 DEF LineInv
<1>4. CASE WriteNewline(c) /\ jsonl' = Append(jsonl, NL)
  <2>1. Glued' = Glued
    BY <1>1, <1>4, GluedAppend
  <2>2. jsonl'[Len(jsonl')] = NL
    BY <1>1, <1>4, Appended
  <2>3. ~ LineLeftOpen'
    BY <2>2 DEF LineLeftOpen
  <2>4. torn' \in {torn, torn + 1}
    BY <1>4 DEF WriteNewline
  <2> QED
    BY <1>1, <1>2, <2>1, <2>3, <2>4 DEF LineInv
<1>5. CASE WriteNewline(c) /\ jsonl' = jsonl /\ torn' = torn + 1
  <2>1. Glued' = Glued
    BY <1>5 DEF Glued
  <2>2. pc[c] = "newline"
    BY <1>5 DEF WriteNewline
  <2>3. ~ LineLeftOpen
    BY <2>2 DEF LineLeftOpen
  <2> QED
    BY <1>1, <1>2, <1>5, <2>1, <2>3 DEF LineInv
<1>6. CASE jsonl' = jsonl /\ ~ WriteNewline(c)
  <2>1. pc[c] # "newline" /\ torn' \in {torn, torn + 1}
    BY <1>6 DEF FireStep, Sign, TakeFileLock, WriteLine, LogFails, PushSse, InsertRow,
                Return, histVars, faults
  <2>2. Glued' = Glued /\ (LineLeftOpen' => LineLeftOpen)
    BY <1>1, <1>6, <2>1 DEF Glued, LineLeftOpen
  <2> QED
    BY <1>1, <1>2, <2>1, <2>2 DEF LineInv
<1> QED
  BY <1>3, <1>4, <1>5, <1>6 DEF FireStep, Sign, TakeFileLock, WriteLine, LogFails,
                                WriteNewline, PushSse, InsertRow, Return, sinkVars

LEMMA OtherKeepsLines ==
  ASSUME TypeOK, LineInv, OtherStep \/ UNCHANGED vars
  PROVE  LineInv'
<1>1. SinkTypeOK /\ crashes \in Nat /\ torn \in Nat
  BY DEF TypeOK, HistTypeOK
<1>2. Cardinality(Glued) \in Nat
  BY <1>1, GluedFinite
<1>3. torn' = torn /\ (crashes' = crashes \/ (Crash /\ crashes' = crashes + 1))
  BY DEF OtherStep, ClearTable, ClearFile, ClearFileKeeps, Tick, SetBack, Crash,
         Acknowledge, Maintain, histVars, faults, bounds, vars
<1>4. CASE jsonl' = <<>>
  <2>1. Glued' = {} /\ ~ LineLeftOpen'
    BY <1>4 DEF Glued, LineLeftOpen
  <2> QED
    BY <1>1, <1>3, <2>1, FS_EmptySet DEF LineInv
<1>5. CASE Crash
  <2>1. Glued' = Glued /\ crashes' = crashes + 1
    BY <1>5 DEF Crash, Glued
  <2> QED
    BY <1>1, <1>2, <1>3, <2>1 DEF LineInv
<1>6. CASE ~ Crash /\ jsonl' = jsonl
  <2>1. UNCHANGED <<jsonl, pc>>
    BY <1>6 DEF OtherStep, ClearTable, ClearFile, ClearFileKeeps, Tick, SetBack,
                Acknowledge, Maintain, fireVars, vars
  <2>2. Glued' = Glued /\ (LineLeftOpen' <=> LineLeftOpen)
    BY <2>1 DEF Glued, LineLeftOpen
  <2> QED
    BY <1>1, <1>2, <1>3, <1>6, <2>1, <2>2 DEF LineInv
<1> QED
  BY <1>4, <1>5, <1>6 DEF OtherStep, ClearTable, ClearFile, Emptied, Tick, SetBack,
                          Acknowledge, Maintain, sinkVars, vars

(***************************************************************************)
(* Concurrent fire calls never share a line of the JSONL file; only a      *)
(* crash or a failed write can glue two, and each at most one pair         *)
(* (alert.rs:92-94).                                                       *)
(***************************************************************************)
THEOREM LinesWhole == Spec => []LinesStayWhole
<1>1. Init => LineInv
  <2> SUFFICES ASSUME Init PROVE LineInv
    OBVIOUS
  <2>1. Glued = {} /\ ~ LineLeftOpen /\ crashes = 0 /\ torn = 0
    BY DEF Init, Glued, LineLeftOpen
  <2> QED
    BY <2>1, FS_EmptySet DEF LineInv
<1>2. TypeOK /\ OrderInv /\ LineInv /\ [Next]_vars => LineInv'
  BY FireKeepsLines, OtherKeepsLines DEF Next, OtherStep
<1>3. TypeOK /\ LineInv => LinesStayWhole
  <2> SUFFICES ASSUME TypeOK, LineInv PROVE LinesStayWhole
    OBVIOUS
  <2>1. Cardinality(Glued) \in Nat /\ crashes \in Nat /\ torn \in Nat
    BY GluedFinite DEF TypeOK, HistTypeOK
  <2> QED
    BY <2>1 DEF LineInv, LinesStayWhole
<1> QED
  BY <1>1, <1>2, <1>3, TypeCorrect, OrderInvariant, PTL DEF Spec

============================================================================
