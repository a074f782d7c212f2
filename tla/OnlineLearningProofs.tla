------------------------ MODULE OnlineLearningProofs ------------------------
(***************************************************************************)
(* Theorems about OnlineLearning, for any trainers, samples, threshold and *)
(* number of faults.                                                       *)
(***************************************************************************)
EXTENDS OnlineLearning, TLAPS

Runs == [at : Steps \union {"idle"}, file : Files, batch : SUBSET Samples,
         rows : SUBSET Samples, copy : SUBSET Samples, mixed : BOOLEAN]

FileStates == [state : {"absent", "broken", "good"}, of : SUBSET Samples]

LEMMA ConstantTypes == /\ Idle \in Runs /\ Absent \in FileStates /\ Broken \in FileStates
                       /\ \A S \in SUBSET Samples : Fitted(S) \in FileStates
BY DEF Idle, Runs, Steps, Files, Absent, Broken, Fitted, FileStates

LEMMA AfterType ==
  ASSUME NEW r \in Runs, r.at = "dump"
  PROVE  [After(r) EXCEPT !.mixed = FALSE] \in Runs
<1> SUFFICES After(r) \in Runs
  BY DEF Runs
<1>1. CASE r.file = "backup" BY <1>1 DEF After, Runs, Steps, Files
<1>2. CASE r.file = "model" BY <1>2 DEF After, Runs, Steps, Files
<1>3. CASE r.file = "forest" BY <1>3 DEF After, Runs, Steps, Files
<1>4. CASE r.file = "scaler" BY <1>4, ConstantTypes DEF After
<1> QED BY <1>1, <1>2, <1>3, <1>4 DEF Runs, Files

LEMMA ResultType ==
  ASSUME NEW r \in Runs, files \in [Files -> FileStates]
  PROVE  Result(r) \subseteq FileStates
<1>1. Content(r) \in SUBSET Samples /\ r.file \in Files
  BY DEF Content, Runs
<1>2. Fitted(Content(r)) \in FileStates /\ files[r.file] \in FileStates
  BY <1>1, ConstantTypes
<1> QED BY <1>2, ConstantTypes DEF Result

\* Open touches what a trainer does only in whether it writes, and alone.
LEMMA OpenStep ==
  ASSUME NEW t \in Trainers, Open(t), run \in [Trainers -> Runs]
  PROVE  /\ run[t].at = "open" /\ run' \in [Trainers -> Runs]
         /\ run'[t] = [run[t] EXCEPT !.at = "dump", !.mixed = (Writers(run[t].file) # {})]
         /\ \A u \in Trainers \ {t} : \/ run'[u] = run[u]
                                      \/ /\ run[u].at = "dump" /\ run[u].file = run[t].file
                                         /\ run'[u] = [run[u] EXCEPT !.mixed = TRUE]
<1> DEFINE opened == [run[t] EXCEPT !.at = "dump", !.mixed = (Writers(run[t].file) # {})]
           marked(u) == [run[u] EXCEPT !.mixed = TRUE]
<1>1. opened \in Runs
  <2>1. (Writers(run[t].file) # {}) \in BOOLEAN
    OBVIOUS
  <2> HIDE DEF Writers
  <2> QED BY <2>1 DEF Runs, Steps
<1>2. \A u \in Trainers : marked(u) \in Runs
  BY DEF Runs
<1>3. run' = [u \in Trainers |-> IF u = t THEN opened
                               ELSE IF u \in Writers(run[t].file) THEN marked(u) ELSE run[u]]
  BY DEF Open
<1>4. run[t].at = "open"
  BY DEF Open
<1> HIDE DEF opened, marked
<1>5. run' \in [Trainers -> Runs]
  BY <1>1, <1>2, <1>3
<1>6. run'[t] = opened
  BY <1>3
<1>7. ASSUME NEW u \in Trainers \ {t}
      PROVE  \/ run'[u] = run[u]
             \/ run[u].at = "dump" /\ run[u].file = run[t].file /\ run'[u] = marked(u)
  BY <1>3, <1>7 DEF Writers
<1> QED BY <1>4, <1>5, <1>6, <1>7 DEF opened, marked

LEMMA TypeInit == Init => TypeOK
<1> SUFFICES ASSUME Init PROVE TypeOK
  OBVIOUS
<1>1. files \in [Files -> FileStates]
  BY ConstantTypes DEF Init
<1>2. run \in [Trainers -> Runs]
  BY ConstantTypes DEF Init
<1> QED BY <1>1, <1>2 DEF Init, TypeOK, Runs, FileStates

LEMMA TypeStep == TypeOK /\ [Next]_vars => TypeOK'
<1> SUFFICES ASSUME TypeOK, [Next]_vars PROVE TypeOK'
  OBVIOUS
<1>0. /\ run \in [Trainers -> Runs] /\ files \in [Files -> FileStates]
      /\ pending \subseteq Samples /\ used \subseteq Samples /\ pending \intersect used = {}
      /\ learned \subseteq Samples /\ garbled \subseteq Samples
      /\ served \in BOOLEAN /\ overlap \in BOOLEAN /\ faults \in Nat
  BY DEF TypeOK, Runs, FileStates
<1> SUFFICES /\ run' \in [Trainers -> Runs] /\ files' \in [Files -> FileStates]
             /\ pending' \subseteq Samples /\ used' \subseteq Samples
             /\ pending' \intersect used' = {}
             /\ learned' \subseteq Samples /\ garbled' \subseteq Samples
             /\ served' \in BOOLEAN /\ overlap' \in BOOLEAN /\ faults' \in Nat
  BY DEF TypeOK, Runs, FileStates
<1>1. ASSUME NEW s \in Samples, Confirm(s)
      PROVE  /\ pending' \subseteq Samples /\ pending' \intersect used' = {}
             /\ UNCHANGED <<used, files, run, learned, garbled, served, overlap, faults>>
  BY <1>0, <1>1 DEF Confirm
<1>2. ASSUME NEW t \in Trainers, NEW forced \in BOOLEAN, Begin(t, forced)
      PROVE  /\ run' \in [Trainers -> Runs] /\ overlap' \in BOOLEAN
             /\ UNCHANGED <<pending, used, files, learned, garbled, served, faults>>
  <2>1. [Idle EXCEPT !.at = "backup", !.batch = pending, !.rows = Rows] \in Runs
    BY <1>0 DEF Idle, Runs, Steps, Files, Rows
  <2> QED BY <1>0, <1>2, <2>1 DEF Begin
<1>3. ASSUME NEW t \in Trainers, BackUp(t)
      PROVE  /\ run' \in [Trainers -> Runs]
             /\ UNCHANGED <<pending, used, files, learned, garbled, served, overlap, faults>>
  <2>1. files["model"] \in FileStates /\ run[t] \in Runs
    BY <1>0 DEF Files
  <2>2. /\ [run[t] EXCEPT !.at = "open", !.file = "model"] \in Runs
        /\ [run[t] EXCEPT !.at = "open", !.file = "backup", !.copy = files["model"].of] \in Runs
    BY <2>1 DEF Runs, FileStates, Steps, Files
  <2>3. \/ run' = [run EXCEPT ![t] = [run[t] EXCEPT !.at = "open", !.file = "model"]]
        \/ run' = [run EXCEPT ![t] = Idle]
        \/ run' = [run EXCEPT ![t] = [run[t] EXCEPT !.at = "open", !.file = "backup",
                                                    !.copy = files["model"].of]]
    BY <1>0, <1>3 DEF BackUp
  <2> QED BY <1>0, <1>3, <2>2, <2>3, ConstantTypes DEF BackUp
<1>4. ASSUME NEW t \in Trainers, Open(t)
      PROVE  /\ run' \in [Trainers -> Runs] /\ files' \in [Files -> FileStates]
             /\ UNCHANGED <<pending, used, learned, garbled, served, overlap, faults>>
  <2>1. run' \in [Trainers -> Runs]
    BY <1>0, <1>4, OpenStep
  <2>2. files' = [files EXCEPT ![run[t].file] = Broken]
    BY <1>4 DEF Open
  <2>3. UNCHANGED <<pending, used, learned, garbled, served, overlap, faults>>
    BY <1>4 DEF Open
  <2> QED BY <1>0, <2>1, <2>2, <2>3, ConstantTypes
<1>5. ASSUME NEW t \in Trainers, Dump(t)
      PROVE  /\ run' \in [Trainers -> Runs] /\ files' \in [Files -> FileStates]
             /\ learned' \subseteq Samples /\ garbled' \subseteq Samples /\ served' \in BOOLEAN
             /\ UNCHANGED <<pending, used, overlap, faults>>
  <2>1. run[t] \in Runs /\ run[t].at = "dump" /\ run[t].rows \subseteq Samples
    BY <1>0, <1>5 DEF Dump, Runs
  <2>2. [After(run[t]) EXCEPT !.mixed = FALSE] \in Runs
    BY <2>1, AfterType
  <2>3. PICK result \in FileStates : files' = [files EXCEPT ![run[t].file] = result]
    BY <1>0, <1>5, <2>1, ResultType DEF Dump
  <2>4. learned' \subseteq Samples /\ garbled' \subseteq Samples /\ served' \in BOOLEAN
    BY <1>0, <1>5, <2>1 DEF Dump
  <2>5. /\ run' = [run EXCEPT ![t] = [After(run[t]) EXCEPT !.mixed = FALSE]]
        /\ UNCHANGED <<pending, used, overlap, faults>>
    BY <1>5 DEF Dump
  <2> QED BY <1>0, <2>2, <2>3, <2>4, <2>5
<1>6. ASSUME NEW t \in Trainers, Mark(t)
      PROVE  /\ run' \in [Trainers -> Runs]
             /\ pending' \subseteq Samples /\ used' \subseteq Samples
             /\ pending' \intersect used' = {}
             /\ UNCHANGED <<files, learned, garbled, served, overlap, faults>>
  <2>1. run[t].batch \subseteq Samples /\ OnlyForest \in Runs
    BY <1>0, ConstantTypes DEF Runs, Steps, Files, OnlyForest
  <2>2. run' = [run EXCEPT ![t] = OnlyForest]
    BY <1>6 DEF Mark
  <2> QED BY <1>0, <1>6, <2>1, <2>2 DEF Mark
<1>7. ASSUME NEW t \in Trainers, MarkFails(t) \/ Crash(t)
      PROVE  /\ run' \in [Trainers -> Runs] /\ faults' \in Nat
             /\ UNCHANGED <<pending, used, files, learned, garbled, served, overlap>>
  BY <1>0, <1>7, ConstantTypes DEF MarkFails, Crash
<1> QED BY <1>0, <1>1, <1>2, <1>3, <1>4, <1>5, <1>6, <1>7 DEF Next, GoesOn, vars

(***************************************************************************)
(* The state stays well typed, and no row is both pending and used.        *)
(***************************************************************************)
THEOREM TypeCorrect == Spec => []TypeOK
BY TypeInit, TypeStep, PTL DEF Spec

----------------------------------------------------------------------------
(* What was read at the beginning of a call is what was fitted and what is *)
(* marked: the rows of a call are its batch without what is skipped, and   *)
(* when the batch is about to be marked they are learned, or two trainers  *)
(* wrote the model at once.                                                *)
Learned(r) == r.at = "mark" => r.rows \subseteq learned \union garbled
BatchInv == \A t \in Trainers : run[t].rows = run[t].batch \ Unusable /\ Learned(run[t])

UsedInv == UsedWasLearned /\ BatchInv

LEMMA UsedStep == TypeOK /\ UsedInv /\ [Next]_vars => UsedInv'
<1> SUFFICES ASSUME TypeOK, UsedInv, [Next]_vars PROVE UsedInv'
  OBVIOUS
<1>0. /\ run \in [Trainers -> Runs] /\ pending \subseteq Samples
      /\ used \subseteq learned \union Unusable \union garbled
  BY DEF TypeOK, Runs, UsedInv, UsedWasLearned
<1> DEFINE good(r) == r.rows = r.batch \ Unusable
           fitted(r) == r.at = "mark" => r.rows \subseteq learned' \union garbled'
           Goal == /\ used' \subseteq learned' \union Unusable \union garbled'
                   /\ \A u \in Trainers : good(run'[u]) /\ fitted(run'[u])
<1>r. \A u \in Trainers : good(run[u]) /\ Learned(run[u])
  BY DEF UsedInv, BatchInv
<1> SUFFICES Goal
  BY DEF UsedInv, UsedWasLearned, BatchInv, Learned
<1>k. CASE UNCHANGED <<used, run, learned, garbled>>
  BY <1>0, <1>r, <1>k DEF Learned
<1>i. good(Idle) /\ Idle.at # "mark"
  BY DEF Idle
\* A step that gives one trainer a record with the invariant, and takes
\* nothing from what is learned.
<1>s. ASSUME NEW t \in Trainers, NEW r, run' = [run EXCEPT ![t] = r], good(r), fitted(r),
             learned \subseteq learned', garbled \subseteq garbled',
             used' \subseteq learned' \union Unusable \union garbled'
      PROVE  Goal
  <2> SUFFICES ASSUME NEW u \in Trainers PROVE good(run'[u]) /\ fitted(run'[u])
    BY <1>s
  <2>1. CASE u = t BY <1>0, <1>s, <2>1
  <2>2. CASE u # t
    <3>1. run'[u] = run[u] BY <1>0, <1>s, <2>2
    <3> QED BY <1>r, <1>s, <3>1 DEF Learned
  <2> QED BY <2>1, <2>2
<1>1. ASSUME NEW s \in Samples, Confirm(s) PROVE Goal
  BY <1>k, <1>1 DEF Confirm
<1>2. ASSUME NEW t \in Trainers, NEW forced \in BOOLEAN, Begin(t, forced) PROVE Goal
  <2> DEFINE r == [Idle EXCEPT !.at = "backup", !.batch = pending, !.rows = Rows]
  <2>1. good(r) /\ fitted(r)
    BY DEF Idle, Rows
  <2>2. run' = [run EXCEPT ![t] = r] /\ UNCHANGED <<used, learned, garbled>>
    BY <1>2 DEF Begin
  <2> HIDE DEF r, good, fitted
  <2> QED BY <1>0, <1>s, <2>1, <2>2
<1>3. ASSUME NEW t \in Trainers, BackUp(t) \/ MarkFails(t) \/ Crash(t) PROVE Goal
  <2>0. UNCHANGED <<used, learned, garbled>>
    BY <1>3 DEF BackUp, MarkFails, Crash
  <2>1. run[t] \in Runs /\ good(run[t])
    BY <1>0, <1>r
  <2> DEFINE model == [run[t] EXCEPT !.at = "open", !.file = "model"]
             backup == [run[t] EXCEPT !.at = "open", !.file = "backup",
                                      !.copy = files["model"].of]
  <2>2. \A r \in {model, backup, Idle} : good(r) /\ r.at # "mark"
    BY <2>1, <1>i DEF Runs
  <2>3. \E r \in {model, backup, Idle} : run' = [run EXCEPT ![t] = r]
    BY <1>0, <1>3 DEF BackUp, MarkFails, Crash
  <2> HIDE DEF model, backup, good
  <2>4. PICK r \in {model, backup, Idle} : run' = [run EXCEPT ![t] = r]
    BY <2>3
  <2>5. good(r) /\ fitted(r)
    BY <2>2
  <2> HIDE DEF fitted
  <2> QED BY <1>0, <1>s, <2>0, <2>4, <2>5
<1>o. ASSUME NEW t \in Trainers, Open(t) PROVE Goal
  <2>1. UNCHANGED <<used, learned, garbled>>
    BY <1>o DEF Open
  <2> SUFFICES ASSUME NEW u \in Trainers PROVE good(run'[u]) /\ fitted(run'[u])
    BY <1>0, <2>1
  <2>2. run[u] \in Runs /\ run[t] \in Runs /\ good(run[u]) /\ Learned(run[u])
    BY <1>0, <1>r
  <2>3. CASE u = t
    <3>1. run'[t] = [run[t] EXCEPT !.at = "dump", !.mixed = (Writers(run[t].file) # {})]
      BY <1>0, <1>o, OpenStep
    <3> HIDE DEF Writers
    <3> QED BY <2>2, <2>3, <3>1 DEF Runs
  <2>4. CASE u # t
    <3>0. u \in Trainers \ {t}
      BY <2>4
    <3>1. \/ run'[u] = run[u]
          \/ run[u].at = "dump" /\ run'[u] = [run[u] EXCEPT !.mixed = TRUE]
      BY <1>0, <1>o, <3>0, OpenStep
    <3> QED BY <2>1, <2>2, <3>1 DEF Runs, Learned
  <2> QED BY <2>3, <2>4
<1>4. ASSUME NEW t \in Trainers, Dump(t) PROVE Goal
  <2>0. /\ used' = used /\ learned \subseteq learned' /\ garbled \subseteq garbled'
        /\ run' = [run EXCEPT ![t] = [After(run[t]) EXCEPT !.mixed = FALSE]]
    BY <1>4 DEF Dump
  <2>1. run[t] \in Runs /\ good(run[t])
    BY <1>0, <1>r
  <2> DEFINE r == [After(run[t]) EXCEPT !.mixed = FALSE]
  <2>2. good(r) /\ fitted(r)
    <3>1. CASE run[t].file = "model"
      <4>1. run[t].rows \subseteq learned' \union garbled'
        <5>1. CASE run[t].mixed BY <1>4, <3>1, <5>1 DEF Dump
        <5>2. CASE ~run[t].mixed
          BY <1>4, <2>1, <3>1, <5>2 DEF Dump, Result, Content
        <5> QED BY <5>1, <5>2
      <4>2. r.rows = run[t].rows /\ r.batch = run[t].batch
        BY <2>1, <3>1 DEF After, Runs
      <4> QED BY <2>1, <4>1, <4>2
    <3>2. CASE run[t].file # "model"
      <4>1. run[t].file \in {"backup", "forest", "scaler"}
        BY <2>1, <3>2 DEF Runs, Files
      <4>2. good(r) /\ r.at # "mark"
        BY <2>1, <4>1, <1>i DEF After, Runs, Idle
      <4> QED BY <4>2
    <3> QED BY <3>1, <3>2
  <2>3. used' \subseteq learned' \union Unusable \union garbled'
    BY <1>0, <2>0
  <2> HIDE DEF r, good, fitted
  <2>4. run' = [run EXCEPT ![t] = r]
    BY <2>0 DEF r
  <2> QED BY <1>s, <2>0, <2>2, <2>3, <2>4
<1>5. ASSUME NEW t \in Trainers, Mark(t) PROVE Goal
  <2>1. good(run[t]) /\ run[t].rows \subseteq learned \union garbled
    BY <1>r, <1>5 DEF Mark, Learned
  <2>2. good(OnlyForest) /\ fitted(OnlyForest)
    BY DEF OnlyForest, Idle
  <2>3. /\ run' = [run EXCEPT ![t] = OnlyForest] /\ used' = used \union run[t].batch
        /\ learned' = learned /\ garbled' = garbled
    BY <1>5 DEF Mark
  <2>4. run[t].batch \subseteq learned \union garbled \union Unusable
    BY <2>1
  <2>5. used' \subseteq learned' \union Unusable \union garbled'
    BY <1>0, <2>3, <2>4
  <2> HIDE DEF good, fitted
  <2> QED BY <1>s, <2>2, <2>3, <2>5
<1>6. CASE UNCHANGED vars
  BY <1>k, <1>6 DEF vars
<1> HIDE DEF Goal
<1> QED BY <1>1, <1>2, <1>3, <1>o, <1>4, <1>5, <1>6 DEF Next, GoesOn

(***************************************************************************)
(* A sample that is marked as used was in a deployed model that loads, or  *)
(* was skipped, or belongs to a model that two trainers wrote at the same  *)
(* moment, whatever is confirmed while a trainer runs, whichever trainers  *)
(* run at once and wherever they die.                                      *)
(***************************************************************************)
THEOREM UsedLearned == Spec => []UsedWasLearned
<1>1. Init => UsedInv
  BY DEF Init, UsedInv, UsedWasLearned, BatchInv, Learned, Idle
<1>2. UsedInv => UsedWasLearned
  BY DEF UsedInv
<1> QED BY <1>1, <1>2, UsedStep, TypeCorrect, PTL DEF Spec

----------------------------------------------------------------------------
(* As long as no two trainers ran at once: only one is at work; it writes  *)
(* the backup only while the model is good, and the model only while the   *)
(* backup is, once there was a model at all.                               *)
Writes(t, f) == run[t].at \in {"open", "dump"} /\ run[t].file = f

Alone == /\ \A t, u \in Trainers : t # u => run[t].at = "idle" \/ run[u].at = "idle"
         /\ \A t \in Trainers : run[t].mixed = FALSE
ModelKept == \A t \in Trainers : Writes(t, "backup") => files["model"].state = "good"
BackupKept == \A t \in Trainers : Writes(t, "model") /\ served => files["backup"].state = "good"
Loadable == served => \/ files["model"].state = "good"
                      \/ files["model"].state = "broken" /\ files["backup"].state = "good"

SafeInv == ~overlap => Alone /\ ModelKept /\ BackupKept /\ Loadable

LEMMA SafeStep == TypeOK /\ SafeInv /\ [Next]_vars => SafeInv'
<1> SUFFICES ASSUME TypeOK, SafeInv, [Next]_vars, ~overlap'
             PROVE  Alone' /\ ModelKept' /\ BackupKept' /\ Loadable'
  BY DEF SafeInv
<1>0. /\ run \in [Trainers -> Runs] /\ files \in [Files -> FileStates]
      /\ served \in BOOLEAN /\ overlap \in BOOLEAN
  BY DEF TypeOK, Runs, FileStates
<1>a. ~overlap
  BY <1>0 DEF Next, GoesOn, Confirm, Begin, BackUp, Open, Dump, Mark, MarkFails, Crash, vars
<1>i. Alone /\ ModelKept /\ BackupKept /\ Loadable
  BY <1>a DEF SafeInv
<1>f. "model" \in Files /\ "backup" \in Files /\ files["model"] \in FileStates
  BY <1>0 DEF Files
<1>c. Idle.at = "idle" /\ Idle.mixed = FALSE
  BY DEF Idle
\* A step of the only trainer at work.
<1>s. ASSUME NEW t \in Trainers, NEW r, run' = [run EXCEPT ![t] = r],
             \A u \in Trainers \ {t} : run[u].at = "idle", r.mixed = FALSE,
             r.at \in {"open", "dump"} /\ r.file = "backup" => files'["model"].state = "good",
             r.at \in {"open", "dump"} /\ r.file = "model" /\ served'
               => files'["backup"].state = "good"
      PROVE  Alone' /\ ModelKept' /\ BackupKept'
  <2>1. run'[t] = r /\ \A u \in Trainers \ {t} : run'[u] = run[u]
    BY <1>0, <1>s
  <2>2. \A u \in Trainers \ {t} : run'[u].at = "idle"
    BY <1>s, <2>1
  <2>3. Alone'
    BY <1>i, <1>s, <2>1, <2>2 DEF Alone
  <2>4. ModelKept' /\ BackupKept'
    BY <1>s, <2>1, <2>2 DEF ModelKept, BackupKept, Writes
  <2> QED BY <2>3, <2>4
<1>o. ASSUME NEW t \in Trainers, run[t].at # "idle"
      PROVE  \A u \in Trainers \ {t} : run[u].at = "idle"
  BY <1>i, <1>o DEF Alone
<1>1. CASE (\E s \in Samples : Confirm(s)) \/ UNCHANGED vars
  <2>1. UNCHANGED <<run, files, served>>
    BY <1>1 DEF Confirm, vars
  <2> QED BY <1>i, <2>1 DEF Alone, ModelKept, BackupKept, Loadable, Writes
<1>2. ASSUME NEW t \in Trainers, NEW forced \in BOOLEAN, Begin(t, forced)
      PROVE  Alone' /\ ModelKept' /\ BackupKept' /\ Loadable'
  <2> DEFINE r == [Idle EXCEPT !.at = "backup", !.batch = pending, !.rows = Rows]
  <2>1. run' = [run EXCEPT ![t] = r] /\ UNCHANGED <<files, served>>
    BY <1>2 DEF Begin
  <2>2. \A u \in Trainers \ {t} : run[u].at = "idle"
    BY <1>2 DEF Begin
  <2>3. r.at = "backup" /\ r.mixed = FALSE
    BY DEF Idle
  <2>4. Loadable'
    BY <1>i, <2>1 DEF Loadable
  <2> HIDE DEF r
  <2> QED BY <1>s, <2>1, <2>2, <2>3, <2>4
<1>3. ASSUME NEW t \in Trainers, BackUp(t)
      PROVE  Alone' /\ ModelKept' /\ BackupKept' /\ Loadable'
  <2>1. UNCHANGED <<files, served>> /\ run[t].at # "idle" /\ run[t] \in Runs
    BY <1>0, <1>3 DEF BackUp
  <2>2. Loadable'
    BY <1>i, <2>1 DEF Loadable
  <2>3. CASE files["model"].state = "absent"
    <3> DEFINE r == [run[t] EXCEPT !.at = "open", !.file = "model"]
    <3>1. run' = [run EXCEPT ![t] = r] /\ r.file = "model" /\ r.mixed = FALSE
      BY <1>0, <1>3, <1>i, <2>1, <2>3 DEF BackUp, Runs, Alone
    <3>2. ~served'
      BY <1>0, <1>i, <2>1, <2>3 DEF Loadable
    <3> HIDE DEF r
    <3> QED BY <1>s, <1>o, <2>1, <2>2, <3>1, <3>2
  <2>4. CASE files["model"].state = "broken"
    <3>1. run' = [run EXCEPT ![t] = Idle]
      BY <1>3, <2>4 DEF BackUp
    <3> QED BY <1>s, <1>o, <1>c, <2>1, <2>2, <3>1
  <2>5. CASE files["model"].state = "good"
    <3> DEFINE r == [run[t] EXCEPT !.at = "open", !.file = "backup",
                                   !.copy = files["model"].of]
    <3>1. run' = [run EXCEPT ![t] = r] /\ r.file = "backup" /\ r.mixed = FALSE
      BY <1>0, <1>3, <1>i, <2>1, <2>5 DEF BackUp, Runs, Alone
    <3> HIDE DEF r
    <3> QED BY <1>s, <1>o, <2>1, <2>2, <2>5, <3>1
  <2> QED BY <1>f, <2>3, <2>4, <2>5 DEF FileStates
<1>4. ASSUME NEW t \in Trainers, Open(t)
      PROVE  Alone' /\ ModelKept' /\ BackupKept' /\ Loadable'
  <2>0. run[t].at = "open" /\ run[t] \in Runs
    BY <1>0, <1>4, OpenStep
  <2>o. \A u \in Trainers \ {t} : run[u].at = "idle"
    BY <1>o, <2>0
  <2> DEFINE r == [run[t] EXCEPT !.at = "dump", !.mixed = FALSE]
  <2>1. /\ run' = [run EXCEPT ![t] = r]
        /\ run[t].at = "open" /\ run[t] \in Runs /\ served' = served
        /\ files' = [files EXCEPT ![run[t].file] = Broken]
    <3>1. Writers(run[t].file) = {}
      BY <2>0, <2>o DEF Writers
    <3>2. run'[t] = r /\ \A u \in Trainers \ {t} : run'[u] = run[u]
      BY <1>0, <1>4, <2>o, <3>1, OpenStep
    <3>3. run' = [run EXCEPT ![t] = r]
      <4>1. run \in [Trainers -> Runs] /\ run' \in [Trainers -> Runs]
        BY <1>0, <1>4, OpenStep
      <4> HIDE DEF r
      <4> QED BY <3>2, <4>1
    <3> QED BY <1>4, <2>0, <3>3 DEF Open
  <2>2. r.at = "dump" /\ r.file = run[t].file /\ r.mixed = FALSE
    BY <2>1 DEF Runs
  <2> HIDE DEF r
  <2>3. /\ run[t].file = "backup" => files["model"].state = "good"
        /\ run[t].file = "model" /\ served => files["backup"].state = "good"
    BY <1>i, <2>1 DEF ModelKept, BackupKept, Writes
  <2>4. /\ run[t].file # "model" => files'["model"] = files["model"]
        /\ run[t].file # "backup" => files'["backup"] = files["backup"]
        /\ run[t].file = "model" => files'["model"].state = "broken"
    BY <1>0, <1>f, <2>1 DEF Broken
  <2>5. Loadable'
    BY <1>i, <2>1, <2>3, <2>4 DEF Loadable
  <2> QED BY <1>s, <1>o, <2>1, <2>2, <2>3, <2>4, <2>5
<1>5. ASSUME NEW t \in Trainers, Dump(t)
      PROVE  Alone' /\ ModelKept' /\ BackupKept' /\ Loadable'
  <2> DEFINE r == [After(run[t]) EXCEPT !.mixed = FALSE]
  <2>1. /\ run' = [run EXCEPT ![t] = r]
        /\ run[t].at = "dump" /\ run[t] \in Runs
        /\ files' = [files EXCEPT ![run[t].file] = Fitted(Content(run[t]))]
    BY <1>0, <1>5, <1>i DEF Dump, Result, Alone
  <2>2. /\ run[t].file # "model" => files'["model"] = files["model"] /\ served' = served
        /\ run[t].file # "backup" => files'["backup"] = files["backup"]
        /\ run[t].file \in Files /\ files'[run[t].file].state = "good"
    <3>1. run[t].file # "model" => served' = served
      BY <1>5 DEF Dump
    <3>2. run[t].file \in Files
      BY <2>1 DEF Runs
    <3> QED BY <1>0, <1>f, <2>1, <3>1, <3>2 DEF Fitted
  <2>3. Loadable'
    BY <1>i, <2>2 DEF Loadable
  <2>4. CASE run[t].file = "backup"
    <3>1. r.at = "open" /\ r.file = "model" /\ r.mixed = FALSE
      BY <2>1, <2>4 DEF After, Runs
    <3> HIDE DEF r
    <3> QED BY <1>s, <1>o, <2>1, <2>2, <2>3, <2>4, <3>1
  <2>5. CASE run[t].file \in {"model", "forest", "scaler"}
    <3>1. r.at \in {"mark", "idle"} \/ r.file = "scaler"
      BY <2>1, <2>5 DEF After, Runs, Idle
    <3>2. r.mixed = FALSE
      BY <2>1, <2>5 DEF After, Runs, Idle
    <3> HIDE DEF r
    <3> QED BY <1>s, <1>o, <2>1, <2>3, <3>1, <3>2
  <2> QED BY <2>2, <2>4, <2>5 DEF Files
<1>6. ASSUME NEW t \in Trainers, Mark(t) \/ MarkFails(t) \/ Crash(t)
      PROVE  Alone' /\ ModelKept' /\ BackupKept' /\ Loadable'
  <2>1. UNCHANGED <<files, served>> /\ run[t].at # "idle" /\ run[t] \in Runs
    BY <1>0, <1>6 DEF Mark, MarkFails, Crash
  <2>2. run' = [run EXCEPT ![t] = OnlyForest] \/ run' = [run EXCEPT ![t] = Idle]
    BY <1>0, <1>6 DEF Mark, MarkFails, Crash
  <2>3. OnlyForest.file = "forest" /\ OnlyForest.mixed = FALSE
    BY DEF OnlyForest, Idle
  <2>4. Loadable'
    BY <1>i, <2>1 DEF Loadable
  <2>5. CASE run' = [run EXCEPT ![t] = OnlyForest]
    BY <1>s, <1>o, <2>1, <2>3, <2>4, <2>5
  <2>6. CASE run' = [run EXCEPT ![t] = Idle]
    BY <1>s, <1>o, <1>c, <2>1, <2>4, <2>6
  <2> QED BY <2>2, <2>5, <2>6
<1> QED BY <1>1, <1>2, <1>3, <1>4, <1>5, <1>6 DEF Next, GoesOn

(***************************************************************************)
(* While no two trainers run at once, the model or its backup can be       *)
(* loaded at any moment once there was a model, crashes included.          *)
(***************************************************************************)
THEOREM OneGood == Spec => []OneGoodModel
<1>1. ASSUME Init PROVE SafeInv
  <2>1. \A t \in Trainers : run[t].at = "idle" /\ run[t].mixed = FALSE
    BY <1>1 DEF Init, Idle
  <2>2. Loadable
    BY <1>1 DEF Init, Loadable
  <2> QED BY <2>1, <2>2 DEF SafeInv, Alone, ModelKept, BackupKept, Writes
<1>2. SafeInv => OneGoodModel
  BY DEF SafeInv, Loadable, OneGoodModel
<1> QED BY <1>1, <1>2, SafeStep, TypeCorrect, PTL DEF Spec

=============================================================================
