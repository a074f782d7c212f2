--------------------------- MODULE OnlineLearning ---------------------------
(***************************************************************************)
(* Retraining from confirmed alerts.  The backend inserts a row for every  *)
(* confirmation (POST /api/alerts/:id/confirm, db.rs); a trainer           *)
(* (ml/online_trainer.py: a daemon, or the same program run by hand) reads *)
(* the rows not yet used, fits a model, saves the old one, replaces it and *)
(* marks the rows.  All they share is the table and four files, each of    *)
(* which is truncated and then written piece by piece.  Nothing keeps two  *)
(* trainers from running at once, or from writing one file at once, and    *)
(* one may die anywhere.                                                   *)
(*                                                                         *)
(* A model is the set of the confirmed samples it was fitted with, beside  *)
(* the original data that every fit starts from.                           *)
(***************************************************************************)
EXTENDS Integers, FiniteSets

CONSTANTS
  Trainers,
  Daemon,             \* the trainer that retrains by itself
  Good,               \* samples with a known label and all features
  Noisy,              \* the same, but a model fitted with one fails the gate
  Unusable,           \* samples that are skipped: the dashboard confirms
                      \* alerts with no features, and such a sample is one
  Raising,            \* samples on which retrain raises: a known label, but
                      \* features that are null or not numbers
  RETRAIN_THRESHOLD,
  MaxFaults           \* bound: trainers that die and transactions that fail

ASSUME SamplesAssumption ==
  /\ Good \intersect Unusable = {} /\ Noisy \intersect Unusable = {}
  /\ Raising \intersect (Good \union Noisy \union Unusable) = {}
ASSUME LimitsAssumption == RETRAIN_THRESHOLD \in Nat /\ MaxFaults \in Nat

Samples == Good \union Noisy \union Unusable \union Raising
Files == {"backup", "model", "forest", "scaler"}

VARIABLES
  pending,    \* rows with used_in_retrain = 0
  used,       \* rows with used_in_retrain = 1
  files,      \* ml/output: the state of each file and what it was fitted with
  run         \* what each trainer does

VARIABLES     \* history
  learned,    \* samples that were in some model once deployed that loads
  garbled,    \* samples of a model that two trainers wrote over each other
  served,     \* whether there ever was a model
  overlap,    \* whether two trainers ran at once
  faults

vars == <<pending, used, files, run, learned, garbled, served, overlap, faults>>

----------------------------------------------------------------------------
Absent == [state |-> "absent", of |-> {}]
Broken == [state |-> "broken", of |-> {}]
Fitted(S) == [state |-> "good", of |-> S]

Idle == [at |-> "idle", file |-> "model", batch |-> {}, rows |-> {}, copy |-> {},
         mixed |-> FALSE]

Init ==
  /\ pending = {} /\ used = {}
  /\ files \in {[f \in Files |-> Absent],
                [f \in Files |-> IF f = "model" THEN Fitted({}) ELSE Absent]}
  /\ run = [t \in Trainers |-> Idle]
  /\ learned = {} /\ garbled = {} /\ served = (files["model"].state = "good")
  /\ overlap = FALSE /\ faults = 0

\* The backend stores a confirmation.
Confirm(s) ==
  /\ s \notin pending \union used
  /\ pending' = pending \union {s}
  /\ UNCHANGED <<used, files, run, learned, garbled, served, overlap, faults>>

----------------------------------------------------------------------------
(* retrain.  A call that returns early changes nothing. *)

\* Mutant of Enough: off by one.
MoreThanEnough == Cardinality(pending) > RETRAIN_THRESHOLD

Enough == Cardinality(pending) >= RETRAIN_THRESHOLD

\* The rows that parse, if no sample raises; the exception ends the call.
Rows == pending \ Unusable
Parses == pending \intersect Raising = {}

\* The accuracy gate, for a model fitted with these rows.
Accurate(rows) == rows \intersect Noisy = {}

\* The pending samples are read, and a model is fitted that passes the gate.
Begin(t, forced) ==
  /\ run[t].at = "idle"
  /\ forced \/ (Enough /\ Rows # {})
  /\ Parses /\ Accurate(Rows)
  /\ run' = [run EXCEPT ![t] = [Idle EXCEPT !.at = "backup", !.batch = pending, !.rows = Rows]]
  /\ overlap' = (overlap \/ \E u \in Trainers \ {t} : run[u].at # "idle")
  /\ UNCHANGED <<pending, used, files, learned, garbled, served, faults>>

\* Mutant of BackUp: the new model is deployed at once.
BackUpNothing(t) ==
  /\ run[t].at = "backup"
  /\ run' = [run EXCEPT ![t].at = "open", ![t].file = "model"]
  /\ UNCHANGED <<pending, used, files, learned, garbled, served, overlap, faults>>

\* The old model is loaded to be saved, if there is one; loading a broken
\* file raises, which ends the call.
BackUp(t) ==
  /\ run[t].at = "backup"
  /\ run' = CASE files["model"].state = "absent" ->
                   [run EXCEPT ![t].at = "open", ![t].file = "model"]
              [] files["model"].state = "broken" -> [run EXCEPT ![t] = Idle]
              [] OTHER -> [run EXCEPT ![t].at = "open", ![t].file = "backup",
                                      ![t].copy = files["model"].of]
  /\ UNCHANGED <<pending, used, files, learned, garbled, served, overlap, faults>>

\* The trainers that have the file open for writing.
Writers(f) == {u \in Trainers : run[u].at = "dump" /\ run[u].file = f}

\* joblib.dump truncates the file, whoever else is writing it ...
Open(t) ==
  /\ run[t].at = "open"
  /\ files' = [files EXCEPT ![run[t].file] = Broken]
  /\ run' = [u \in Trainers |->
       IF u = t THEN [run[t] EXCEPT !.at = "dump", !.mixed = (Writers(run[t].file) # {})]
       ELSE IF u \in Writers(run[t].file) THEN [run[u] EXCEPT !.mixed = TRUE]
       ELSE run[u]]
  /\ UNCHANGED <<pending, used, learned, garbled, served, overlap, faults>>

Content(r) == IF r.file = "backup" THEN r.copy ELSE r.rows

\* Where the call goes on after a file.
After(r) ==
  CASE r.file = "backup" -> [r EXCEPT !.at = "open", !.file = "model", !.copy = {}]
    [] r.file = "model" -> [r EXCEPT !.at = "mark"]
    [] r.file = "forest" -> [r EXCEPT !.at = "open", !.file = "scaler"]
    [] r.file = "scaler" -> Idle

\* What is in the file after the last piece: pieces of two writers seldom
\* load, but one may have written all of its own over the other's.
Result(r) ==
  IF r.mixed THEN {Fitted(Content(r)), Broken, files[r.file]} ELSE {Fitted(Content(r))}

\* ... and writes it.
Dump(t) ==
  /\ run[t].at = "dump"
  /\ \E result \in Result(run[t]) :
       /\ files' = [files EXCEPT ![run[t].file] = result]
       /\ IF run[t].file = "model" /\ result = Fitted(run[t].rows)
            THEN learned' = learned \union run[t].rows /\ served' = TRUE
            ELSE UNCHANGED <<learned, served>>
  /\ garbled' = IF run[t].file = "model" /\ run[t].mixed THEN garbled \union run[t].rows
                ELSE garbled
  /\ run' = [run EXCEPT ![t] = [After(run[t]) EXCEPT !.mixed = FALSE]]
  /\ UNCHANGED <<pending, used, overlap, faults>>

\* What is left is the isolation forest and its scaler; what they are fitted
\* with is not kept, for nothing reads it.
OnlyForest == [Idle EXCEPT !.at = "open", !.file = "forest"]

\* Mutant of Mark: whatever is pending is marked.
MarkPending(t) ==
  /\ run[t].at = "mark"
  /\ pending' = {} /\ used' = used \union pending
  /\ run' = [run EXCEPT ![t] = OnlyForest]
  /\ UNCHANGED <<files, learned, garbled, served, overlap, faults>>

\* The samples read at the beginning are marked, skipped ones included, in
\* one transaction; the isolation forest follows.
Mark(t) ==
  /\ run[t].at = "mark"
  /\ pending' = pending \ run[t].batch /\ used' = used \union run[t].batch
  /\ run' = [run EXCEPT ![t] = OnlyForest]
  /\ UNCHANGED <<files, learned, garbled, served, overlap, faults>>

\* The table stays locked by the backend: nothing is committed, and the call ends.
MarkFails(t) ==
  /\ run[t].at = "mark" /\ faults < MaxFaults /\ faults' = faults + 1
  /\ run' = [run EXCEPT ![t] = Idle]
  /\ UNCHANGED <<pending, used, files, learned, garbled, served, overlap>>

\* A trainer dies, and is started again at some time.
Crash(t) ==
  /\ run[t].at # "idle" /\ faults < MaxFaults /\ faults' = faults + 1
  /\ run' = [run EXCEPT ![t] = Idle]
  /\ UNCHANGED <<pending, used, files, learned, garbled, served, overlap>>

GoesOn(t) == BackUp(t) \/ Open(t) \/ Dump(t) \/ Mark(t)

Next ==
  \/ \E s \in Samples : Confirm(s)
  \/ \E t \in Trainers : \/ \E forced \in BOOLEAN : Begin(t, forced)
                         \/ GoesOn(t) \/ MarkFails(t) \/ Crash(t)

Spec == Init /\ [][Next]_vars

\* The daemon calls retrain again and again; a call that began goes on.
FairSpec ==
  /\ Spec
  /\ WF_vars(Begin(Daemon, FALSE))
  /\ \A t \in Trainers : WF_vars(GoesOn(t))

----------------------------------------------------------------------------
Steps == {"backup", "open", "dump", "mark"}

TypeOK ==
  /\ pending \subseteq Samples /\ used \subseteq Samples /\ pending \intersect used = {}
  /\ files \in [Files -> [state : {"absent", "broken", "good"}, of : SUBSET Samples]]
  /\ run \in [Trainers -> [at : Steps \union {"idle"}, file : Files, batch : SUBSET Samples,
                           rows : SUBSET Samples, copy : SUBSET Samples,
                           mixed : BOOLEAN]]
  /\ learned \subseteq Samples /\ garbled \subseteq Samples
  /\ served \in BOOLEAN /\ overlap \in BOOLEAN
  /\ faults \in Nat

(***************************************************************************)
(* A row is marked only when a model that was fitted with it was deployed  *)
(* and could be loaded, unless the row was skipped: neither a confirmation *)
(* that comes during a fit, nor a crash, nor a second trainer makes its    *)
(* feedback get lost, but for two that write the model at the same moment  *)
(* (online_trainer.py:68-98, 212-219).                                     *)
(***************************************************************************)
UsedWasLearned == used \subseteq learned \union Unusable \union garbled

(***************************************************************************)
(* The old model is saved before it is replaced: as long as one trainer    *)
(* runs at a time, the model or its backup can be loaded wherever a        *)
(* trainer dies, however often (online_trainer.py:206-213).                *)
(***************************************************************************)
OneGoodModel ==
  ~overlap /\ served => files["model"].state = "good" \/ files["backup"].state = "good"

(***************************************************************************)
(* When enough samples are pending, a usable one among them is marked as   *)
(* learned, or others are until too few are left, unless a sample came in  *)
(* that spoils the accuracy or makes every call raise, or a crash or two   *)
(* trainers at once left a model that cannot be loaded                     *)
(* (online_trainer.py:112-219, 247-266).                                   *)
(***************************************************************************)
TooFew == Cardinality(pending) < RETRAIN_THRESHOLD
Spoiled == pending \intersect (Noisy \union Raising) # {}
PendingIsLearned ==
  \A s \in Good \ Noisy : (s \in pending /\ ~TooFew) ~>
    (s \in used \/ TooFew \/ Spoiled \/ [](files["model"].state = "broken"))

=============================================================================
