--------------------------- MODULE ArchiveRestore ---------------------------
(***************************************************************************)
(* Restoration of damaged archive batches,                                 *)
(* src/scripts/restore_archive_batch.py.                                   *)
(*                                                                         *)
(* The script moves what is left of a batch to a backup prefix, puts the   *)
(* objects back from an exact local copy or rebuilds them from the rows    *)
(* Kafka retains, and records the result.  When a step raises it removes   *)
(* what it has put under the batch's prefix and moves the backup back.     *)
(* Moving a prefix is a copy of its objects and then their removal; it can *)
(* fail on the way.  Each attempt has temporary and backup prefixes of its *)
(* own, which it leaves behind.                                            *)
(*                                                                         *)
(* One attempt runs at a time, and no object is damaged while its batch is *)
(* being restored.                                                         *)
(***************************************************************************)
EXTENDS FiniteSets, Integers

CONSTANTS
  Batches,     \* committed batches
  Dates,       \* dates of the rows of a batch, with one object each
  LocalCopy,   \* batches with an exact copy under DATA_DIR/raw
  NoBatch,
  MaxTrouble   \* bound: damages, failed steps and crashes

\* An object is damaged or not; restored ones have names of their own.
Object == [date : Dates, name : {"committed", "restored"}, good : BOOLEAN]
Fresh(n) == [date : Dates, name : {n}, good : {TRUE}]

ASSUME RestoreAssumption ==
  LocalCopy \subseteq Batches /\ NoBatch \notin Batches /\ MaxTrouble \in Nat

VARIABLES
  root,      \* objects under the prefix of each batch
  listed,    \* the names that the batch's manifest lists
  retained,  \* batches that source_ranges and Kafka's retention let it rebuild
  phase,     \* where the script is
  job,       \* the batch it restores
  temp,      \* objects under its temporary prefix
  backup,    \* objects under its backup prefix
  moved,     \* moved_old
  left,      \* dates with a good object under the prefixes of earlier attempts
  harmed,    \* history: dates whose object was damaged since it was written
  trouble

areaVars == <<temp, backup, moved>>
scriptVars == <<phase, job, areaVars, left>>
vars == <<root, listed, retained, scriptVars, harmed, trouble>>

\* What verified_paths demands of the files of a batch.
Intact(b) == [date : Dates, name : {listed[b]}, good : {TRUE}] \subseteq root[b]

\* The dates of the undamaged objects in a set.
Good(S) == {o.date : o \in {x \in S : x.good}}

HasCopy(b) == b \in LocalCopy /\ listed[b] = "committed"

-----------------------------------------------------------------------------
Init ==
  /\ root = [b \in Batches |-> Fresh("committed")]
  /\ listed = [b \in Batches |-> "committed"]
  /\ retained = Batches
  /\ phase = "off" /\ job = NoBatch
  /\ temp = {} /\ backup = {} /\ moved = FALSE
  /\ left = [b \in Batches |-> {}]
  /\ harmed = [b \in Batches |-> {}]
  /\ trouble = 0

Trouble == trouble < MaxTrouble /\ trouble' = trouble + 1

\* An object is lost or changed in the object store.
Damage(b) ==
  /\ Trouble
  /\ job # b
  /\ \E o \in root[b] :
       /\ o.good
       /\ \E S \in {{}, {[o EXCEPT !.good = FALSE]}} :
            root' = [root EXCEPT ![b] = (@ \ {o}) \union S]
       /\ harmed' = [harmed EXCEPT ![b] = @ \union {o.date}]
  /\ UNCHANGED <<listed, retained, scriptVars>>

\* Kafka's retention reaches the rows of a batch, which matters while it has no
\* exact copy.
Expire(b) ==
  /\ b \in retained /\ ~HasCopy(b)
  /\ retained' = retained \ {b}
  /\ UNCHANGED <<root, listed, scriptVars, harmed, trouble>>

-----------------------------------------------------------------------------
(* restore(batch_id) *)

\* The exact copy is preferred; otherwise source_ranges and Kafka's retention
\* have to allow the batch to be rebuilt.
Begin(b) ==
  /\ phase = "off"
  /\ job' = b
  /\ \/ HasCopy(b) /\ phase' = "aside"
     \/ ~HasCopy(b) /\ b \in retained /\ phase' = "build"
  /\ UNCHANGED <<root, listed, retained, areaVars, left, harmed, trouble>>

\* One object per date is written to the temporary prefix.
Build ==
  /\ phase = "build"
  /\ \E o \in Fresh("restored") \ temp : temp' = temp \union {o}
  /\ phase' = IF temp' = Fresh("restored") THEN "aside" ELSE "build"
  /\ UNCHANGED <<root, listed, retained, job, backup, moved, left, harmed, trouble>>

\* Wrong variant: the prefix of the batch is taken to exist.
MoveAside_NotChecked ==
  /\ phase = "aside"
  /\ root[job] # {}
  /\ backup' = root[job]
  /\ root' = [root EXCEPT ![job] = {}]
  /\ moved' = TRUE
  /\ phase' = "in"
  /\ UNCHANGED <<listed, retained, job, temp, left, harmed, trouble>>

MoveAside ==
  /\ phase = "aside"
  /\ backup' = root[job]
  /\ root' = [root EXCEPT ![job] = {}]
  /\ moved' = (root[job] # {})
  /\ phase' = "in"
  /\ UNCHANGED <<listed, retained, job, temp, left, harmed, trouble>>

\* The move fails during the copy or during the removal; moved_old is not set.
MoveAsideFails ==
  /\ phase = "aside" /\ root[job] # {}
  /\ Trouble
  /\ \/ /\ backup' \in SUBSET root[job]
        /\ UNCHANGED root
     \/ /\ backup' = root[job]
        /\ \E S \in SUBSET root[job] : root' = [root EXCEPT ![job] = S]
  /\ phase' = "remove"
  /\ UNCHANGED <<listed, retained, job, temp, moved, left, harmed>>

\* From the exact copy, object by object, each compared with its digest ...
CopyIn ==
  /\ phase = "in" /\ HasCopy(job)
  /\ \E o \in Fresh("committed") \ root[job] : root' = [root EXCEPT ![job] = @ \union {o}]
  /\ phase' = IF root'[job] = Fresh("committed") THEN "record" ELSE "in"
  /\ UNCHANGED <<listed, retained, job, areaVars, left, harmed, trouble>>

\* ... or from the temporary prefix.
MoveIn ==
  /\ phase = "in" /\ ~HasCopy(job)
  /\ root' = [root EXCEPT ![job] = temp]
  /\ temp' = {}
  /\ phase' = "record"
  /\ UNCHANGED <<listed, retained, job, backup, moved, left, harmed, trouble>>

MoveInFails ==
  /\ phase = "in"
  /\ Trouble
  /\ \/ HasCopy(job) /\ UNCHANGED <<root, temp>>
     \/ /\ ~HasCopy(job)
        /\ \E S \in SUBSET temp :
             \/ root' = [root EXCEPT ![job] = S] /\ UNCHANGED temp
             \/ root' = [root EXCEPT ![job] = temp] /\ temp' = S
  /\ phase' = "remove"
  /\ UNCHANGED <<listed, retained, job, backup, moved, left, harmed>>

\* Wrong variant: the next attempt has the same prefixes.
Quit_SamePrefixes ==
  /\ phase' = "off" /\ job' = NoBatch
  /\ UNCHANGED areaVars

\* The prefixes of the attempt stay where they are; the next has its own.
Quit ==
  /\ phase' = "off" /\ job' = NoBatch
  /\ temp' = {} /\ backup' = {} /\ moved' = FALSE

\* The manifest of what is there now, which the exact copy leaves as it was.
Record ==
  /\ phase = "record"
  /\ listed' = [listed EXCEPT ![job] = IF HasCopy(job) THEN @ ELSE "restored"]
  /\ left' = [left EXCEPT ![job] = @ \union Good(backup \union temp)]
  /\ harmed' = [harmed EXCEPT ![job] = {}]
  /\ Quit
  /\ UNCHANGED <<root, retained, trouble>>

RecordFails ==
  /\ phase = "record"
  /\ Trouble
  /\ phase' = "remove"
  /\ UNCHANGED <<root, listed, retained, job, areaVars, left, harmed>>

\* The except clause: what is under the prefix is removed ...
Remove ==
  /\ phase = "remove"
  /\ root' = [root EXCEPT ![job] = {}]
  /\ phase' = "back"
  /\ UNCHANGED <<listed, retained, job, areaVars, left, harmed, trouble>>

\* Wrong variant: the temporary prefix is tidied up.
Kept_Tidied == backup

\* Objects under the attempt's prefixes that stay behind when it fails.
Kept == backup \union temp

\* ... and a backup that was moved completely is moved back.
MoveBack ==
  /\ phase = "back"
  /\ root' = [root EXCEPT ![job] = IF moved THEN backup ELSE @]
  /\ left' = [left EXCEPT ![job] = @ \union Good(IF moved THEN Kept \ backup ELSE Kept)]
  /\ Quit
  /\ UNCHANGED <<listed, retained, harmed, trouble>>

\* Removing or moving back fails on the way, which ends the script.
UndoFails ==
  /\ Trouble
  /\ \/ /\ phase = "remove"
        /\ \E S \in SUBSET root[job] : root' = [root EXCEPT ![job] = S]
        /\ left' = [left EXCEPT ![job] = @ \union Good(Kept)]
     \/ /\ phase = "back" /\ moved
        /\ \E S \in SUBSET backup :
             \/ /\ root' = [root EXCEPT ![job] = S]
                /\ left' = [left EXCEPT ![job] = @ \union Good(Kept)]
             \/ /\ root' = [root EXCEPT ![job] = backup]
                /\ left' = [left EXCEPT ![job] = @ \union Good((Kept \ backup) \union S)]
  /\ Quit
  /\ UNCHANGED <<listed, retained, harmed>>

Crash ==
  /\ phase # "off"
  /\ Trouble
  /\ left' = [left EXCEPT ![job] = @ \union Good(backup \union temp)]
  /\ Quit
  /\ UNCHANGED <<root, listed, retained, harmed>>

-----------------------------------------------------------------------------
Script ==
  \/ Build \/ MoveAside \/ CopyIn \/ MoveIn \/ Record \/ Remove \/ MoveBack
  \/ MoveAsideFails \/ MoveInFails \/ RecordFails \/ UndoFails

Next ==
  \/ \E b \in Batches : Damage(b) \/ Expire(b) \/ Begin(b)
  \/ Script
  \/ Crash

Spec == Init /\ [][Next]_vars

-----------------------------------------------------------------------------
(* Properties *)

Phases == {"off", "build", "aside", "in", "record", "remove", "back"}

\* Type correctness; an attempt under way has a batch, and starts with prefixes
\* and a moved_old of its own.
TypeOK ==
  /\ root \in [Batches -> SUBSET Object]
  /\ listed \in [Batches -> {"committed", "restored"}]
  /\ retained \subseteq Batches
  /\ phase \in Phases /\ job \in Batches \union {NoBatch}
  /\ phase = "off" <=> job = NoBatch
  /\ phase = "off" => temp = {} /\ backup = {} /\ ~moved
  /\ temp \subseteq Object /\ backup \subseteq Object /\ moved \in BOOLEAN
  /\ left \in [Batches -> SUBSET Dates]
  /\ harmed \in [Batches -> SUBSET Dates]
  /\ trouble \in 0 .. MaxTrouble

\* Dates of a batch of which an undamaged object exists somewhere.
Copies(b) ==
  left[b]
  \union Good(root[b] \union (IF job = b THEN temp \union backup ELSE {}))
  \union (IF HasCopy(b) THEN Dates ELSE {})

\* However often a restoration fails, and wherever, it never destroys the last
\* copy of rows whose object was not damaged, although the except clause removes
\* objects that were not moved to the backup (restore_archive_batch.py:169).
CopySurvives ==
  \A b \in Batches : Dates \ harmed[b] \subseteq Copies(b)

-----------------------------------------------------------------------------
(* Why it holds: RestoreInv is inductive together with TypeOK. *)

\* Outside of the script's prefixes, and in what it has moved aside.
Outside(b) == left[b] \union Good(root[b])
MovedAside(b) == left[b] \union Good(backup)

\* A batch without an exact copy is rebuilt before its prefix is touched. The
\* attempt may spoil one of the rebuilt and of the old objects, never both.
EitherWhole ==
  job # NoBatch /\ ~HasCopy(job) =>
    /\ phase \in {"build", "aside"} => Dates \ harmed[job] \subseteq Outside(job)
    /\ phase \in {"aside", "in"} => temp = Fresh("restored")
    /\ phase \in {"in", "record"} => Dates \ harmed[job] \subseteq MovedAside(job)
    /\ phase = "record" => root[job] = Fresh("restored")
    /\ phase \in {"remove", "back"} =>
         temp = Fresh("restored") \/ Dates \ harmed[job] \subseteq MovedAside(job)

RestoreInv == CopySurvives /\ EitherWhole
=============================================================================
