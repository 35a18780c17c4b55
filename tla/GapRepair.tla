----------------------------- MODULE GapRepair -----------------------------
(***************************************************************************)
(* Repair of a gap between the raw archive and the live tables,            *)
(* src/scripts/repair_archive_gap.py, beside the raw archive consumer.     *)
(*                                                                         *)
(* An operator runs the script when the serving layer knows younger events *)
(* than the archive.  Under the writers' advisory lock it selects, by      *)
(* event time, the rows Kafka retains between the two, requires each to be *)
(* known to the serving layer, writes one object per date under the next   *)
(* archive id and commits a ledger row.  It neither clears the prefix      *)
(* first nor touches the high water marks.                                 *)
(*                                                                         *)
(* A recovery is a ledger row with an empty offset range: it takes part in *)
(* no continuity check.                                                    *)
(***************************************************************************)
EXTENDS RawArchive

CONSTANTS
  Operator,     \* holder of the advisory lock while a repair runs
  EventTime,    \* event time of each row, one date per time
  NoTime        \* max() of no row

ASSUME RepairAssumption ==
  /\ IsFiniteSet(Partitions)
  /\ Operator \notin Writers \union {NoWriter}
  /\ EventTime \in [AllRows -> Nat]
  /\ NoTime = -1

VARIABLES
  served,    \* rows in stream_event_keys or stream_conflicts
  step,      \* where the repair is
  after,     \* raw_max and live_max as it read them
  through,
  target,    \* archive id it has read
  picked,    \* rows it recovers
  put,       \* dates it has written
  gapFiles   \* recovered-gap objects under each prefix

repairVars == <<served, step, after, through, target, picked, put, gapFiles>>
gapVars == <<vars, repairVars>>

Latest(rows) ==
  IF rows = {} THEN NoTime
  ELSE CHOOSE t \in {EventTime[r] : r \in rows} : \A r \in rows : EventTime[r] <= t

Archived == UNION {b.good : b \in ledger}
Retained == Rows(logLow, logEnd)
Recovery(b) == \A p \in Partitions : b.lo[p] = b.hi[p]

-----------------------------------------------------------------------------
GapInit ==
  /\ Init
  /\ served = {} /\ step = "off" /\ after = NoTime /\ through = NoTime /\ target = 0
  /\ picked = {} /\ put = {}
  /\ gapFiles = [i \in Ids |-> {}]

\* A step of the writers or of their surroundings. An overwrite removes whatever
\* is under the prefix, a repair's objects included.
ArchiveStep ==
  /\ Next
  /\ gapFiles' = [i \in Ids |->
       IF \E w \in Writers : phase[w] = "overwrite" /\ phase'[w] = "upload" /\ id[w] = i
         THEN {} ELSE gapFiles[i]]
  /\ UNCHANGED <<served, step, after, through, target, picked, put>>

\* The serving layer accepts a row, at a pace of its own.
Serve ==
  /\ \E r \in Retained \ served :
       /\ r \in Suspect => r \in ripe
       /\ served' = served \union {r}
  /\ UNCHANGED <<vars, step, after, through, target, picked, put, gapFiles>>

\* Wrong variant: the result of pg_try_advisory_lock is not looked at.
LockFreeForRepair_Ignored == TRUE

LockFreeForRepair == lock = NoWriter

\* The lock, and the two maxima. Nothing is done when the archive is current.
RepairBegin ==
  /\ step = "off"
  /\ LockFreeForRepair
  /\ Archived # {} /\ Latest(Archived) < Latest(served)
  /\ \E n \in Ids : IsNextId(n) /\ target' = n
  /\ lock' = Operator
  /\ step' = "select"
  /\ after' = Latest(Archived) /\ through' = Latest(served)
  /\ UNCHANGED <<kafkaVars, phase, sparkVars, dbVars, storeVars, workVars,
                 served, picked, put, gapFiles>>

\* An exception or a crash ends the script and its session; objects remain.
RepairEnd ==
  /\ step' = "off"
  /\ lock' = IF lock = Operator THEN NoWriter ELSE lock
  /\ after' = NoTime /\ through' = NoTime /\ target' = 0
  /\ picked' = {} /\ put' = {}
  /\ UNCHANGED <<kafkaVars, phase, sparkVars, marks, storeVars, workVars, served, gapFiles>>

Selected(boundary) ==
  {r \in Retained :
     /\ EventTime[r] <= through
     /\ EventTime[r] > after \/ (boundary /\ EventTime[r] = after)}

\* The rows that Kafka retains, with or without --include-boundary, and
\* _verify_identities.
RepairSelect ==
  /\ step = "select"
  /\ \E boundary \in BOOLEAN :
       IF Selected(boundary) # {} /\ Selected(boundary) \subseteq served
         THEN /\ picked' = Selected(boundary)
              /\ step' = "upload"
              /\ UNCHANGED <<vars, served, after, through, target, put, gapFiles>>
         ELSE RepairEnd /\ UNCHANGED ledger

Dates(rows) == {EventTime[r] : r \in rows}

\* One object per date, in the order of the dates; it replaces the object that
\* an earlier attempt has left.
RepairUpload ==
  /\ step = "upload" /\ Dates(picked) \ put # {}
  /\ LET date == CHOOSE d \in Dates(picked) \ put : \A e \in Dates(picked) \ put : d <= e
     IN  /\ gapFiles' = [gapFiles EXCEPT ![target] =
                {r \in @ : EventTime[r] # date} \union {r \in picked : EventTime[r] = date}]
         /\ put' = put \union {date}
  /\ UNCHANGED <<vars, served, step, after, through, target, picked>>

\* Wrong variant: what is found under the prefix is not counted.
Tallied_Ignored == TRUE

\* build_manifest counts every object under the prefix, leftovers of dead
\* attempts of the writer or of the script included.
Tallied == Cardinality(files[target]) + Cardinality(gapFiles[target]) = Cardinality(picked)

RepairCommit ==
  /\ step = "upload" /\ Dates(picked) \ put = {}
  /\ IF Tallied /\ \A b \in ledger : b.id # target
       THEN ledger' = ledger \union
              {[id |-> target, lo |-> [p \in Partitions |-> 0], hi |-> [p \in Partitions |-> 0],
                good |-> picked, bad |-> {}, manifest |-> picked]}
       ELSE UNCHANGED ledger
  /\ RepairEnd

RepairCrash ==
  /\ step # "off"
  /\ RepairEnd
  /\ UNCHANGED ledger

Repair == RepairBegin \/ RepairSelect \/ RepairUpload \/ RepairCommit \/ RepairCrash

GapNext == ArchiveStep \/ Serve \/ Repair

GapSpec == GapInit /\ [][GapNext]_gapVars

-----------------------------------------------------------------------------
(* Properties *)

\* Under every committed id there are exactly the objects that its ledger row
\* lists, whatever attempts of the writer and of the script died under the id
\* before, and whichever of the two committed it.
ObjectsIntact ==
  \A b \in ledger :
    IF Recovery(b) THEN gapFiles[b.id] = b.manifest /\ files[b.id] = {}
                   ELSE files[b.id] = b.manifest /\ gapFiles[b.id] = {}

Recovered == UNION {b.good : b \in {c \in ledger : Recovery(c)}}

\* As documented: after the raw checkpoint was recreated, the rows Kafka retains
\* can be recovered with this script (docs/FINAL_SCOPE.md:78), so that a writer
\* whose range has been recovered does not stop at the gap again.
RecoveredGapPasses ==
  \A w \in Writers :
    phase[w] = "marks" /\ Rows(start[w], end[w]) \subseteq Recovered => ~HasGap(w)

-----------------------------------------------------------------------------
(* The inductive invariant behind ObjectsIntact *)

RepairTypeOK ==
  /\ step \in {"off", "select", "upload"} /\ target \in Ids
  /\ picked \subseteq AllRows /\ gapFiles \in [Ids -> SUBSET AllRows]

\* A repair holds the lock, so its id stays above every committed one.
RepairAlone ==
  step # "off" => lock = Operator /\ \A b \in ledger : b.id < target

\* What it has written is under its id.
RepairStored ==
  /\ step # "upload" => put = {}
  /\ step = "upload" => \A r \in picked : EventTime[r] \in put => r \in gapFiles[target]

\* A writer's batch is not empty. Once it has cleared its prefix no recovered
\* object is there, and its manifest lists what is.
WriterStored ==
  \A w \in Writers :
    /\ phase[w] \in Working => lo[w] # end[w]
    /\ phase[w] \in Storing \ {"overwrite"} => gapFiles[id[w]] = {}
    /\ phase[w] = "commit" => manifest[w] = files[id[w]]

GapInv ==
  /\ DataOK /\ OffsetInv
  /\ RepairTypeOK /\ RepairAlone /\ RepairStored /\ WriterStored
  /\ ObjectsIntact
=============================================================================
