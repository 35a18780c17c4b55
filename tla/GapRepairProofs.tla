------------------------- MODULE GapRepairProofs --------------------------
(***************************************************************************)
(* Repairs beside the raw archive consumer, for every number of partitions *)
(* and writers: no repair disturbs the offsets, and under no committed id  *)
(* objects of a writer and of a repair are mixed.                          *)
(***************************************************************************)
EXTENDS GapRepair, RawArchiveProofs, FiniteSetTheorems

\* A repair excludes the writers.
LEMMA RepairExcludes ==
  ASSUME OffsetInv, lock \notin Writers, NEW w \in Writers
  PROVE  /\ phase[w] \notin Busy /\ phase[w] \notin Working /\ phase[w] \notin Storing
         /\ phase[w] # "commit"
BY DEF OffsetInv, LockHeld, Busy, Working, Storing, Claiming

\* The offsets depend on the lock through the writers that hold it only.
LEMMA OffsetsKept ==
  ASSUME OffsetInv, UNCHANGED <<kafkaVars, phase, sparkVars, marks, workVars>>,
         \A p \in Partitions : Covered(p)' = Covered(p),
         \A b \in ledger' : b \in ledger \/ \A p \in Partitions : ~(b.lo[p] < b.hi[p]),
         LockHeld', IdsAbove'
  PROVE  OffsetInv'
<1>. USE DEF kafkaVars, sparkVars, workVars, OffsetInv
<1>1. CheckpointBehind'  BY DEF CheckpointBehind
<1>2. EntriesBelowMarks'  BY DEF EntriesBelowMarks
<1>3. RunsEndAtMarks'  BY DEF RunsEndAtMarks
<1>4. RetainedCovered' /\ ReplayCovered'
  BY DEF RetainedCovered, ReplayCovered, CoveredFrom, Planned
<1>5. TrimSound' /\ MarksStillChecked' /\ FinishedBelowMarks'
  BY DEF TrimSound, MarksStillChecked, FinishedBelowMarks, InBatch, Planned
<1>. QED  BY <1>1, <1>2, <1>3, <1>4, <1>5

\* A step of a repair that adds no ledger row.
LEMMA RepairFrame ==
  ASSUME GapInv, UNCHANGED <<kafkaVars, phase, sparkVars, dbVars, storeVars, workVars>>,
         lock \notin Writers, lock' \notin Writers
  PROVE  DataOK' /\ OffsetInv'
<1>. USE DEF kafkaVars, sparkVars, dbVars, storeVars, workVars, GapInv
<1>1. DataOK'  BY DEF DataOK, Batch
<1>2. \A p \in Partitions : Covered(p)' = Covered(p)  BY DEF Covered
<1>3. LockHeld' /\ IdsAbove'
  BY RepairExcludes DEF OffsetInv, LockHeld, IdsAbove
<1>. QED  BY <1>1, <1>2, <1>3, OffsetsKept

\* An ended repair leaves its objects, which no ledger row lists.
LEMMA EndKeeps ==
  ASSUME GapInv, step # "off", RepairEnd, UNCHANGED ledger
  PROVE  GapInv'
<1>. USE DEF kafkaVars, sparkVars, dbVars, storeVars, workVars, GapInv
<1>1. lock = Operator /\ lock' = NoWriter  BY DEF RepairEnd, RepairAlone
<1>2. lock \notin Writers /\ lock' \notin Writers  BY <1>1, RepairAssumption, WritersAssumption
<1>3. DataOK' /\ OffsetInv'  BY <1>2, RepairFrame DEF RepairEnd
<1>4. 0 \in Ids  BY BoundsAssumption DEF Ids
<1>5. RepairTypeOK' /\ RepairAlone' /\ RepairStored'
  BY <1>4 DEF RepairEnd, RepairTypeOK, RepairAlone, RepairStored
<1>6. WriterStored'  BY DEF RepairEnd, WriterStored
<1>7. ObjectsIntact'  BY DEF RepairEnd, ObjectsIntact, Recovery
<1>. QED  BY <1>3, <1>5, <1>6, <1>7

\* A committed id is neither a running writer's nor a running repair's.
LEMMA CommittedIds ==
  ASSUME GapInv, NEW b \in ledger
  PROVE  /\ b.id \in Ids
         /\ step # "off" => b.id # target
         /\ \A w \in Writers : phase[w] \in Storing => b.id # id[w]
<1>1. b.id \in Ids  BY DEF GapInv, DataOK, Batch
<1>2. step # "off" => b.id # target
  BY <1>1 DEF GapInv, RepairAlone, RepairTypeOK, Ids
<1>. QED  BY <1>1, <1>2, FreshId DEF GapInv

\* What all dates together have put there, and nothing else, passes build_manifest.
LEMMA TalliedWhole ==
  ASSUME GapInv, step = "upload", Dates(picked) \ put = {}, Tallied
  PROVE  gapFiles[target] = picked /\ files[target] = {}
<1>1. picked \subseteq gapFiles[target]
  BY DEF GapInv, RepairStored, Dates
<1>2. IsFiniteSet(AllRows)
  <2>1. IsFiniteSet(Offsets)  BY FS_Interval, BoundsAssumption DEF Offsets
  <2>. QED  BY <2>1, RepairAssumption, FS_Product DEF AllRows
<1>3. target \in Ids /\ gapFiles[target] \subseteq AllRows /\ files[target] \subseteq AllRows
  BY DEF GapInv, RepairTypeOK, DataOK
<1>4. IsFiniteSet(gapFiles[target]) /\ IsFiniteSet(files[target])
  BY <1>2, <1>3, FS_Subset
<1>5. Cardinality(picked) \in Nat /\ Cardinality(gapFiles[target]) \in Nat
      /\ Cardinality(files[target]) \in Nat
      /\ Cardinality(picked) <= Cardinality(gapFiles[target])
      /\ (Cardinality(picked) = Cardinality(gapFiles[target]) => picked = gapFiles[target])
  BY <1>1, <1>4, FS_Subset, FS_CardinalityType
<1>6. Cardinality(files[target]) = 0 /\ Cardinality(picked) = Cardinality(gapFiles[target])
  BY <1>5 DEF Tallied
<1>. QED  BY <1>4, <1>5, <1>6, FS_EmptySet

\* A repair keeps the invariant.
LEMMA RepairKeeps ==
  ASSUME GapInv, Repair
  PROVE  GapInv'
<1>. USE DEF kafkaVars, sparkVars, dbVars, storeVars, workVars, vars
<1>0. Operator \notin Writers /\ NoWriter \notin Writers /\ Operator # NoWriter
  BY RepairAssumption, WritersAssumption
<1>1. CASE RepairBegin
  <2>1. step = "off" /\ lock = NoWriter /\ lock' = Operator /\ step' = "select" /\ target' \in Ids
        /\ (\A b \in ledger : b.id < target')
        /\ UNCHANGED <<kafkaVars, phase, sparkVars, dbVars, storeVars, workVars, picked, put, gapFiles>>
    BY <1>1 DEF RepairBegin, LockFreeForRepair, IsNextId
  <2>2. DataOK' /\ OffsetInv'  BY <1>0, <2>1, RepairFrame
  <2>3. RepairTypeOK' /\ RepairAlone' /\ RepairStored'
    BY <2>1 DEF GapInv, RepairTypeOK, RepairAlone, RepairStored
  <2>4. WriterStored' /\ ObjectsIntact'
    BY <2>1 DEF GapInv, WriterStored, ObjectsIntact, Recovery
  <2>. QED  BY <2>2, <2>3, <2>4 DEF GapInv
<1>2. CASE RepairSelect
  <2>1. CASE RepairEnd /\ UNCHANGED ledger  BY <1>2, <2>1, EndKeeps DEF RepairSelect
  <2>2. CASE ~(RepairEnd /\ UNCHANGED ledger)
    <3>1. PICK boundary \in BOOLEAN :
            picked' = Selected(boundary) /\ step' = "upload"
              /\ UNCHANGED <<vars, served, after, through, target, put, gapFiles>>
      BY <1>2, <2>2 DEF RepairSelect
    <3>2. step = "select" /\ put = {} /\ lock = Operator
      BY <1>2 DEF RepairSelect, GapInv, RepairStored, RepairAlone
    <3>3. DataOK' /\ OffsetInv'  BY <1>0, <3>1, <3>2, RepairFrame
    <3>4. picked' \subseteq AllRows  BY <3>1 DEF Selected, Retained, Rows
    <3>5. RepairTypeOK' /\ RepairAlone' /\ RepairStored'
      BY <3>1, <3>2, <3>4 DEF GapInv, RepairTypeOK, RepairAlone, RepairStored
    <3>6. WriterStored' /\ ObjectsIntact'
      BY <3>1 DEF GapInv, WriterStored, ObjectsIntact, Recovery
    <3>. QED  BY <3>3, <3>5, <3>6 DEF GapInv
  <2>. QED  BY <2>1, <2>2
<1>3. CASE RepairUpload
  <2>1. PICK date :
          /\ gapFiles' = [gapFiles EXCEPT ![target] =
               {r \in gapFiles[target] : EventTime[r] # date}
                 \union {r \in picked : EventTime[r] = date}]
          /\ put' = put \union {date}
    BY <1>3 DEF RepairUpload
  <2>2. step = "upload" /\ step' = "upload" /\ lock = Operator /\ target \in Ids
        /\ UNCHANGED <<vars, served, after, through, target, picked>>
    BY <1>3 DEF RepairUpload, GapInv, RepairAlone, RepairTypeOK
  <2>3. DataOK' /\ OffsetInv'  BY <1>0, <2>2, RepairFrame
  <2>4. RepairTypeOK'  BY <2>1, <2>2 DEF GapInv, RepairTypeOK
  <2>5. RepairAlone' /\ RepairStored'
    BY <2>1, <2>2 DEF GapInv, RepairTypeOK, RepairAlone, RepairStored
  <2>6. WriterStored'
    BY <1>0, <2>2, RepairExcludes DEF GapInv, WriterStored
  <2>7. ObjectsIntact'
    <3>1. \A b \in ledger : gapFiles'[b.id] = gapFiles[b.id]
      BY <2>1, <2>2, CommittedIds DEF GapInv, RepairTypeOK
    <3>. QED  BY <2>2, <3>1 DEF GapInv, ObjectsIntact, Recovery
  <2>. QED  BY <2>3, <2>4, <2>5, <2>6, <2>7 DEF GapInv
<1>4. CASE RepairCommit
  <2>1. step = "upload" /\ Dates(picked) \ put = {} /\ RepairEnd
    BY <1>4 DEF RepairCommit
  <2>2. CASE UNCHANGED ledger  BY <2>1, <2>2, EndKeeps
  <2>3. CASE ~UNCHANGED ledger
    <3>. DEFINE zero == [p \in Partitions |-> 0]
                new == [id |-> target, lo |-> zero, hi |-> zero,
                        good |-> picked, bad |-> {}, manifest |-> picked]
    <3>1. Tallied /\ ledger' = ledger \union {new}
      BY <1>4, <2>3 DEF RepairCommit
    <3>2. new.id = target /\ new.manifest = picked /\ (\A p \in Partitions : new.lo[p] = 0 /\ new.hi[p] = 0)
      OBVIOUS
    <3>3. new \in Batch
      <4>1. zero \in Positions  BY BoundsAssumption DEF Positions
      <4>. HIDE DEF zero
      <4>. QED  BY <4>1 DEF Batch, GapInv, RepairTypeOK
    <3>. HIDE DEF new
    <3>4. lock = Operator /\ lock' = NoWriter  BY <2>1 DEF RepairEnd, GapInv, RepairAlone
    <3>5. UNCHANGED <<kafkaVars, phase, sparkVars, marks, storeVars, workVars, gapFiles>>
      BY <2>1 DEF RepairEnd
    <3>6. DataOK'  BY <3>1, <3>3, <3>5 DEF GapInv, DataOK, Batch
    <3>7. OffsetInv'
      <4>1. \A p \in Partitions : Covered(p)' = Covered(p)
        <5>. SUFFICES ASSUME NEW p \in Partitions  PROVE Covered(p)' = Covered(p)
          OBVIOUS
        <5>1. new.lo[p] .. (new.hi[p] - 1) = {}  BY <3>2
        <5>. QED  BY <3>1, <5>1 DEF Covered
      <4>2. LockHeld' /\ IdsAbove'
        BY <1>0, <3>4, <3>5, RepairExcludes DEF GapInv, LockHeld, IdsAbove
      <4>3. \A b \in ledger' : b \in ledger \/ \A p \in Partitions : ~(b.lo[p] < b.hi[p])
        BY <3>1, <3>2
      <4>. QED  BY <3>5, <4>1, <4>2, <4>3, OffsetsKept DEF GapInv
    <3>8. RepairTypeOK' /\ RepairAlone' /\ RepairStored'
      <4>1. 0 \in Ids  BY BoundsAssumption DEF Ids
      <4>. QED  BY <2>1, <4>1 DEF RepairEnd, GapInv, RepairTypeOK, RepairAlone, RepairStored
    <3>9. WriterStored'  BY <3>5 DEF GapInv, WriterStored
    <3>10. ObjectsIntact'
      <4>1. gapFiles[target] = picked /\ files[target] = {}  BY <2>1, <3>1, TalliedWhole
      <4>2. Recovery(new)  BY <3>2 DEF Recovery
      <4>3. \A b \in ledger : Recovery(b)' <=> Recovery(b)  BY DEF Recovery
      <4>. QED  BY <3>1, <3>2, <3>5, <4>1, <4>2, <4>3 DEF GapInv, ObjectsIntact, Recovery
    <3>. QED  BY <3>6, <3>7, <3>8, <3>9, <3>10 DEF GapInv
  <2>. QED  BY <2>2, <2>3
<1>5. CASE RepairCrash  BY <1>5, EndKeeps DEF RepairCrash
<1>. QED  BY <1>1, <1>2, <1>3, <1>4, <1>5 DEF Repair

-----------------------------------------------------------------------------
(* The writers *)

\* A step that moves no writer into what WriterStored speaks about.
Quiet ==
  /\ UNCHANGED <<ledger, files>>
  /\ \A w \in Writers :
       /\ phase'[w] \in Working => phase[w] \in Working /\ lo'[w] = lo[w] /\ end'[w] = end[w]
       /\ phase'[w] \in Storing \ {"overwrite"} =>
            phase[w] \in Storing \ {"overwrite"} /\ id'[w] = id[w]
       /\ phase'[w] = "commit" => phase[w] = "commit" /\ manifest'[w] = manifest[w]

\* The steps of process_batch that concern it.
Stores(w) ==
  \/ ReadMarks(w) /\ ~HasGap(w)
  \/ ClearPrefix(w)
  \/ WriteParquet(w)
  \/ BuildManifest(w) /\ phase'[w] = "commit"
  \/ Commit(w) /\ CanInsert(w)

\* A stopped writer has nothing under way.
LEMMA StopQuiet ==
  ASSUME DataOK, NEW w \in Writers, Stop(w)
  PROVE  Quiet
<1>1. /\ phase'[w] = "down" /\ UNCHANGED <<ledger, files, end>>
      /\ \A v \in Writers \ {w} : /\ phase'[v] = phase[v] /\ lo'[v] = lo[v] /\ id'[v] = id[v]
                                  /\ manifest'[v] = manifest[v]
  BY DEF Stop, Goto, Forget, DataOK, dbVars, storeVars, sparkVars
<1>. QED  BY <1>1 DEF Quiet, Working, Storing, Claiming

\* Every other step of the archive is quiet.
LEMMA ArchiveSteps ==
  ASSUME DataOK, [Next]_vars
  PROVE  Quiet \/ \E w \in Writers : Stores(w)
<1>. USE DEF kafkaVars, sparkVars, dbVars, storeVars, workVars, Goto
<1>1. CASE UNCHANGED vars  BY <1>1 DEF vars, Quiet
<1>2. CASE Surroundings
  BY <1>2 DEF Surroundings, Produce, Expire, ClockAdvances, Quiet
<1>3. ASSUME NEW w \in Writers, Crash(w) \/ RecreateCheckpoint(w)  PROVE Quiet
  <2>1. CASE Crash(w)  BY <2>1, StopQuiet DEF Crash
  <2>2. CASE RecreateCheckpoint(w)
    BY <2>2 DEF RecreateCheckpoint, DataOK, Quiet, Working, Storing, Claiming
  <2>. QED  BY <1>3, <2>1, <2>2
<1>4. ASSUME NEW w \in Writers, TriggerLoop(w), ~Stores(w)  PROVE Quiet
  <2>1. CASE Stop(w)  BY <2>1, StopQuiet
  <2>2. CASE ~Stop(w)
    <3>1. /\ UNCHANGED <<ledger, files>>
          /\ \A v \in Writers \ {w} : /\ phase'[v] = phase[v] /\ lo'[v] = lo[v]
                                      /\ end'[v] = end[v] /\ id'[v] = id[v]
                                      /\ manifest'[v] = manifest[v]
      BY <1>4, <2>2 DEF TriggerLoop, Start, Plan, CommitCheckpoint, ProcessBatch, Begin, ReadMarks,
           CheckLedger, Allocate, WriteQuarantine, BuildManifest, Commit, Return, Forget, Stores, DataOK
    <3>2. /\ phase'[w] \in Working => phase[w] \in Working /\ lo'[w] = lo[w] /\ end'[w] = end[w]
          /\ phase'[w] \in Storing \ {"overwrite"} =>
               phase[w] \in Storing \ {"overwrite"} /\ id'[w] = id[w]
          /\ phase'[w] # "commit"
      BY <1>4, <2>2 DEF TriggerLoop, Start, Plan, CommitCheckpoint, ProcessBatch, Begin, ReadMarks,
           CheckLedger, Allocate, WriteQuarantine, BuildManifest, Commit, Return, Forget, Stores,
           DataOK, Working, Storing, Claiming
    <3>. QED  BY <3>1, <3>2 DEF Quiet
  <2>. QED  BY <2>1, <2>2
<1>. QED  BY <1>1, <1>2, <1>3, <1>4 DEF Next, Interruption

\* While a repair runs the writers leave the lock and the ledger alone.
LEMMA ArchiveLock ==
  ASSUME DataOK, OffsetInv, lock \notin Writers, lock # NoWriter, [Next]_vars
  PROVE  lock' = lock /\ ledger' = ledger
<1>. USE DEF kafkaVars, sparkVars, dbVars, storeVars, workVars
<1>1. CASE UNCHANGED vars \/ Surroundings
  BY <1>1 DEF vars, Surroundings, Produce, Expire, ClockAdvances
<1>2. ASSUME NEW w \in Writers, Stop(w)  PROVE lock' = lock /\ ledger' = ledger
  BY <1>2 DEF Stop
<1>3. ASSUME NEW w \in Writers, phase[w] \in Busy  PROVE FALSE
  BY <1>3, RepairExcludes
<1>4. ASSUME NEW w \in Writers, TriggerLoop(w)  PROVE lock' = lock /\ ledger' = ledger
  <2>1. CASE ProcessBatch(w)
    <3>1. Begin(w)
      BY <1>3, <2>1 DEF ProcessBatch, ReadMarks, CheckLedger, Allocate, ClearPrefix, WriteParquet,
         WriteQuarantine, BuildManifest, Commit, Return, Busy, Working, Claiming
    <3>. QED  BY <1>2, <3>1 DEF Begin, LockFree
  <2>2. CASE ~ProcessBatch(w)  BY <1>4, <2>2 DEF TriggerLoop, Start, Plan, CommitCheckpoint
  <2>. QED  BY <2>1, <2>2
<1>. QED
  BY <1>1, <1>2, <1>4 DEF Next, Interruption, Crash, RecreateCheckpoint

\* A step of the archive keeps the invariant.
LEMMA ArchiveKeeps ==
  ASSUME GapInv, ArchiveStep
  PROVE  GapInv'
<1>. USE DEF kafkaVars, sparkVars, dbVars, storeVars, workVars, Goto
<1>1. DataOK /\ OffsetInv /\ DataOK' /\ OffsetInv'
  BY DataStep, OffsetStep DEF GapInv, ArchiveStep
<1>2. UNCHANGED <<served, step, after, through, target, picked, put>>
      /\ gapFiles' = [i \in Ids |->
           IF \E w \in Writers : phase[w] = "overwrite" /\ phase'[w] = "upload" /\ id[w] = i
             THEN {} ELSE gapFiles[i]]
  BY DEF ArchiveStep
<1>3. RepairTypeOK'
  BY <1>2 DEF GapInv, RepairTypeOK
<1>4. RepairAlone' /\ RepairStored'
  <2>1. CASE step = "off"  BY <1>2, <2>1 DEF GapInv, RepairAlone, RepairStored
  <2>2. CASE step # "off"
    <3>1. lock = Operator /\ lock \notin Writers /\ lock # NoWriter
      BY <2>2, RepairAssumption DEF GapInv, RepairAlone
    <3>2. lock' = lock /\ ledger' = ledger  BY <1>1, <3>1, ArchiveLock DEF ArchiveStep
    <3>3. \A w \in Writers : phase[w] # "overwrite"
      BY <1>1, <3>1, RepairExcludes DEF Storing, Claiming
    <3>4. gapFiles' = gapFiles  BY <1>2, <3>3 DEF GapInv, RepairTypeOK
    <3>. QED  BY <1>2, <3>2, <3>4 DEF GapInv, RepairAlone, RepairStored
  <2>. QED  BY <2>1, <2>2
<1>5. \A b \in ledger : gapFiles'[b.id] = gapFiles[b.id]
  <2>1. \A w \in Writers, b \in ledger : phase[w] = "overwrite" => b.id # id[w]
    BY CommittedIds DEF Storing, Claiming
  <2>. QED  BY <1>2, <2>1, CommittedIds
<1>6. ASSUME NEW i \in Ids, gapFiles[i] = {}  PROVE gapFiles'[i] = {}
  BY <1>2, <1>6
<1>7. \A b \in ledger : Recovery(b)' <=> Recovery(b)  BY DEF Recovery
<1>8. CASE Quiet
  <2>1. WriterStored'
    <3>. SUFFICES ASSUME NEW w \in Writers
                  PROVE  /\ phase'[w] \in Working => lo'[w] # end'[w]
                         /\ phase'[w] \in Storing \ {"overwrite"} => gapFiles'[id'[w]] = {}
                         /\ phase'[w] = "commit" => manifest'[w] = files'[id'[w]]
      BY DEF WriterStored
    <3>1. "commit" \in Storing \ {"overwrite"}  BY DEF Storing, Claiming
    <3>2. id[w] \in Ids  BY <1>1 DEF DataOK
    <3>. QED  BY <1>6, <1>8, <3>1, <3>2 DEF Quiet, GapInv, WriterStored
  <2>2. ObjectsIntact'
    BY <1>5, <1>7, <1>8 DEF Quiet, GapInv, ObjectsIntact
  <2>. QED  BY <1>1, <1>3, <1>4, <2>1, <2>2 DEF GapInv
<1>9. ASSUME NEW w \in Writers, Stores(w)  PROVE GapInv'
  <2>1. phase[w] \in Busy /\ id[w] \in Ids /\ id'[w] = id[w] /\ end'[w] = end[w]
        /\ (\A v \in Writers \ {w} : phase'[v] = phase[v])
    <3>1. id[w] \in Ids /\ phase \in [Writers -> Phases]  BY <1>1 DEF DataOK
    <3>2. CASE ReadMarks(w) /\ ~HasGap(w)
      BY <3>1, <3>2 DEF ReadMarks, Busy, Working, Claiming
    <3>3. CASE ClearPrefix(w)
      BY <3>1, <3>3 DEF ClearPrefix, Busy, Working, Claiming
    <3>4. CASE WriteParquet(w)
      BY <3>1, <3>4 DEF WriteParquet, Busy, Working, Claiming
    <3>5. CASE BuildManifest(w) /\ phase'[w] = "commit"
      BY <3>1, <3>5 DEF BuildManifest, Stop, Busy, Working, Claiming
    <3>6. CASE Commit(w) /\ CanInsert(w)
      BY <3>1, <3>6 DEF Commit, Busy, Working, Claiming
    <3>. QED  BY <1>9, <3>2, <3>3, <3>4, <3>5, <3>6 DEF Stores
  <2>2. \A v \in Writers \ {w} : phase'[v] \notin Working /\ phase'[v] \notin Storing
    BY <1>1, <2>1 DEF OffsetInv, LockHeld, Busy, Working, Storing
  <2>3. ASSUME phase'[w] \in Working => lo'[w] # end'[w],
               phase'[w] \in Storing \ {"overwrite"} => gapFiles'[id'[w]] = {},
               phase'[w] = "commit" => manifest'[w] = files'[id'[w]]
        PROVE  WriterStored'
    BY <2>2, <2>3 DEF WriterStored, Storing, Claiming
  <2>4. /\ phase[w] \in Working => lo[w] # end[w]
        /\ phase[w] \in Storing \ {"overwrite"} => gapFiles[id[w]] = {}
        /\ phase[w] = "commit" => manifest[w] = files[id[w]]
    BY DEF GapInv, WriterStored
  <2>5. CASE ReadMarks(w) /\ ~HasGap(w)
    <3>1. phase'[w] = (IF Trimmed(w) = end[w] THEN "return" ELSE "ledger")
          /\ lo'[w] = Trimmed(w) /\ UNCHANGED <<ledger, files, end>>
      BY <1>1, <2>5 DEF ReadMarks, DataOK
    <3>2. WriterStored'  BY <2>3, <3>1 DEF Working, Storing, Claiming
    <3>3. ObjectsIntact'  BY <1>5, <1>7, <3>1 DEF GapInv, ObjectsIntact
    <3>. QED  BY <1>1, <1>3, <1>4, <3>2, <3>3 DEF GapInv
  <2>6. CASE ClearPrefix(w)
    <3>1. phase[w] = "overwrite" /\ phase'[w] = "upload" /\ lo' = lo /\ UNCHANGED <<ledger, end>>
          /\ files' = [files EXCEPT ![id[w]] = {}]
      BY <1>1, <2>6 DEF ClearPrefix, DataOK
    <3>2. gapFiles'[id'[w]] = {}  BY <1>2, <2>1, <3>1
    <3>3. WriterStored'  BY <2>3, <2>4, <3>1, <3>2 DEF Working, Storing, Claiming
    <3>4. \A b \in ledger : files'[b.id] = files[b.id]
      BY <1>1, <3>1, CommittedIds DEF DataOK, Storing, Claiming
    <3>5. ObjectsIntact'  BY <1>5, <1>7, <3>1, <3>4 DEF GapInv, ObjectsIntact
    <3>. QED  BY <1>1, <1>3, <1>4, <3>3, <3>5 DEF GapInv
  <2>7. CASE WriteParquet(w)
    <3>1. phase[w] = "upload" /\ phase'[w] = "quarantine" /\ lo' = lo /\ UNCHANGED <<ledger, end>>
          /\ files' = [files EXCEPT ![id[w]] = @ \union kept[w]]
      BY <1>1, <2>7 DEF WriteParquet, DataOK
    <3>2. gapFiles'[id'[w]] = {}  BY <1>6, <2>1, <2>4, <3>1 DEF Storing, Claiming
    <3>3. WriterStored'  BY <2>3, <2>4, <3>1, <3>2 DEF Working, Storing, Claiming
    <3>4. \A b \in ledger : files'[b.id] = files[b.id]
      BY <1>1, <3>1, CommittedIds DEF DataOK, Storing, Claiming
    <3>5. ObjectsIntact'  BY <1>5, <1>7, <3>1, <3>4 DEF GapInv, ObjectsIntact
    <3>. QED  BY <1>1, <1>3, <1>4, <3>3, <3>5 DEF GapInv
  <2>8. CASE BuildManifest(w) /\ phase'[w] = "commit"
    <3>1. phase[w] = "manifest" /\ manifest'[w] = files[id[w]] /\ lo' = lo
          /\ UNCHANGED <<ledger, files, end>>
      BY <1>1, <2>8 DEF BuildManifest, Stop, DataOK
    <3>2. gapFiles'[id'[w]] = {}  BY <1>6, <2>1, <2>4, <3>1 DEF Storing, Claiming
    <3>3. WriterStored'  BY <2>1, <2>3, <2>4, <2>8, <3>1, <3>2 DEF Working, Storing, Claiming
    <3>4. ObjectsIntact'  BY <1>5, <1>7, <3>1 DEF GapInv, ObjectsIntact
    <3>. QED  BY <1>1, <1>3, <1>4, <3>3, <3>4 DEF GapInv
  <2>9. CASE Commit(w) /\ CanInsert(w)
    <3>. DEFINE new == [id |-> id[w], lo |-> lo[w], hi |-> end[w], good |-> kept[w],
                        bad |-> BatchRows(w) \ kept[w], manifest |-> manifest[w]]
    <3>1. phase[w] = "commit" /\ phase'[w] = "return" /\ files' = files
          /\ ledger' = ledger \union {new}
      BY <1>1, <2>9 DEF Commit, DataOK
    <3>2. WriterStored'  BY <2>3, <3>1 DEF Working, Storing, Claiming
    <3>3. lo[w] # end[w] /\ gapFiles[id[w]] = {} /\ manifest[w] = files[id[w]]
      BY <2>4, <3>1 DEF Working, Storing, Claiming
    <3>4. ~Recovery(new)
      <4>1. lo[w] \in Positions /\ end[w] \in Positions  BY <1>1 DEF DataOK
      <4>. QED  BY <3>3, <4>1 DEF Recovery, Positions
    <3>5. new.id = id[w] /\ new.manifest = manifest[w]  OBVIOUS
    <3>6. gapFiles'[id[w]] = {}  BY <1>6, <2>1, <3>3
    <3>. HIDE DEF new
    <3>7. ObjectsIntact'
      BY <1>5, <1>7, <3>1, <3>3, <3>4, <3>5, <3>6 DEF GapInv, ObjectsIntact, Recovery
    <3>. QED  BY <1>1, <1>3, <1>4, <3>2, <3>7 DEF GapInv
  <2>. QED  BY <1>9, <2>5, <2>6, <2>7, <2>8, <2>9 DEF Stores
<1>. QED  BY <1>1, <1>8, <1>9, ArchiveSteps DEF ArchiveStep

-----------------------------------------------------------------------------
(* The theorems *)

\* The inductive invariant of archive and repair: offsets, lock and prefixes.
THEOREM GapInvariant == GapSpec => []GapInv
<1>1. GapInit => GapInv
  <2>. SUFFICES ASSUME GapInit  PROVE GapInv
    OBVIOUS
  <2>1. DataOK /\ OffsetInv
    <3>1. Init  BY DEF GapInit
    <3>2. DataOK  BY <3>1, BoundsAssumption DEF Init, DataOK, Positions, Phases, Ids
    <3>. QED  BY <3>1, <3>2, OffsetInit
  <2>2. 0 \in Ids  BY BoundsAssumption DEF Ids
  <2>3. RepairTypeOK /\ RepairAlone /\ RepairStored
    BY <2>2 DEF GapInit, RepairTypeOK, RepairAlone, RepairStored
  <2>4. WriterStored /\ ObjectsIntact
    BY DEF GapInit, Init, WriterStored, ObjectsIntact, Working, Storing, Claiming
  <2>. QED  BY <2>1, <2>3, <2>4 DEF GapInv
<1>2. GapInv /\ [GapNext]_gapVars => GapInv'
  <2>. SUFFICES ASSUME GapInv, [GapNext]_gapVars  PROVE GapInv'
    OBVIOUS
  <2>1. CASE UNCHANGED <<vars, step, target, picked, put, gapFiles>>
    <3>1. DataOK' /\ OffsetInv'  BY <2>1, DataStep, OffsetStep DEF GapInv
    <3>2. RepairTypeOK' /\ RepairAlone' /\ RepairStored'
      BY <2>1 DEF vars, dbVars, GapInv, RepairTypeOK, RepairAlone, RepairStored
    <3>3. WriterStored' /\ ObjectsIntact'
      BY <2>1 DEF vars, dbVars, storeVars, sparkVars, workVars, GapInv, WriterStored, ObjectsIntact,
                  Recovery
    <3>. QED  BY <3>1, <3>2, <3>3 DEF GapInv
  <2>. QED
    BY <2>1, ArchiveKeeps, RepairKeeps DEF GapNext, Serve, gapVars, repairVars
<1>. QED  BY <1>1, <1>2, PTL DEF GapSpec

\* Under every committed id lie exactly the objects that its ledger row lists
\* (repair_archive_gap.py beside process_batch, crashes of both included).
THEOREM ObjectsIntactAlways == GapSpec => []ObjectsIntact
<1>1. GapInv => ObjectsIntact  BY DEF GapInv
<1>. QED  BY GapInvariant, <1>1, PTL

-----------------------------------------------------------------------------
(* What RawArchive promises of offsets, with repairs beside the writers *)

\* The archive sees a repair as a change of the lock, and of the ledger by entries of no
\* offset at all.
Elsewhere ==
  /\ UNCHANGED <<phase, start, marks>>
  /\ \A b \in ledger' : b \in ledger \/ \A p \in Partitions : ~(b.lo[p] < b.hi[p])
  /\ ledger \subseteq ledger'

LEMMA GapSteps ==
  ASSUME [GapNext]_gapVars
  PROVE  [Next]_vars \/ Elsewhere
<1>. USE DEF dbVars, sparkVars
<1>1. CASE UNCHANGED gapVars  BY <1>1 DEF gapVars
<1>2. CASE ArchiveStep  BY <1>2 DEF ArchiveStep
<1>3. CASE Serve  BY <1>3 DEF Serve
<1>4. CASE RepairCommit
  <2>1. ledger' = ledger \/ \E g, m : ledger' = ledger \union
          {[id |-> target, lo |-> [p \in Partitions |-> 0], hi |-> [p \in Partitions |-> 0],
            good |-> g, bad |-> {}, manifest |-> m]}
    BY <1>4 DEF RepairCommit
  <2>2. UNCHANGED <<phase, start, marks>>  BY <1>4 DEF RepairCommit, RepairEnd
  <2>. QED  BY <2>1, <2>2 DEF Elsewhere
<1>5. CASE RepairBegin \/ RepairSelect \/ RepairUpload \/ RepairCrash
  BY <1>5 DEF RepairBegin, RepairSelect, RepairUpload, RepairCrash, RepairEnd, vars, Elsewhere
<1>. QED  BY <1>1, <1>2, <1>3, <1>4, <1>5 DEF GapNext, Repair

LEMMA ElsewhereKeeps ==
  ASSUME DataOK, DataOK', NoRowTwice, Elsewhere
  PROVE  NoRowTwice' /\ \A p \in Partitions : Covered(p)' = Covered(p)
<1>1. ASSUME NEW b \in ledger', b \notin ledger
      PROVE  Rows(b.lo, b.hi) = {} /\ \A p \in Partitions : b.lo[p] .. (b.hi[p] - 1) = {}
  <2>1. \A p \in Partitions : ~(b.lo[p] < b.hi[p])  BY <1>1 DEF Elsewhere
  <2>2. b.lo \in Positions /\ b.hi \in Positions  BY DEF DataOK, Batch
  <2>3. \A p \in Partitions : b.lo[p] \in Int /\ b.hi[p] \in Int  BY <2>2 DEF Positions
  <2>. QED  BY <2>1, <2>3 DEF Rows, AllRows, Offsets
<1>2. NoRowTwice'
  <2>. SUFFICES ASSUME NEW a \in ledger', NEW b \in ledger', a # b
                PROVE  Rows(a.lo, a.hi) \cap Rows(b.lo, b.hi) = {}
    BY DEF NoRowTwice, Rows
  <2>. QED  BY <1>1 DEF NoRowTwice
<1>. QED  BY <1>1, <1>2 DEF Covered, Elsewhere

\* Repairs leave the offsets alone: an offset is accounted for once and without a hole,
\* although a recovered row has an entry of its own beside them (repair_archive_gap.py).
THEOREM RepairKeepsOffsets == GapSpec => [](NoRowTwice /\ NoHole)
<1>1. GapInv => DataOK /\ OffsetInv  BY DEF GapInv
<1>2. GapInit => NoRowTwice  BY DEF GapInit, Init, NoRowTwice
<1>3. DataOK /\ DataOK' /\ OffsetInv /\ NoRowTwice /\ [GapNext]_gapVars => NoRowTwice'
  BY GapSteps, ElsewhereKeeps, NoRowTwiceStep
<1>4. DataOK /\ OffsetInv => NoHole  BY NoHoleIf
<1>. QED  BY <1>1, <1>2, <1>3, <1>4, GapInvariant, PTL DEF GapSpec

\* Spark's checkpoint follows the ledger beside repairs too, whose rows do not count for it.
THEOREM GapCheckpointFollows == GapSpec => CheckpointFollowsArchive
<1>. DEFINE Follows ==
       \A w \in Writers :
         phase[w] = "done" /\ phase'[w] = "idle" =>
           \A p \in Partitions : start[w][p] .. (start'[w][p] - 1) \subseteq Covered(p)
<1>1. GapInv /\ [GapNext]_gapVars => [Follows]_vars
  <2>. SUFFICES ASSUME GapInv, [GapNext]_gapVars, NEW w \in Writers,
                       phase[w] = "done", phase'[w] = "idle"
                PROVE  \A p \in Partitions : start[w][p] .. (start'[w][p] - 1) \subseteq Covered(p)
    OBVIOUS
  <2>1. Next  BY GapSteps DEF Elsewhere, vars
  <2>. QED  BY <2>1, FollowsHeld DEF GapInv
<1>. QED  BY <1>1, GapInvariant, PTL DEF GapSpec, CheckpointFollowsArchive

\* RawArchive with repairs beside it implements ContiguousArchive.
THEOREM GapRefinement == GapSpec => ImplementsContiguousArchive
<1>1. GapInit => Contiguous!Init
  BY DEF GapInit, Init, Contiguous!Init, Covered
<1>2. GapInv => DataOK /\ OffsetInv  BY DEF GapInv
<1>3. /\ DataOK /\ DataOK' /\ OffsetInv /\ NoRowTwice /\ NoHole /\ NoHole'
      /\ [GapNext]_gapVars
      => [Contiguous!Next]_[p \in Partitions |-> Covered(p)]
  BY GapSteps, ElsewhereKeeps, ExtendsRun
<1>. QED  BY <1>1, <1>2, <1>3, GapInvariant, RepairKeepsOffsets, PTL
          DEF GapSpec, ImplementsContiguousArchive, Contiguous!Spec
=============================================================================
