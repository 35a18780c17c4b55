-------------------------- MODULE RawArchiveProofs --------------------------
(***************************************************************************)
(* Theorems about RawArchive for every number of partitions and writers,   *)
(* every bound and every choice of suspect rows.                           *)
(***************************************************************************)
EXTENDS RawArchive, TLAPS

USE BoundsAssumption, WritersAssumption, DataAssumption DEF Absent, LockFree, Planned, Continues, Rejected, Advanced

\* A batch that starts where it was planned, or at a mark inside it, is a batch.
LEMMA TrimmedType ==
  ASSUME DataOK, NEW w \in Writers
  PROVE  Trimmed(w) \in Positions
<1>1. ASSUME NEW p \in Partitions
      PROVE  Trimmed(w)[p] \in 0 .. MaxOffset
  BY <1>1 DEF Trimmed, DataOK, Positions
<1>. QED  BY <1>1 DEF Trimmed, Positions

\* The working state of a call of process_batch is reset to values of its type.
LEMMA ForgetType ==
  ASSUME DataOK, NEW w \in Writers, Forget(w)
  PROVE  /\ lo' \in [Writers -> Positions] /\ id' \in [Writers -> Ids]
         /\ kept' \in [Writers -> SUBSET AllRows]
         /\ manifest' \in [Writers -> SUBSET AllRows]
BY DEF DataOK, Forget, Positions, Ids

\* Stopping a writer keeps the types.
LEMMA StopType ==
  ASSUME DataOK, NEW w \in Writers, Stop(w)
  PROVE  DataOK'
<1>1. Forget(w)  BY DEF Stop
<1>. QED  BY <1>1, ForgetType DEF DataOK, Stop, Goto, Phases, kafkaVars, sparkVars, dbVars, storeVars

\* The steps of process_batch keep the types.
LEMMA ProcessBatchType ==
  ASSUME DataOK, NEW w \in Writers, ProcessBatch(w)
  PROVE  DataOK'
<1>. USE DEF Goto, Phases, kafkaVars, sparkVars, dbVars, storeVars, workVars
<1>1. CASE Begin(w)  BY <1>1, StopType DEF Begin, DataOK
<1>2. CASE ReadMarks(w)  BY <1>2, StopType, TrimmedType DEF ReadMarks, DataOK
<1>3. CASE CheckLedger(w)  BY <1>3, StopType DEF CheckLedger, DataOK
<1>4. CASE Allocate(w)  BY <1>4 DEF Allocate, DataOK
<1>5. CASE ClearPrefix(w)  BY <1>5 DEF ClearPrefix, DataOK, BatchRows, Rows
<1>6. CASE WriteParquet(w)  BY <1>6 DEF WriteParquet, DataOK
<1>7. CASE WriteQuarantine(w)  BY <1>7 DEF WriteQuarantine, DataOK, BatchRows, Rows
<1>8. CASE BuildManifest(w)  BY <1>8, StopType DEF BuildManifest, DataOK
<1>9. CASE Commit(w)
  <2>1. CASE ~CanInsert(w)  BY <1>9, <2>1, StopType DEF Commit
  <2>2. CASE CanInsert(w)
    <3>1. marks' \in [Partitions -> 0 .. MaxOffset \union {Absent}]
      <4>1. marks' = [p \in Partitions |-> IF InBatch(w, p) THEN end[w][p] ELSE marks[p]]
        BY <1>9, <2>2 DEF Commit
      <4>2. ASSUME NEW p \in Partitions
            PROVE  /\ end[w][p] \in 0 .. MaxOffset
                   /\ marks[p] \in 0 .. MaxOffset \union {Absent}
        BY DEF DataOK, Positions
      <4>. HIDE DEF Absent
      <4>. QED  BY <4>1, <4>2
    <3>2. ledger' \subseteq Batch
      BY <1>9, <2>2 DEF Commit, DataOK, Batch, BatchRows, Rows
    <3>. QED  BY <1>9, <2>2, <3>1, <3>2 DEF Commit, DataOK
  <2>. QED  BY <2>1, <2>2
<1>10. CASE Return(w)  BY <1>10, StopType, ForgetType DEF Return, DataOK
<1>. QED  BY <1>1, <1>2, <1>3, <1>4, <1>5, <1>6, <1>7, <1>8, <1>9, <1>10 DEF ProcessBatch

\* Every step keeps the types of the data, whoever may hold the lock.
LEMMA DataStep ==
  ASSUME DataOK, [Next]_vars
  PROVE  DataOK'
<1>. USE DEF Goto, Phases, kafkaVars, sparkVars, dbVars, storeVars, workVars
<1>1. CASE UNCHANGED vars  BY <1>1 DEF vars, DataOK
<1>2. ASSUME NEW p \in Partitions, Produce(p) PROVE DataOK'
  BY <1>2 DEF Produce, DataOK, Positions
<1>3. ASSUME NEW p \in Partitions, Expire(p) PROVE DataOK'
  BY <1>3 DEF Expire, DataOK, Positions
<1>4. CASE ClockAdvances
  <2>1. ripe' \in SUBSET Suspect  BY <1>4 DEF ClockAdvances, DataOK
  <2>. QED  BY <1>4, <2>1 DEF ClockAdvances, DataOK
<1>6. ASSUME NEW w \in Writers, TriggerLoop(w) PROVE DataOK'
  <2>1. CASE Start(w)
    <3>1. start' \in [Writers -> Positions] /\ end' \in [Writers -> Positions]
      BY <2>1 DEF Start, DataOK
    <3>. QED  BY <2>1, <3>1 DEF Start, DataOK
  <2>2. CASE Plan(w)
    <3>1. end' \in [Writers -> Positions]  BY <2>2 DEF Plan, DataOK
    <3>. QED  BY <2>2, <3>1 DEF Plan, DataOK
  <2>3. CASE ProcessBatch(w)  BY <2>3, ProcessBatchType
  <2>4. CASE CommitCheckpoint(w)  BY <2>4 DEF CommitCheckpoint, DataOK
  <2>. QED  BY <1>6, <2>1, <2>2, <2>3, <2>4 DEF TriggerLoop
<1>7. ASSUME NEW w \in Writers, Crash(w) PROVE DataOK'
  BY <1>7, StopType DEF Crash
<1>8. ASSUME NEW w \in Writers, RecreateCheckpoint(w) PROVE DataOK'
  BY <1>8 DEF RecreateCheckpoint, DataOK
<1>. QED  BY <1>1, <1>2, <1>3, <1>4, <1>6, <1>7, <1>8 DEF Next, Surroundings, Interruption

LEMMA DataInit == Init => DataOK
BY DEF Init, DataOK, Positions, Phases, Ids

\* Type correctness of the raw archive consumer.
THEOREM TypeCorrect == Spec => []TypeOK
<1>1. Init => TypeOK
  BY DataInit DEF Init, TypeOK
<1>2. TypeOK /\ [Next]_vars => TypeOK'
  <2>. SUFFICES ASSUME TypeOK, [Next]_vars PROVE lock' \in Writers \union {NoWriter}
    BY DataStep DEF TypeOK
  <2>. USE DEF Stop, TypeOK, kafkaVars, sparkVars, dbVars, storeVars, workVars
  <2>. QED
    BY DEF Next, Surroundings, Interruption, Produce, Expire, ClockAdvances, Crash,
           RecreateCheckpoint, TriggerLoop, Start, Plan, CommitCheckpoint, ProcessBatch, Begin,
           ReadMarks, CheckLedger, Allocate, ClearPrefix, WriteParquet, WriteQuarantine,
           BuildManifest, Commit, Return, vars
<1>. QED  BY <1>1, <1>2, PTL DEF Spec

-----------------------------------------------------------------------------
(***************************************************************************)
(* Offsets.  OffsetInv is inductive as Spec lets the session of the lock   *)
(* live as long as the call that took it.                                  *)
(***************************************************************************)

\* Steps that leave Kafka, checkpoints, ledger and the trimmed batch alone,
\* and move at most one writer, between phases that promise no more.
LEMMA OffsetFrame ==
  ASSUME DataOK, DataOK', OffsetInv, NEW w \in Writers,
         UNCHANGED <<logLow, sparkVars, dbVars>>,
         \A v \in Writers \ {w} : phase'[v] = phase[v] /\ lo'[v] = lo[v] /\ id'[v] = id[v],
         LockHeld',
         phase'[w] \in Busy \union {"done"} => phase[w] \in Busy \union {"done"},
         phase'[w] \in Working => phase[w] \in Working /\ lo'[w] = lo[w],
         phase'[w] \in Claiming => phase[w] \in Claiming,
         phase'[w] \in Storing => phase[w] \in Storing /\ id'[w] = id[w],
         phase'[w] \in {"return", "done"} => phase[w] \in {"return", "done"}
  PROVE  OffsetInv'
<1>. USE DEF sparkVars, dbVars, OffsetInv
<1>0. \A p \in Partitions : Covered(p)' = Covered(p)
  BY DEF Covered
<1>1. CheckpointBehind' /\ EntriesBelowMarks'
  BY DEF CheckpointBehind, EntriesBelowMarks
<1>2. RunsEndAtMarks' /\ RetainedCovered'
  BY <1>0 DEF RunsEndAtMarks, RetainedCovered, CoveredFrom
<1>3. ReplayCovered'
  BY <1>0 DEF ReplayCovered, CoveredFrom, Planned
<1>4. TrimSound'
  BY DEF TrimSound, Planned, InBatch
<1>5. MarksStillChecked'
  BY DEF MarksStillChecked, InBatch, Working
<1>6. IdsAbove' /\ FinishedBelowMarks'
  BY DEF IdsAbove, FinishedBelowMarks, Planned
<1>. QED  BY <1>1, <1>2, <1>3, <1>4, <1>5, <1>6

\* Stopping a writer gives its lock back and forgets its batch.
LEMMA OffsetStop ==
  ASSUME DataOK, DataOK', OffsetInv, NEW w \in Writers, Stop(w)
  PROVE  OffsetInv'
<1>1. phase' = [phase EXCEPT ![w] = "down"]  BY DEF Stop, Goto
<1>2. /\ phase'[w] = "down"
      /\ \A v \in Writers \ {w} : phase'[v] = phase[v] /\ lo'[v] = lo[v] /\ id'[v] = id[v]
  BY <1>1 DEF DataOK, Stop, Forget
<1>3. LockHeld'
  BY <1>2 DEF OffsetInv, LockHeld, Stop, Busy, Working, Claiming
<1>. QED  BY <1>2, <1>3, OffsetFrame DEF Stop, kafkaVars, Busy, Working, Claiming, Storing

\* Retention only removes rows.
LEMMA OffsetExpire ==
  ASSUME DataOK, OffsetInv, NEW q \in Partitions, Expire(q)
  PROVE  OffsetInv'
<1>. USE DEF Expire, OffsetInv, sparkVars, dbVars, workVars
<1>0. \A p \in Partitions : Covered(p)' = Covered(p)
  BY DEF Covered
<1>1. \A p \in Partitions : logLow[p] <= logLow'[p]
  BY DEF DataOK, Positions
<1>2. CheckpointBehind'
  <2>. SUFFICES ASSUME NEW w \in Writers, NEW p \in Partitions
                PROVE  /\ start[w][p] <= end[w][p]
                       /\ start[w][p] <= logLow'[p] \/ start[w][p] <= marks[p]
    BY DEF CheckpointBehind
  <2>1. start[w][p] \in Int /\ logLow[p] \in Int /\ logLow'[p] \in Int
    BY DEF DataOK, Positions
  <2>. QED  BY <1>1, <2>1 DEF CheckpointBehind
<1>3. RetainedCovered'
  <2>1. \A p \in Partitions : logLow[p] \in Int /\ logLow'[p] \in Int
    BY DEF DataOK, Positions
  <2>. QED  BY <1>0, <1>1, <2>1 DEF RetainedCovered, CoveredFrom, Offsets
<1>4. RunsEndAtMarks' /\ EntriesBelowMarks' /\ LockHeld'
  BY <1>0 DEF RunsEndAtMarks, EntriesBelowMarks, LockHeld
<1>5. ReplayCovered' /\ TrimSound' /\ MarksStillChecked' /\ IdsAbove' /\ FinishedBelowMarks'
  BY <1>0 DEF ReplayCovered, CoveredFrom, Planned, TrimSound, InBatch, MarksStillChecked,
              IdsAbove, FinishedBelowMarks
<1>. QED  BY <1>2, <1>3, <1>4, <1>5

\* A new checkpoint starts at the oldest retained row.
LEMMA OffsetStart ==
  ASSUME DataOK, DataOK', OffsetInv, NEW w \in Writers, Start(w)
  PROVE  OffsetInv'
<1>. USE DEF Start, OffsetInv, kafkaVars, dbVars, workVars
<1>1. phase'[w] = "idle" /\ \A v \in Writers \ {w} : phase'[v] = phase[v]
  BY DEF Goto, DataOK
<1>2. CASE phase[w] = "down"
  <2>1. LockHeld'  BY <1>1 DEF LockHeld, Busy, Working, Claiming
  <2>. QED  BY <1>1, <1>2, <2>1, OffsetFrame DEF Busy, Working, Claiming, Storing
<1>3. CASE phase[w] = "fresh"
  <2>1. /\ start'[w] = logLow /\ end'[w] = logLow
        /\ \A v \in Writers \ {w} : start'[v] = start[v] /\ end'[v] = end[v]
    BY <1>3 DEF DataOK
  <2>2. \A p \in Partitions : logLow[p] \in Int  BY DEF DataOK, Positions
  <2>3. \A p \in Partitions : Covered(p)' = Covered(p)  BY DEF Covered
  <2>4. phase'[w] \notin Busy \union {"done"}
    BY <1>1 DEF Busy, Working, Claiming
  <2>5. CheckpointBehind'  BY <2>1, <2>2 DEF CheckpointBehind
  <2>6. LockHeld' /\ EntriesBelowMarks' /\ RunsEndAtMarks' /\ RetainedCovered'
    BY <1>1, <2>3, <2>4 DEF LockHeld, EntriesBelowMarks, RunsEndAtMarks, RetainedCovered, CoveredFrom
  <2>7. ReplayCovered'
    BY <1>1, <2>1, <2>3, <2>4 DEF ReplayCovered, CoveredFrom, Planned
  <2>8. TrimSound' /\ MarksStillChecked' /\ IdsAbove' /\ FinishedBelowMarks'
    BY <1>1, <2>1, <2>4 DEF TrimSound, Planned, InBatch, MarksStillChecked, IdsAbove,
       FinishedBelowMarks, Busy, Working, Claiming, Storing
  <2>. QED  BY <2>5, <2>6, <2>7, <2>8
<1>. QED  BY <1>2, <1>3

\* Planning moves the end of a range whose writer is between two batches.
LEMMA OffsetPlan ==
  ASSUME DataOK, DataOK', OffsetInv, NEW w \in Writers, Plan(w)
  PROVE  OffsetInv'
<1>. USE DEF Plan, OffsetInv, kafkaVars, dbVars, workVars
<1>1. PICK target \in Positions :
        /\ \A p \in Partitions : start[w][p] <= target[p]
        /\ end' = [end EXCEPT ![w] = target]
  OBVIOUS
<1>2. end'[w] = target /\ \A v \in Writers \ {w} : end'[v] = end[v]
  BY <1>1 DEF DataOK
<1>3. \A p \in Partitions : Covered(p)' = Covered(p)  BY DEF Covered
<1>4. phase'[w] \notin Busy \union {"done"}
  BY DEF Busy, Working, Claiming
<1>5. CheckpointBehind'  BY <1>1, <1>2 DEF CheckpointBehind
<1>6. LockHeld' /\ EntriesBelowMarks' /\ RunsEndAtMarks' /\ RetainedCovered' /\ IdsAbove'
  BY <1>3 DEF LockHeld, EntriesBelowMarks, RunsEndAtMarks, RetainedCovered, CoveredFrom, IdsAbove
<1>7. ReplayCovered'
  BY <1>2, <1>3, <1>4 DEF ReplayCovered, CoveredFrom, Planned
<1>8. TrimSound' /\ MarksStillChecked' /\ FinishedBelowMarks'
  BY <1>2, <1>4 DEF TrimSound, Planned, InBatch, MarksStillChecked,
     FinishedBelowMarks, Busy, Working, Claiming
<1>. QED  BY <1>5, <1>6, <1>7, <1>8

\* Rows that can still be read lie where nothing below the mark is missing.
LEMMA OffsetBegin ==
  ASSUME DataOK, DataOK', OffsetInv, NEW w \in Writers, Begin(w)
  PROVE  OffsetInv'
<1>. USE DEF OffsetInv
<1>1. CASE ~(lock = NoWriter /\ Readable(w))  BY <1>1, OffsetStop DEF Begin
<1>2. CASE lock = NoWriter /\ Readable(w)
  <2>. USE <1>2 DEF Begin, kafkaVars, sparkVars, dbVars, workVars
  <2>1. phase'[w] = "marks" /\ \A v \in Writers \ {w} : phase'[v] = phase[v]
    BY DEF Goto, DataOK
  <2>2. \A p \in Partitions : Covered(p)' = Covered(p)  BY DEF Covered
  <2>3. LockHeld'
    <3>1. \A v \in Writers : phase[v] \notin Busy  BY DEF LockHeld
    <3>. QED  BY <2>1, <3>1 DEF LockHeld
  <2>4. CheckpointBehind' /\ EntriesBelowMarks' /\ RunsEndAtMarks' /\ RetainedCovered'
    BY <2>2 DEF CheckpointBehind, EntriesBelowMarks, RunsEndAtMarks, RetainedCovered, CoveredFrom
  <2>5. ReplayCovered'
    <3>. SUFFICES ASSUME NEW v \in Writers, NEW p \in Partitions,
                         phase'[v] \in Busy \union {"done"}, Planned(v, p),
                         NEW x \in Offsets, start[v][p] <= x, x < marks[p]
                  PROVE  x \in Covered(p)
      BY <2>2 DEF ReplayCovered, CoveredFrom, Planned
    <3>1. CASE v = w
      <4>1. logLow[p] <= start[w][p]  BY <3>1 DEF Readable, Planned
      <4>2. logLow[p] \in Int /\ start[w][p] \in Int /\ x \in Int
        BY DEF DataOK, Positions, Offsets
      <4>3. logLow[p] <= x  BY <3>1, <4>1, <4>2
      <4>. QED  BY <4>3 DEF RetainedCovered, CoveredFrom
    <3>2. CASE v # w
      BY <2>1, <3>2 DEF ReplayCovered, CoveredFrom
    <3>. QED  BY <3>1, <3>2
  <2>6. TrimSound' /\ MarksStillChecked' /\ IdsAbove' /\ FinishedBelowMarks'
    BY <2>1 DEF TrimSound, Planned, InBatch, MarksStillChecked, IdsAbove,
       FinishedBelowMarks, Working, Claiming, Storing
  <2>. QED  BY <2>3, <2>4, <2>5, <2>6
<1>. QED  BY <1>1, <1>2

\* Trimming removes exactly the part of the batch below the marks.
LEMMA OffsetReadMarks ==
  ASSUME DataOK, DataOK', OffsetInv, NEW w \in Writers, ReadMarks(w)
  PROVE  OffsetInv'
<1>. USE DEF OffsetInv
<1>1. CASE HasGap(w)  BY <1>1, OffsetStop DEF ReadMarks
<1>2. CASE ~HasGap(w)
  <2>. USE <1>2 DEF ReadMarks, kafkaVars, sparkVars, dbVars
  <2>1. /\ phase[w] = "marks"
        /\ phase'[w] = IF Trimmed(w) = end[w] THEN "return" ELSE "ledger"
        /\ \A v \in Writers \ {w} : phase'[v] = phase[v] /\ lo'[v] = lo[v]
        /\ lo'[w] = Trimmed(w)
    BY DEF Goto, DataOK
  <2>2. \A p \in Partitions : Covered(p)' = Covered(p)  BY DEF Covered
  <2>3. phase'[w] \notin Claiming /\ phase[w] \in Busy
    BY <2>1 DEF Claiming, Busy
  <2>4. LockHeld'  BY <2>1, <2>3 DEF LockHeld
  <2>5. CheckpointBehind' /\ EntriesBelowMarks' /\ RunsEndAtMarks' /\ RetainedCovered'
    BY <2>2 DEF CheckpointBehind, EntriesBelowMarks, RunsEndAtMarks, RetainedCovered, CoveredFrom
  <2>6. ReplayCovered'
    BY <2>1, <2>2, <2>3 DEF ReplayCovered, CoveredFrom, Planned
  <2>7. MarksStillChecked' /\ IdsAbove'
    BY <2>1, <2>3 DEF MarksStillChecked, IdsAbove, Storing, InBatch
  <2>8. ASSUME NEW p \in Partitions
        PROVE  /\ start[w][p] <= Trimmed(w)[p] /\ Trimmed(w)[p] <= end[w][p]
               /\ marks[p] = Absent => Trimmed(w)[p] = start[w][p]
               /\ Planned(w, p) /\ ~(Trimmed(w)[p] < end[w][p]) => end[w][p] <= marks[p]
    <3>1. /\ start[w][p] \in 0 .. MaxOffset /\ end[w][p] \in 0 .. MaxOffset
          /\ marks[p] \in Int
      BY DEF DataOK, Positions
    <3>2. start[w][p] <= end[w][p]  BY DEF CheckpointBehind
    <3>. QED  BY <3>1, <3>2 DEF Trimmed, Planned
  <2>9. TrimSound'
    <3>1. \A v \in Writers \ {w} : phase'[v] \notin Working
      <4>1. \A v \in Writers \ {w} : phase[v] \notin Busy  BY <2>3 DEF LockHeld
      <4>. QED  BY <2>1, <4>1 DEF Busy
    <3>. QED  BY <2>1, <2>8, <3>1 DEF TrimSound, Planned, InBatch
  <2>10. FinishedBelowMarks'
    <3>. SUFFICES ASSUME NEW v \in Writers, NEW p \in Partitions,
                         phase'[v] \in {"return", "done"}, Planned(v, p)
                  PROVE  end[v][p] <= marks[p]
      BY DEF FinishedBelowMarks, Planned
    <3>1. CASE v # w  BY <2>1, <3>1 DEF FinishedBelowMarks
    <3>2. CASE v = w
      <4>1. Trimmed(w)[p] = end[w][p]  BY <2>1, <3>2
      <4>2. end[w][p] \in Int  BY DEF DataOK, Positions
      <4>. QED  BY <2>8, <3>2, <4>1, <4>2
    <3>. QED  BY <3>1, <3>2
  <2>. QED  BY <2>4, <2>5, <2>6, <2>7, <2>9, <2>10
<1>. QED  BY <1>1, <1>2

\* assert_offset_continuity: the batch continues the marks, or a committed
\* entry with the same identity shows that they are past it.
LEMMA OffsetCheckLedger ==
  ASSUME DataOK, DataOK', OffsetInv, NEW w \in Writers, CheckLedger(w)
  PROVE  OffsetInv'
<1>. USE DEF OffsetInv
<1>1. CASE phase' = [phase EXCEPT ![w] = "down"]
  BY <1>1, OffsetStop DEF CheckLedger, Stop, Goto, DataOK
<1>2. CASE phase' # [phase EXCEPT ![w] = "down"]
  <2>. USE <1>2 DEF CheckLedger, kafkaVars, sparkVars, dbVars, workVars
  <2>0. ~Stop(w)  BY DEF Stop, Goto
  <2>1. /\ phase[w] = "ledger" /\ phase'[w] \in {"return", "allocate"}
        /\ \A v \in Writers \ {w} : phase'[v] = phase[v]
        /\ UNCHANGED <<kafkaVars, sparkVars, lock, dbVars, workVars>>
    BY <2>0 DEF Goto, DataOK
  <2>. HIDE DEF CheckLedger
  <2>2. \A p \in Partitions : Covered(p)' = Covered(p)  BY <2>1 DEF Covered
  <2>3. phase[w] \in Working /\ phase[w] \in Busy /\ phase'[w] \notin Storing
    BY <2>1 DEF Working, Claiming, Busy, Storing
  <2>4. LockHeld'  BY <2>1, <2>3 DEF LockHeld
  <2>5. CheckpointBehind' /\ EntriesBelowMarks' /\ RunsEndAtMarks' /\ RetainedCovered'
    BY <2>1, <2>2 DEF CheckpointBehind, EntriesBelowMarks, RunsEndAtMarks, RetainedCovered, CoveredFrom
  <2>6. ReplayCovered'
    BY <2>1, <2>2, <2>3 DEF ReplayCovered, CoveredFrom, Planned
  <2>7. IdsAbove' /\ TrimSound'
    BY <2>1, <2>3 DEF IdsAbove, TrimSound, InBatch, Planned
  <2>8. MarksStillChecked'
    <3>. SUFFICES ASSUME NEW v \in Writers, NEW p \in Partitions,
                         phase'[v] \in Claiming, InBatch(v, p)
                  PROVE  marks[p] \in {Absent, lo[v][p]}
      BY <2>1 DEF MarksStillChecked, InBatch
    <3>1. CASE v # w  BY <2>1, <3>1 DEF MarksStillChecked
    <3>2. CASE v = w
      <4>1. phase'[w] = "allocate"  BY <2>1, <3>2 DEF Claiming
      <4>2. phase' # [phase EXCEPT ![w] = "return"]  BY <4>1 DEF DataOK
      <4>. QED  BY <2>0, <3>2, <4>2 DEF CheckLedger, Goto
    <3>. QED  BY <3>1, <3>2
  <2>9. FinishedBelowMarks'
    <3>. SUFFICES ASSUME NEW v \in Writers, NEW p \in Partitions,
                         phase'[v] \in {"return", "done"}, Planned(v, p)
                  PROVE  end[v][p] <= marks[p]
      BY <2>1 DEF FinishedBelowMarks, Planned
    <3>1. CASE v # w  BY <2>1, <3>1 DEF FinishedBelowMarks
    <3>2. CASE v = w /\ ~InBatch(w, p)
      BY <2>3, <3>2 DEF TrimSound
    <3>3. CASE v = w /\ InBatch(w, p)
      <4>1. phase'[w] = "return"  BY <2>1, <3>3
      <4>2. phase' # [phase EXCEPT ![w] = "allocate"]  BY <4>1 DEF DataOK
      <4>3. PICK b \in ledger : SameSource(b, lo[w], end[w])
        BY <2>0, <4>2 DEF CheckLedger, Goto
      <4>4. b.lo[p] = lo[w][p] /\ b.hi[p] = end[w][p]
        BY <3>3, <4>3 DEF SameSource, InBatch
      <4>. QED  BY <3>3, <4>4 DEF EntriesBelowMarks, InBatch
    <3>. QED  BY <3>1, <3>2, <3>3
  <2>. QED  BY <2>4, <2>5, <2>6, <2>7, <2>8, <2>9
<1>. QED  BY <1>1, <1>2

\* COALESCE(max(batch_id),-1)+1 is above every committed id.
LEMMA OffsetAllocate ==
  ASSUME DataOK, DataOK', OffsetInv, NEW w \in Writers, Allocate(w)
  PROVE  OffsetInv'
<1>. USE DEF OffsetInv, Allocate, kafkaVars, sparkVars, dbVars
<1>1. /\ phase[w] = "allocate" /\ phase'[w] = "overwrite"
      /\ \A v \in Writers \ {w} : phase'[v] = phase[v] /\ id'[v] = id[v]
  BY DEF Goto, DataOK
<1>2. \A p \in Partitions : Covered(p)' = Covered(p)  BY DEF Covered
<1>3. phase[w] \in Claiming /\ phase[w] \in Working /\ phase[w] \in Busy
  BY <1>1 DEF Working, Claiming, Busy
<1>4. IdsAbove'
  BY <1>1 DEF IdsAbove, IsNextId, DataOK
<1>5. LockHeld'  BY <1>1, <1>3 DEF LockHeld
<1>6. CheckpointBehind' /\ EntriesBelowMarks' /\ RunsEndAtMarks' /\ RetainedCovered'
  BY <1>2 DEF CheckpointBehind, EntriesBelowMarks, RunsEndAtMarks, RetainedCovered, CoveredFrom
<1>7. ReplayCovered' /\ TrimSound' /\ MarksStillChecked' /\ FinishedBelowMarks'
  BY <1>1, <1>2, <1>3 DEF ReplayCovered, CoveredFrom, Planned, TrimSound, InBatch,
     MarksStillChecked, FinishedBelowMarks
<1>. QED  BY <1>4, <1>5, <1>6, <1>7

\* Spark's commit log moves the checkpoint to the end of a finished batch.
LEMMA OffsetCommitCheckpoint ==
  ASSUME DataOK, DataOK', OffsetInv, NEW w \in Writers, CommitCheckpoint(w)
  PROVE  OffsetInv'
<1>. USE DEF OffsetInv, CommitCheckpoint, kafkaVars, dbVars, workVars
<1>1. /\ phase[w] = "done" /\ phase'[w] = "idle" /\ start'[w] = end[w]
      /\ \A v \in Writers \ {w} : phase'[v] = phase[v] /\ start'[v] = start[v]
  BY DEF Goto, DataOK
<1>2. \A p \in Partitions : Covered(p)' = Covered(p)  BY DEF Covered
<1>3. phase'[w] \notin Busy \union {"done"}
  BY <1>1 DEF Busy, Working, Claiming
<1>4. CheckpointBehind'
  <2>. SUFFICES ASSUME NEW p \in Partitions
                PROVE  /\ end[w][p] <= end[w][p]
                       /\ end[w][p] <= logLow[p] \/ end[w][p] <= marks[p]
    BY <1>1 DEF CheckpointBehind
  <2>1. start[w][p] \in Int /\ end[w][p] \in Int  BY DEF DataOK, Positions
  <2>2. CASE Planned(w, p)  BY <1>1, <2>1, <2>2 DEF FinishedBelowMarks
  <2>3. CASE ~Planned(w, p)
    <3>1. start[w][p] = end[w][p]  BY <2>1, <2>3 DEF Planned, CheckpointBehind
    <3>. QED  BY <2>1, <3>1 DEF CheckpointBehind
  <2>. QED  BY <2>2, <2>3
<1>5. LockHeld' /\ EntriesBelowMarks' /\ RunsEndAtMarks' /\ RetainedCovered' /\ IdsAbove'
  BY <1>1, <1>2, <1>3 DEF LockHeld, EntriesBelowMarks, RunsEndAtMarks, RetainedCovered, CoveredFrom,
     IdsAbove, Busy, Working, Storing
<1>6. ReplayCovered'
  BY <1>1, <1>2, <1>3 DEF ReplayCovered, CoveredFrom, Planned
<1>7. TrimSound' /\ MarksStillChecked' /\ FinishedBelowMarks'
  BY <1>1, <1>3 DEF TrimSound, Planned, InBatch, MarksStillChecked, FinishedBelowMarks,
     Busy, Working
<1>. QED  BY <1>4, <1>5, <1>6, <1>7

\* The offsets that a successful commit adds.
LEMMA CommitCovers ==
  ASSUME NEW w \in Writers, Commit(w), CanInsert(w), NEW p \in Partitions
  PROVE  Covered(p)' = Covered(p) \union (lo[w][p] .. (end[w][p] - 1))
<1>. DEFINE new == [id |-> id[w], lo |-> lo[w], hi |-> end[w], good |-> kept[w],
                    bad |-> BatchRows(w) \ kept[w], manifest |-> manifest[w]]
<1>1. ledger' = ledger \union {new}  BY DEF Commit
<1>2. new.lo = lo[w] /\ new.hi = end[w]  OBVIOUS
<1>. HIDE DEF new
<1>. QED  BY <1>1, <1>2 DEF Covered

\* A commit extends the run of every partition of the batch to its new mark.
LEMMA OffsetCommit ==
  ASSUME DataOK, DataOK', OffsetInv, NEW w \in Writers, Commit(w)
  PROVE  OffsetInv'
<1>. USE DEF OffsetInv
<1>1. CASE ~CanInsert(w)  BY <1>1, OffsetStop DEF Commit
<1>2. CASE CanInsert(w)
  <2>. USE <1>2 DEF kafkaVars, sparkVars, storeVars, workVars
  <2>1. /\ phase[w] = "commit" /\ phase'[w] = "return"
        /\ \A v \in Writers \ {w} : phase'[v] = phase[v]
        /\ UNCHANGED <<kafkaVars, sparkVars, lock, workVars>>
        /\ \A p \in Partitions : marks'[p] = IF InBatch(w, p) THEN end[w][p] ELSE marks[p]
    BY DEF Commit, Goto, DataOK
  <2>. DEFINE new == [id |-> id[w], lo |-> lo[w], hi |-> end[w], good |-> kept[w],
                      bad |-> BatchRows(w) \ kept[w], manifest |-> manifest[w]]
  <2>2. ledger' = ledger \union {new} /\ new.lo = lo[w] /\ new.hi = end[w]
    BY DEF Commit
  <2>. HIDE DEF new
  <2>3. phase[w] \in Working /\ phase[w] \in Claiming /\ phase[w] \in Busy
        /\ phase'[w] \notin Working
    BY <2>1 DEF Working, Claiming, Busy
  <2>4. \A v \in Writers \ {w} : phase[v] \notin Busy
    BY <2>3 DEF LockHeld
  <2>5. \A p \in Partitions : Covered(p)' = Covered(p) \union (lo[w][p] .. (end[w][p] - 1))
    BY CommitCovers
  <2>6. \A p \in Partitions :
          /\ start[w][p] \in 0 .. MaxOffset /\ lo[w][p] \in 0 .. MaxOffset
          /\ end[w][p] \in 0 .. MaxOffset /\ logLow[p] \in Int
          /\ marks[p] \in Int /\ marks'[p] \in Int
    BY <2>1 DEF DataOK, Positions
  <2>7. \A p \in Partitions : marks[p] <= marks'[p]
    BY <2>1, <2>3, <2>6 DEF MarksStillChecked, InBatch
  <2>8. \A p \in Partitions : \A x \in Covered(p) : x \in Nat /\ x < marks[p]
    <3>. SUFFICES ASSUME NEW p \in Partitions, NEW b \in ledger,
                         NEW x \in b.lo[p] .. (b.hi[p] - 1)
                  PROVE  x \in Nat /\ x < marks[p]
      BY DEF Covered
    <3>1. b.lo[p] \in Nat /\ b.hi[p] \in Int  BY DEF DataOK, Batch, Positions
    <3>. QED  BY <2>6, <3>1 DEF EntriesBelowMarks
  <2>9. LockHeld'  BY <2>1, <2>3 DEF LockHeld
  <2>10. CheckpointBehind'
    <3>. SUFFICES ASSUME NEW v \in Writers, NEW p \in Partitions
                  PROVE  /\ start[v][p] <= end[v][p]
                         /\ start[v][p] <= logLow[p] \/ start[v][p] <= marks'[p]
      BY <2>1 DEF CheckpointBehind
    <3>1. start[v][p] \in Int  BY DEF DataOK, Positions
    <3>. QED  BY <2>6, <2>7, <3>1 DEF CheckpointBehind
  <2>11. EntriesBelowMarks'
    <3>. SUFFICES ASSUME NEW b \in ledger \union {new}, NEW p \in Partitions, b.lo[p] < b.hi[p]
                  PROVE  b.hi[p] <= marks'[p]
      BY <2>2 DEF EntriesBelowMarks
    <3>1. CASE b = new  BY <2>1, <2>2, <2>6, <3>1 DEF InBatch
    <3>2. CASE b \in ledger
      <4>1. b.hi[p] \in Int  BY <3>2 DEF DataOK, Batch, Positions
      <4>2. b.hi[p] <= marks[p]  BY <3>2 DEF EntriesBelowMarks
      <4>. QED  BY <2>6, <2>7, <4>1, <4>2
    <3>. QED  BY <3>1, <3>2
  <2>12. RunsEndAtMarks'
    <3>. SUFFICES ASSUME NEW p \in Partitions
                  PROVE  /\ \A x, y \in Covered(p)' : x .. y \subseteq Covered(p)'
                         /\ marks'[p] # Absent => marks'[p] - 1 \in Covered(p)'
      BY DEF RunsEndAtMarks
    <3>1. CASE ~InBatch(w, p)
      <4>0. lo[w][p] .. (end[w][p] - 1) = {}  BY <2>6, <3>1 DEF InBatch
      <4>1. Covered(p)' = Covered(p)  BY <2>5, <4>0
      <4>. QED  BY <2>1, <3>1, <4>1 DEF RunsEndAtMarks
    <3>2. CASE InBatch(w, p)
      <4>1. marks'[p] = end[w][p] /\ lo[w][p] < end[w][p]  BY <2>1, <3>2 DEF InBatch
      <4>2. marks[p] \in {Absent, lo[w][p]}  BY <2>3, <3>2 DEF MarksStillChecked
      <4>3. ASSUME NEW x \in Covered(p)', NEW y \in Covered(p)', NEW z \in x .. y
            PROVE  z \in Covered(p)'
        <5>1. x \in Int /\ y \in Int /\ z \in Int /\ x <= z /\ z <= y /\ y < end[w][p]
          BY <2>5, <2>6, <2>7, <2>8, <4>1
        <5>2. CASE lo[w][p] <= z  BY <2>5, <2>6, <5>1, <5>2
        <5>3. CASE z < lo[w][p]
          <6>1. x \in Covered(p)  BY <2>5, <2>6, <5>1, <5>3
          <6>2. marks[p] = lo[w][p]  BY <2>8, <4>2, <6>1
          <6>3. lo[w][p] - 1 \in Covered(p)  BY <2>6, <6>2 DEF RunsEndAtMarks
          <6>4. z \in x .. (lo[w][p] - 1)  BY <2>6, <5>1, <5>3
          <6>. QED  BY <2>5, <6>1, <6>3, <6>4 DEF RunsEndAtMarks
        <5>. QED  BY <2>6, <5>1, <5>2, <5>3
      <4>4. end[w][p] - 1 \in Covered(p)'  BY <2>5, <2>6, <4>1
      <4>. QED  BY <4>1, <4>3, <4>4
    <3>. QED  BY <3>1, <3>2
  <2>13. ASSUME NEW o \in Int, NEW p \in Partitions, CoveredFrom(o, p),
                marks[p] = Absent /\ InBatch(w, p) => lo[w][p] <= o
         PROVE  CoveredFrom(o, p)'
    <3>. SUFFICES ASSUME NEW x \in Offsets, o <= x, x < marks'[p]
                  PROVE  x \in Covered(p)'
      BY DEF CoveredFrom
    <3>0. x \in Int  BY DEF Offsets
    <3>1. CASE x < marks[p]  BY <2>5, <2>13, <3>1 DEF CoveredFrom
    <3>2. CASE ~(x < marks[p])
      <4>1. InBatch(w, p) /\ x < end[w][p]  BY <2>1, <3>2
      <4>2. marks[p] \in {Absent, lo[w][p]}  BY <2>3, <4>1 DEF MarksStillChecked
      <4>3. lo[w][p] <= x  BY <2>6, <2>13, <3>0, <3>2, <4>1, <4>2
      <4>. QED  BY <2>5, <2>6, <3>0, <4>1, <4>3
    <3>. QED  BY <3>1, <3>2
  <2>14. RetainedCovered'
    <3>. SUFFICES ASSUME NEW p \in Partitions PROVE CoveredFrom(logLow[p], p)'
      BY <2>1 DEF RetainedCovered, CoveredFrom
    <3>1. ASSUME marks[p] = Absent, InBatch(w, p) PROVE lo[w][p] <= logLow[p]
      BY <2>3, <2>6, <3>1 DEF TrimSound, CheckpointBehind
    <3>2. CoveredFrom(logLow[p], p)  BY DEF RetainedCovered
    <3>3. logLow'[p] = logLow[p]  BY <2>1
    <3>. QED  BY <2>1, <2>6, <2>13, <3>1, <3>2, <3>3 DEF CoveredFrom
  <2>15. ReplayCovered'
    <3>. SUFFICES ASSUME NEW v \in Writers, NEW p \in Partitions,
                         phase'[v] \in Busy \union {"done"}, Planned(v, p)
                  PROVE  CoveredFrom(start[v][p], p)'
      BY <2>1 DEF ReplayCovered, Planned, CoveredFrom
    <3>1. phase[v] \in Busy \union {"done"}  BY <2>1, <2>3
    <3>2. CoveredFrom(start[v][p], p)  BY <3>1 DEF ReplayCovered
    <3>3. start[v][p] \in Int /\ start'[v][p] = start[v][p]  BY <2>1 DEF DataOK, Positions
    <3>4. ASSUME marks[p] = Absent, InBatch(w, p) PROVE lo[w][p] <= start[v][p]
      <4>1. CASE v = w  BY <2>3, <2>6, <3>4, <4>1 DEF TrimSound
      <4>2. CASE v # w
        <5>1. phase[v] = "done"  BY <2>4, <3>1, <4>2
        <5>2. end[v][p] <= marks[p]  BY <5>1 DEF FinishedBelowMarks
        <5>3. start[v][p] \in 0 .. MaxOffset /\ end[v][p] \in 0 .. MaxOffset
          BY DEF DataOK, Positions
        <5>. QED  BY <3>4, <5>2, <5>3
      <4>. QED  BY <4>1, <4>2
    <3>. QED  BY <2>13, <3>2, <3>3, <3>4 DEF CoveredFrom
  <2>16. TrimSound' /\ MarksStillChecked' /\ IdsAbove'
    <3>1. \A v \in Writers : phase'[v] \notin Working
      BY <2>1, <2>3, <2>4 DEF Busy
    <3>. QED  BY <3>1 DEF TrimSound, MarksStillChecked, IdsAbove, Working, Storing
  <2>17. FinishedBelowMarks'
    <3>. SUFFICES ASSUME NEW v \in Writers, NEW p \in Partitions,
                         phase'[v] \in {"return", "done"}, Planned(v, p)
                  PROVE  end[v][p] <= marks'[p]
      BY <2>1 DEF FinishedBelowMarks, Planned
    <3>0. end[v][p] \in Int  BY DEF DataOK, Positions
    <3>1. CASE v # w
      <4>1. end[v][p] <= marks[p]  BY <2>1, <3>1 DEF FinishedBelowMarks
      <4>. QED  BY <2>6, <2>7, <3>0, <4>1
    <3>2. CASE v = w /\ InBatch(w, p)  BY <2>1, <2>6, <3>2
    <3>3. CASE v = w /\ ~InBatch(w, p)  BY <2>1, <2>3, <3>3 DEF TrimSound
    <3>. QED  BY <3>1, <3>2, <3>3
  <2>. QED  BY <2>9, <2>10, <2>11, <2>12, <2>14, <2>15, <2>16, <2>17
<1>. QED  BY <1>1, <1>2

\* The steps of process_batch keep OffsetInv.
LEMMA OffsetProcessBatch ==
  ASSUME DataOK, DataOK', OffsetInv, NEW w \in Writers, ProcessBatch(w)
  PROVE  OffsetInv'
<1>. USE DEF kafkaVars, sparkVars, dbVars, workVars
<1>. DEFINE Moves(from, to) == /\ phase[w] = from /\ phase'[w] = to
                               /\ \A v \in Writers \ {w} : phase'[v] = phase[v]
<1>1. CASE Begin(w)  BY <1>1, OffsetBegin
<1>2. CASE ReadMarks(w)  BY <1>2, OffsetReadMarks
<1>3. CASE CheckLedger(w)  BY <1>3, OffsetCheckLedger
<1>4. CASE Allocate(w)  BY <1>4, OffsetAllocate
<1>5. CASE ClearPrefix(w)
  <2>1. Moves("overwrite", "upload")  BY <1>5 DEF ClearPrefix, Goto, DataOK
  <2>2. LockHeld'
    BY <1>5, <2>1 DEF ClearPrefix, OffsetInv, LockHeld, Busy, Working, Claiming
  <2>. QED  BY <1>5, <2>1, <2>2, OffsetFrame DEF ClearPrefix, Busy, Working, Claiming, Storing
<1>6. CASE WriteParquet(w)
  <2>1. Moves("upload", "quarantine")  BY <1>6 DEF WriteParquet, Goto, DataOK
  <2>2. LockHeld'
    BY <1>6, <2>1 DEF WriteParquet, OffsetInv, LockHeld, Busy, Working, Claiming
  <2>. QED  BY <1>6, <2>1, <2>2, OffsetFrame DEF WriteParquet, Busy, Working, Claiming, Storing
<1>7. CASE WriteQuarantine(w)
  <2>1. Moves("quarantine", "manifest")  BY <1>7 DEF WriteQuarantine, Goto, DataOK
  <2>2. LockHeld'
    BY <1>7, <2>1 DEF WriteQuarantine, OffsetInv, LockHeld, Busy, Working, Claiming
  <2>. QED  BY <1>7, <2>1, <2>2, OffsetFrame DEF WriteQuarantine, Busy, Working, Claiming, Storing
<1>8. CASE BuildManifest(w)
  <2>1. CASE Stop(w)  BY <2>1, OffsetStop
  <2>2. CASE ~Stop(w)
    <3>1. Moves("manifest", "commit") /\ UNCHANGED <<logLow, start, end, marks, ledger, lock, lo, id>>
      BY <1>8, <2>2 DEF BuildManifest, Goto, DataOK
    <3>2. LockHeld'
      BY <3>1 DEF OffsetInv, LockHeld, Busy, Working, Claiming
    <3>. QED  BY <3>1, <3>2, OffsetFrame DEF Busy, Working, Claiming, Storing
  <2>. QED  BY <2>1, <2>2
<1>9. CASE Commit(w)  BY <1>9, OffsetCommit
<1>10. CASE Return(w)
  <2>1. CASE Stop(w)  BY <2>1, OffsetStop
  <2>2. CASE ~Stop(w)
    <3>1. /\ Moves("return", "done") /\ lock = w
          /\ UNCHANGED <<logLow, start, end, marks, ledger>>
          /\ \A v \in Writers \ {w} : lo'[v] = lo[v] /\ id'[v] = id[v]
      BY <1>10, <2>2 DEF Return, Goto, Forget, DataOK
    <3>2. LockHeld'
      BY <3>1 DEF OffsetInv, LockHeld, Busy, Working, Claiming
    <3>. QED  BY <3>1, <3>2, OffsetFrame DEF Busy, Working, Claiming, Storing
  <2>. QED  BY <2>1, <2>2
<1>. QED  BY <1>1, <1>2, <1>3, <1>4, <1>5, <1>6, <1>7, <1>8, <1>9, <1>10 DEF ProcessBatch

\* Every step keeps OffsetInv.
LEMMA OffsetStep ==
  ASSUME DataOK, DataOK', OffsetInv, [Next]_vars
  PROVE  OffsetInv'
<1>. USE DEF kafkaVars, sparkVars, dbVars, workVars
<1>. DEFINE Same == UNCHANGED <<logLow, phase, start, end, lock, marks, ledger, lo, id>>
<1>1. CASE Same
  <2>1. \A p \in Partitions : Covered(p)' = Covered(p)  BY <1>1 DEF Covered
  <2>. QED  BY <1>1, <2>1 DEF OffsetInv, LockHeld, CheckpointBehind, EntriesBelowMarks,
       RunsEndAtMarks, RetainedCovered, ReplayCovered, TrimSound, MarksStillChecked, IdsAbove,
       FinishedBelowMarks, CoveredFrom, Planned, InBatch
<1>2. ASSUME NEW p \in Partitions, Expire(p) PROVE OffsetInv'
  BY <1>2, OffsetExpire
<1>3. ASSUME NEW w \in Writers, TriggerLoop(w) PROVE OffsetInv'
  <2>1. CASE Start(w)  BY <2>1, OffsetStart
  <2>2. CASE Plan(w)  BY <2>2, OffsetPlan
  <2>3. CASE ProcessBatch(w)  BY <2>3, OffsetProcessBatch
  <2>4. CASE CommitCheckpoint(w)  BY <2>4, OffsetCommitCheckpoint
  <2>. QED  BY <1>3, <2>1, <2>2, <2>3, <2>4 DEF TriggerLoop
<1>4. ASSUME NEW w \in Writers, Crash(w) PROVE OffsetInv'
  BY <1>4, OffsetStop DEF Crash
<1>5. ASSUME NEW w \in Writers, RecreateCheckpoint(w) PROVE OffsetInv'
  <2>1. /\ phase[w] = "down" /\ phase'[w] = "fresh"
        /\ \A v \in Writers \ {w} : phase'[v] = phase[v]
    BY <1>5 DEF RecreateCheckpoint, Goto, DataOK
  <2>2. LockHeld'
    BY <1>5, <2>1 DEF RecreateCheckpoint, OffsetInv, LockHeld, Busy, Working, Claiming
  <2>. QED  BY <1>5, <2>1, <2>2, OffsetFrame DEF RecreateCheckpoint, Busy, Working, Claiming, Storing
<1>6. ASSUME NEW p \in Partitions, Produce(p) PROVE OffsetInv'
  BY <1>1, <1>6 DEF Produce
<1>7. CASE ClockAdvances  BY <1>1, <1>7 DEF ClockAdvances
<1>9. CASE UNCHANGED vars  BY <1>1, <1>9 DEF vars
<1>. QED  BY <1>2, <1>3, <1>4, <1>5, <1>6, <1>7, <1>9 DEF Next, Surroundings, Interruption

\* Nothing is archived or planned at the start.
LEMMA OffsetInit == Init => OffsetInv
<1>. SUFFICES ASSUME Init PROVE OffsetInv
  OBVIOUS
<1>1. \A w \in Writers : phase[w] = "fresh" /\ phase[w] \notin Busy \union {"done"}
  BY DEF Init, Busy, Working, Claiming
<1>2. \A p \in Partitions : Covered(p) = {} /\ marks[p] = Absent
  BY DEF Init, Covered
<1>3. LockHeld /\ TrimSound /\ MarksStillChecked /\ IdsAbove
  BY <1>1 DEF LockHeld, TrimSound, MarksStillChecked, IdsAbove, Busy, Working, Storing
<1>4. CheckpointBehind /\ EntriesBelowMarks
  BY DEF Init, CheckpointBehind, EntriesBelowMarks
<1>5. RunsEndAtMarks  BY <1>2 DEF RunsEndAtMarks
<1>6. RetainedCovered
  BY <1>2 DEF Init, RetainedCovered, CoveredFrom, Offsets
<1>7. ReplayCovered /\ FinishedBelowMarks
  BY <1>1 DEF ReplayCovered, FinishedBelowMarks, Busy
<1>. QED  BY <1>3, <1>4, <1>5, <1>6, <1>7 DEF OffsetInv

\* The invariant behind the offset properties.
THEOREM OffsetsInvariant == Spec => [](DataOK /\ OffsetInv)
<1>1. TypeOK => DataOK  BY DEF TypeOK
<1>2. DataOK /\ DataOK' /\ OffsetInv /\ [Next]_vars => OffsetInv'
  BY OffsetStep
<1>. QED  BY <1>1, <1>2, OffsetInit, TypeCorrect, PTL DEF Spec

\* Runs that end at their marks have no hole.
LEMMA NoHoleIf ==
  ASSUME DataOK, OffsetInv
  PROVE  NoHole
<1>. SUFFICES ASSUME NEW p \in Partitions
              PROVE  /\ \A x, y \in Covered(p) : x .. y \subseteq Covered(p)
                     /\ \A x \in Covered(p) : x < marks[p]
                     /\ marks[p] # Absent => marks[p] - 1 \in Covered(p)
  BY DEF NoHole
<1>1. ASSUME NEW b \in ledger, NEW x \in b.lo[p] .. (b.hi[p] - 1)
      PROVE  x < marks[p]
  <2>1. b.lo[p] \in Int /\ b.hi[p] \in Int /\ marks[p] \in Int
    BY DEF DataOK, Batch, Positions
  <2>. QED  BY <1>1, <2>1 DEF OffsetInv, EntriesBelowMarks
<1>. QED  BY <1>1 DEF OffsetInv, RunsEndAtMarks, Covered

\* The ledger's runs: no hole below a high water mark (replay_plan and
\* assert_offset_continuity), for any number of writers and checkpoints.
THEOREM NoHoleAlways == Spec => []NoHole
BY NoHoleIf, OffsetsInvariant, PTL

\* The ledger only grows, and only by a batch that continues the marks.
LEMMA LedgerStep ==
  ASSUME [Next]_vars
  PROVE  \/ ledger' = ledger
         \/ \E w \in Writers : Commit(w) /\ CanInsert(w)
<1>. USE DEF kafkaVars, sparkVars, dbVars, workVars, Stop
<1>1. ASSUME NEW w \in Writers, ProcessBatch(w)
      PROVE  ledger' = ledger \/ (Commit(w) /\ CanInsert(w))
  BY <1>1 DEF ProcessBatch, Begin, ReadMarks, CheckLedger, Allocate, ClearPrefix, WriteParquet,
     WriteQuarantine, BuildManifest, Commit, Return
<1>2. ASSUME NEW w \in Writers, TriggerLoop(w)
      PROVE  ledger' = ledger \/ (Commit(w) /\ CanInsert(w))
  BY <1>1, <1>2 DEF TriggerLoop, Start, Plan, CommitCheckpoint
<1>. QED  BY <1>2 DEF Next, Surroundings, Interruption, Produce, Expire, ClockAdvances, Crash,
          RecreateCheckpoint, vars

\* The batch that a commit adds begins at the marks.
LEMMA NoRowTwiceStep ==
  ASSUME DataOK, OffsetInv, NoRowTwice, [Next]_vars
  PROVE  NoRowTwice'
<1>1. CASE ledger' = ledger  BY <1>1 DEF NoRowTwice
<1>2. ASSUME NEW w \in Writers, Commit(w), CanInsert(w) PROVE NoRowTwice'
  <2>. DEFINE new == [id |-> id[w], lo |-> lo[w], hi |-> end[w], good |-> kept[w],
                      bad |-> BatchRows(w) \ kept[w], manifest |-> manifest[w]]
  <2>1. ledger' = ledger \union {new} /\ new.lo = lo[w] /\ new.hi = end[w]
    BY <1>2 DEF Commit
  <2>. HIDE DEF new
  <2>2. ASSUME NEW b \in ledger PROVE Rows(b.lo, b.hi) \cap Rows(new.lo, new.hi) = {}
    <3>. SUFFICES ASSUME NEW r \in AllRows, b.lo[r[1]] <= r[2], r[2] < b.hi[r[1]],
                         lo[w][r[1]] <= r[2], r[2] < end[w][r[1]]
                  PROVE  FALSE
      BY <2>1 DEF Rows
    <3>1. r[1] \in Partitions /\ r[2] \in Nat  BY DEF AllRows, Offsets
    <3>2. /\ b.lo[r[1]] \in Int /\ b.hi[r[1]] \in Int /\ marks[r[1]] \in Int
          /\ lo[w][r[1]] \in Int /\ end[w][r[1]] \in Int
      BY <3>1 DEF DataOK, Batch, Positions
    <3>3. b.hi[r[1]] <= marks[r[1]]
      BY <3>1, <3>2 DEF OffsetInv, EntriesBelowMarks
    <3>4. InBatch(w, r[1])  BY <3>1, <3>2 DEF InBatch
    <3>5. marks[r[1]] \in {Absent, lo[w][r[1]]}
      BY <1>2, <3>1, <3>4 DEF Commit, OffsetInv, MarksStillChecked, Claiming
    <3>. QED  BY <3>1, <3>2, <3>3, <3>5
  <2>. QED  BY <2>1, <2>2 DEF NoRowTwice
<1>. QED  BY <1>1, <1>2, LedgerStep

\* No Kafka row is counted by two ledger entries.
THEOREM NoRowTwiceAlways == Spec => []NoRowTwice
<1>1. Init => NoRowTwice  BY DEF Init, NoRowTwice
<1>2. DataOK /\ OffsetInv /\ NoRowTwice /\ [Next]_vars => NoRowTwice'  BY NoRowTwiceStep
<1>. QED  BY <1>1, <1>2, OffsetsInvariant, PTL DEF Spec

\* Only Spark's commit log takes a writer from "done" to "idle".
LEMMA OnlyCommitLeavesDone ==
  ASSUME DataOK, Next, NEW w \in Writers, phase[w] = "done", phase'[w] = "idle"
  PROVE  CommitCheckpoint(w)
<1>. USE DEF Goto, DataOK, Stop
<1>1. \A v \in Writers : Crash(v) \/ RecreateCheckpoint(v) => FALSE
  BY DEF Crash, RecreateCheckpoint
<1>2. \A v \in Writers : ProcessBatch(v) => FALSE
  BY DEF ProcessBatch, Begin, ReadMarks, CheckLedger, Allocate, ClearPrefix, WriteParquet,
     WriteQuarantine, BuildManifest, Commit, Return
<1>3. \A v \in Writers : Start(v) \/ Plan(v) => FALSE
  BY DEF Start, Plan
<1>4. \A v \in Writers : CommitCheckpoint(v) => v = w
  BY DEF CommitCheckpoint
<1>. QED  BY <1>1, <1>2, <1>3, <1>4
          DEF Next, Surroundings, Interruption, TriggerLoop, Produce, Expire, ClockAdvances

\* What a writer commits to its checkpoint is below the marks, and covered from its start.
LEMMA FollowsHeld ==
  ASSUME DataOK, OffsetInv, Next, NEW w \in Writers, phase[w] = "done", phase'[w] = "idle"
  PROVE  \A p \in Partitions : start[w][p] .. (start'[w][p] - 1) \subseteq Covered(p)
<1>. SUFFICES ASSUME NEW p \in Partitions, NEW x \in start[w][p] .. (start'[w][p] - 1)
              PROVE  x \in Covered(p)
  OBVIOUS
<1>1. CommitCheckpoint(w)  BY OnlyCommitLeavesDone
<1>2. start'[w] = end[w]  BY <1>1 DEF CommitCheckpoint, DataOK
<1>3. /\ start[w][p] \in 0 .. MaxOffset /\ end[w][p] \in 0 .. MaxOffset /\ marks[p] \in Int
  BY DEF DataOK, Positions
<1>4. Planned(w, p)  BY <1>2, <1>3 DEF Planned
<1>5. end[w][p] <= marks[p]  BY <1>4 DEF OffsetInv, FinishedBelowMarks
<1>6. CoveredFrom(start[w][p], p)  BY <1>4 DEF OffsetInv, ReplayCovered
<1>. QED  BY <1>2, <1>3, <1>5, <1>6 DEF CoveredFrom, Offsets

\* Spark's checkpoint never passes a row that the ledger does not account for.
THEOREM CheckpointFollowsArchiveAlways == Spec => CheckpointFollowsArchive
<1>. DEFINE Follows ==
       \A w \in Writers :
         phase[w] = "done" /\ phase'[w] = "idle" =>
           \A p \in Partitions : start[w][p] .. (start'[w][p] - 1) \subseteq Covered(p)
<1>1. DataOK /\ OffsetInv /\ [Next]_vars => [Follows]_vars  BY FollowsHeld
<1>. QED  BY <1>1, OffsetsInvariant, PTL DEF Spec, CheckpointFollowsArchive

\* What a step archives continues the run of its partition.
LEMMA ExtendsRun ==
  ASSUME DataOK, OffsetInv, NoHole, NoHole', [Next]_vars
  PROVE  [Contiguous!Next]_[p \in Partitions |-> Covered(p)]
<1>. DEFINE archived == [p \in Partitions |-> Covered(p)]
<1>1. CASE ledger' = ledger
  <2>1. archived' = archived  BY <1>1 DEF Covered
  <2>. QED  BY <2>1
<1>2. ASSUME NEW w \in Writers, Commit(w), CanInsert(w) PROVE Contiguous!Next
  <2>. SUFFICES ASSUME NEW p \in Partitions
                PROVE  /\ Covered(p) \subseteq Covered(p)'
                       /\ \A a, b \in Covered(p)' : a .. b \subseteq Covered(p)'
                       /\ \A new \in Covered(p)' \ Covered(p), old \in Covered(p) : old < new
    BY DEF Contiguous!Next, Contiguous!Extend, Contiguous!IsRun
  <2>1. Covered(p)' = Covered(p) \union (lo[w][p] .. (end[w][p] - 1))
    BY <1>2, CommitCovers
  <2>2. \A a, b \in Covered(p)' : a .. b \subseteq Covered(p)'
    BY DEF NoHole
  <2>3. ASSUME NEW new \in Covered(p)' \ Covered(p), NEW old \in Covered(p)
        PROVE  old < new
    <3>1. new \in lo[w][p] .. (end[w][p] - 1)  BY <2>1
    <3>2. lo[w][p] \in Int /\ end[w][p] \in Int /\ marks[p] \in Int
      BY DEF DataOK, Positions
    <3>3. marks[p] \in {Absent, lo[w][p]}
      BY <1>2, <3>1, <3>2 DEF Commit, OffsetInv, MarksStillChecked, Claiming, InBatch
    <3>4. old \in Nat
      <4>1. PICK b \in ledger : old \in b.lo[p] .. (b.hi[p] - 1)  BY DEF Covered
      <4>2. b.lo[p] \in Nat /\ b.hi[p] \in Nat  BY DEF DataOK, Batch, Positions
      <4>. QED  BY <4>1, <4>2
    <3>5. old < marks[p]  BY DEF NoHole
    <3>. QED  BY <3>1, <3>2, <3>3, <3>4, <3>5
  <2>. QED  BY <2>1, <2>2, <2>3
<1>. QED  BY <1>1, <1>2, LedgerStep

\* RawArchive implements ContiguousArchive.
THEOREM Refinement == Spec => ImplementsContiguousArchive
<1>1. Init => Contiguous!Init
  BY DEF Init, Contiguous!Init, Covered
<1>2. DataOK /\ OffsetInv /\ NoHole /\ NoHole' /\ [Next]_vars
      => [Contiguous!Next]_[p \in Partitions |-> Covered(p)]
  BY ExtendsRun
<1>. QED  BY <1>1, <1>2, OffsetsInvariant, NoHoleAlways, PTL
          DEF Spec, ImplementsContiguousArchive, Contiguous!Spec

-----------------------------------------------------------------------------
(***************************************************************************)
(* Objects in MinIO.  An attempt stores under an id above every committed  *)
(* one, and nobody else stores while it holds the lock.                    *)
(***************************************************************************)

\* A committed entry's objects are left alone by a step that stores nothing,
\* or stores under an id of its own.
LEMMA CommittedFrame ==
  ASSUME FilesInv, ledger' = ledger,
         \A b \in ledger : files'[b.id] = files[b.id] /\ quar'[b.id] = quar[b.id]
  PROVE  CommittedIntact' /\ EveryRowAccounted'
BY DEF FilesInv, CommittedIntact, EveryRowAccounted

\* No other writer has anything stored while one is in process_batch.
LEMMA OthersIdle ==
  ASSUME OffsetInv, NEW w \in Writers, phase[w] \in Busy, NEW v \in Writers \ {w}
  PROVE  phase[v] \notin Storing
BY DEF OffsetInv, LockHeld, Storing, Busy, Working

\* The id of a running attempt is nobody else's.
LEMMA FreshId ==
  ASSUME DataOK, OffsetInv, NEW w \in Writers, phase[w] \in Storing
  PROVE  \A b \in ledger : b.id # id[w]
BY DEF DataOK, OffsetInv, IdsAbove, Batch, Ids

\* Stopping a writer stores nothing.
LEMMA FilesStop ==
  ASSUME DataOK, OffsetInv, FilesInv, NEW w \in Writers, Stop(w)
  PROVE  FilesInv'
<1>1. /\ phase'[w] = "down"
      /\ \A v \in Writers \ {w} : /\ phase'[v] = phase[v] /\ lo'[v] = lo[v] /\ id'[v] = id[v]
                                  /\ kept'[v] = kept[v] /\ manifest'[v] = manifest[v]
      /\ UNCHANGED <<start, end, ledger, files, quar>>
  BY DEF Stop, Goto, Forget, DataOK, sparkVars, dbVars, storeVars
<1>2. CommittedIntact' /\ EveryRowAccounted'  BY <1>1, CommittedFrame
<1>. QED  BY <1>1, <1>2 DEF FilesInv, BatchRows, Storing, Claiming

\* The steps of process_batch keep FilesInv.
LEMMA FilesProcessBatch ==
  ASSUME DataOK, OffsetInv, FilesInv, NEW w \in Writers, ProcessBatch(w), ~Stop(w)
  PROVE  FilesInv'
<1>. USE DEF kafkaVars, sparkVars, dbVars, storeVars, workVars, Goto
<1>. DEFINE Own(v) ==
              /\ phase[v] \in Storing \ {"overwrite"} => kept[v] \subseteq BatchRows(v)
              /\ phase[v] = "upload" => files[id[v]] = {}
              /\ phase[v] \in {"quarantine", "manifest", "commit"} => files[id[v]] = kept[v]
              /\ phase[v] \in {"manifest", "commit"} => BatchRows(v) \ kept[v] \subseteq quar[id[v]]
              /\ phase[v] = "commit" => manifest[v] = kept[v]
<1>0. FilesInv <=> (\A v \in Writers : Own(v)) /\ CommittedIntact /\ EveryRowAccounted
  BY DEF FilesInv
<1>a. Own(w)  BY <1>0
<1>b. /\ phase' = [phase EXCEPT ![w] = phase'[w]]
      /\ \A v \in Writers \ {w} : phase'[v] = phase[v]
  BY DEF ProcessBatch, Begin, ReadMarks, CheckLedger, Allocate, ClearPrefix, WriteParquet,
     WriteQuarantine, BuildManifest, Commit, Return, DataOK
<1>c. ASSUME Own(w)', CommittedIntact', EveryRowAccounted',
             \A v \in Writers \ {w} : phase'[v] \notin Storing
      PROVE  FilesInv'
  BY <1>c DEF FilesInv, Storing, Claiming
<1>d. ASSUME UNCHANGED <<ledger, files, quar>>
      PROVE  CommittedIntact' /\ EveryRowAccounted'
  BY <1>d, CommittedFrame
<1>1. CASE Begin(w)
  <2>1. \A v \in Writers : phase'[v] \notin Storing
    <3>1. \A v \in Writers : phase[v] \notin Storing
      BY <1>1 DEF Begin, OffsetInv, LockHeld, Busy, Working, Storing
    <3>. QED  BY <1>1, <1>b, <3>1 DEF Begin, DataOK, Storing, Claiming
  <2>. QED  BY <1>1, <1>c, <1>d, <2>1 DEF Begin, Storing, Claiming
<1>2. CASE phase[w] \in Busy
  <2>1. \A v \in Writers \ {w} : phase'[v] \notin Storing
    BY <1>2, <1>b, OthersIdle
  <2>2. CASE ReadMarks(w)
    <3>1. phase'[w] \notin Storing
      BY <2>2 DEF ReadMarks, Storing, Claiming, DataOK
    <3>. QED  BY <1>c, <1>d, <2>1, <2>2, <3>1 DEF ReadMarks, Storing, Claiming
  <2>3. CASE CheckLedger(w)
    <3>1. phase'[w] \notin Storing
      BY <2>3 DEF CheckLedger, Storing, Claiming, DataOK
    <3>. QED  BY <1>c, <1>d, <2>1, <2>3, <3>1 DEF CheckLedger, Storing, Claiming
  <2>4. CASE Allocate(w)
    <3>1. phase'[w] = "overwrite"  BY <2>4 DEF Allocate, DataOK
    <3>. QED  BY <1>c, <1>d, <2>1, <2>4, <3>1 DEF Allocate
  <2>5. CASE ClearPrefix(w)
    <3>1. phase'[w] = "upload" /\ phase[w] \in Storing
      BY <2>5 DEF ClearPrefix, DataOK, Storing, Claiming
    <3>2. CommittedIntact' /\ EveryRowAccounted'
      <4>1. \A b \in ledger : b.id # id[w]
        BY <3>1, FreshId
      <4>. QED  BY <2>5, <4>1, CommittedFrame DEF ClearPrefix, DataOK, Batch
    <3>3. Own(w)'  BY <2>5, <3>1 DEF ClearPrefix, DataOK, BatchRows
    <3>. QED  BY <1>c, <2>1, <3>2, <3>3
  <2>6. CASE WriteParquet(w)
    <3>1. phase'[w] = "quarantine" /\ phase[w] = "upload"
      BY <2>6 DEF WriteParquet, DataOK
    <3>2. CommittedIntact' /\ EveryRowAccounted'
      <4>1. \A b \in ledger : b.id # id[w]
        BY <3>1, FreshId DEF Storing, Claiming
      <4>. QED  BY <2>6, <4>1, CommittedFrame DEF WriteParquet, DataOK, Batch
    <3>3. Own(w)'
      BY <1>a, <2>6, <3>1 DEF WriteParquet, DataOK, BatchRows, Storing, Claiming
    <3>. QED  BY <1>c, <2>1, <3>2, <3>3
  <2>7. CASE WriteQuarantine(w)
    <3>1. phase'[w] = "manifest" /\ phase[w] = "quarantine"
      BY <2>7 DEF WriteQuarantine, DataOK
    <3>2. CommittedIntact' /\ EveryRowAccounted'
      <4>1. \A b \in ledger : b.id # id[w]
        BY <3>1, FreshId DEF Storing, Claiming
      <4>. QED  BY <2>7, <4>1, CommittedFrame DEF WriteQuarantine, DataOK, Batch
    <3>3. Own(w)'
      BY <1>a, <2>7, <3>1 DEF WriteQuarantine, DataOK, BatchRows, Storing, Claiming
    <3>. QED  BY <1>c, <2>1, <3>2, <3>3
  <2>8. CASE BuildManifest(w)
    <3>1. phase'[w] = "commit" /\ phase[w] = "manifest" /\ manifest'[w] = files[id[w]]
          /\ UNCHANGED <<ledger, files, quar, start, end, lo, id, kept>>
      BY <2>8 DEF BuildManifest, DataOK
    <3>2. Own(w)'
      BY <1>a, <3>1 DEF BatchRows, Storing, Claiming
    <3>. QED  BY <1>c, <1>d, <2>1, <3>1, <3>2
  <2>9. CASE Commit(w)
    <3>1. phase'[w] = "return" /\ phase[w] = "commit" /\ UNCHANGED <<files, quar>>
      BY <2>9 DEF Commit, DataOK
    <3>. DEFINE new == [id |-> id[w], lo |-> lo[w], hi |-> end[w], good |-> kept[w],
                        bad |-> BatchRows(w) \ kept[w], manifest |-> manifest[w]]
    <3>2. ledger' = ledger \union {new}  BY <2>9 DEF Commit
    <3>3. files[new.id] = new.manifest
      BY <1>a, <3>1
    <3>4. new.manifest \union new.bad = Rows(new.lo, new.hi) /\ new.bad \subseteq quar[new.id]
      BY <1>a, <3>1 DEF BatchRows, Storing, Claiming
    <3>. HIDE DEF new
    <3>5. CommittedIntact' /\ EveryRowAccounted'
      BY <1>0, <3>1, <3>2, <3>3, <3>4 DEF CommittedIntact, EveryRowAccounted
    <3>6. Own(w)'  BY <3>1 DEF Storing, Claiming
    <3>. QED  BY <1>c, <2>1, <3>5, <3>6
  <2>10. CASE Return(w)
    <3>1. phase'[w] = "done"  BY <2>10 DEF Return, DataOK
    <3>. QED  BY <1>c, <1>d, <2>1, <2>10, <3>1 DEF Return, Storing, Claiming
  <2>11. ~Begin(w)  BY <1>2 DEF Begin, Busy, Working, Claiming
  <2>. QED  BY <2>2, <2>3, <2>4, <2>5, <2>6, <2>7, <2>8, <2>9, <2>10, <2>11 DEF ProcessBatch
<1>. QED
  BY <1>1, <1>2 DEF ProcessBatch, ReadMarks, CheckLedger, Allocate, ClearPrefix,
     WriteParquet, WriteQuarantine, BuildManifest, Commit, Return, Busy, Working, Claiming

\* Every step keeps FilesInv.
LEMMA FilesStep ==
  ASSUME DataOK, OffsetInv, FilesInv, [Next]_vars
  PROVE  FilesInv'
<1>. USE DEF kafkaVars, sparkVars, dbVars, storeVars, workVars, Goto
<1>1. CASE UNCHANGED <<phase, end, ledger, files, quar, lo, id, kept, manifest>>
  BY <1>1 DEF FilesInv, BatchRows, CommittedIntact, EveryRowAccounted
<1>2. ASSUME NEW w \in Writers, NEW there \in Phases \ Storing,
             phase[w] \notin Storing, phase' = [phase EXCEPT ![w] = there],
             UNCHANGED <<ledger, files, quar, lo, id, kept, manifest>>,
             \A v \in Writers \ {w} : end'[v] = end[v]
      PROVE  FilesInv'
  <2>1. phase'[w] \notin Storing /\ \A v \in Writers \ {w} : phase'[v] = phase[v]
    BY <1>2 DEF DataOK
  <2>2. CommittedIntact' /\ EveryRowAccounted'  BY <1>2, CommittedFrame
  <2>. QED  BY <1>2, <2>1, <2>2 DEF FilesInv, BatchRows, Storing, Claiming
<1>3. ASSUME NEW w \in Writers, TriggerLoop(w) PROVE FilesInv'
  <2>. USE DEF Phases, Storing, Claiming
  <2>1. CASE Start(w)  BY <1>2, <2>1 DEF Start, DataOK
  <2>2. CASE Plan(w)
    <3>1. phase[w] = "idle" /\ phase' = [phase EXCEPT ![w] = "idle"]
          /\ \A v \in Writers \ {w} : end'[v] = end[v]
      BY <2>2 DEF Plan, DataOK
    <3>. QED  BY <1>2, <2>2, <3>1 DEF Plan
  <2>3. CASE ProcessBatch(w) /\ ~Stop(w)  BY <2>3, FilesProcessBatch
  <2>4. CASE Stop(w)  BY <2>4, FilesStop
  <2>5. CASE CommitCheckpoint(w)  BY <1>2, <2>5 DEF CommitCheckpoint
  <2>. QED  BY <1>3, <2>1, <2>2, <2>3, <2>4, <2>5 DEF TriggerLoop
<1>4. ASSUME NEW w \in Writers, Crash(w) PROVE FilesInv'
  BY <1>4, FilesStop DEF Crash
<1>5. ASSUME NEW w \in Writers, RecreateCheckpoint(w) PROVE FilesInv'
  BY <1>2, <1>5 DEF RecreateCheckpoint, Phases, Storing, Claiming
<1>. QED  BY <1>1, <1>3, <1>4, <1>5 DEF Next, Surroundings, Interruption, Produce, Expire, ClockAdvances, vars

LEMMA FilesInit == Init => FilesInv
BY DEF Init, FilesInv, CommittedIntact, EveryRowAccounted, Storing, Claiming

\* The inductive invariant of the prefixes: running attempts write to ids above
\* every committed one, and a storing writer finds there what it has put there.
THEOREM FilesInvariant == Spec => []FilesInv
<1>1. DataOK /\ OffsetInv /\ FilesInv /\ [Next]_vars => FilesInv'  BY FilesStep
<1>. QED  BY <1>1, FilesInit, OffsetsInvariant, PTL DEF Spec

\* Committed prefixes are never written again (process_batch after a crash, or
\* beside another writer).
THEOREM CommittedIntactAlways == Spec => []CommittedIntact
<1>1. FilesInv => CommittedIntact  BY DEF FilesInv
<1>. QED  BY FilesInvariant, <1>1, PTL

\* Every row of a committed range is in the archive or in quarantine, however often
\* the clock was read again for it.
THEOREM EveryRowAccountedAlways == Spec => []EveryRowAccounted
<1>1. FilesInv => EveryRowAccounted  BY DEF FilesInv
<1>. QED  BY FilesInvariant, <1>1, PTL

-----------------------------------------------------------------------------
(***************************************************************************)
(* Sessions that end under their holders.  OffsetInv and FilesInv are lost *)
(* then; SessionInv is inductive without a lock.                           *)
(***************************************************************************)

\* Steps that leave Kafka, checkpoints, ledger and the trimmed batch alone, give
\* the lock to nobody and move at most one writer, between phases that promise no more.
LEMMA SessionFrame ==
  ASSUME SessionInv, NEW w \in Writers,
         UNCHANGED <<logLow, sparkVars, dbVars>>,
         \A v \in Writers \ {w} : phase'[v] = phase[v] /\ lo'[v] = lo[v],
         \A v \in Writers : lock' = v => lock = v,
         phase'[w] \in Busy => phase[w] \in Busy,
         phase'[w] = "marks" => phase[w] = "marks",
         phase'[w] \in Working => phase[w] \in Working /\ lo'[w] = lo[w],
         phase'[w] = "return" => phase[w] = "return",
         phase'[w] = "done" => phase[w] = "done" \/ (phase[w] = "return" /\ lock = w)
  PROVE  SessionInv'
<1>. USE DEF sparkVars, dbVars, SessionInv
<1>1. \A p \in Partitions : Covered(p)' = Covered(p)  BY DEF Covered
<1>2. RetainedReached'  BY <1>1 DEF RetainedReached, CoveredBetween
<1>3. HolderReached'  BY <1>1 DEF HolderReached, CoveredBetween, Planned
<1>4. HolderFinishes'  BY <1>1 DEF HolderFinishes, CoveredBetween
<1>. QED  BY <1>2, <1>3, <1>4

\* A writer that stops promises nothing.
LEMMA SessionStop ==
  ASSUME DataOK, SessionInv, NEW w \in Writers, Stop(w)
  PROVE  SessionInv'
<1>1. /\ phase'[w] = "down"
      /\ \A v \in Writers \ {w} : phase'[v] = phase[v] /\ lo'[v] = lo[v]
      /\ \A v \in Writers : lock' = v => lock = v
  BY WritersAssumption DEF DataOK, Stop, Goto, Forget
<1>. QED  BY <1>1, SessionFrame DEF Stop, kafkaVars, Busy, Working, Claiming

\* What was reached stays so while Kafka drops rows; what the holder of the lock
\* relies on does not speak of them.
LEMMA SessionExpire ==
  ASSUME DataOK, SessionInv, NEW q \in Partitions, Expire(q)
  PROVE  SessionInv'
<1>. USE DEF Expire, sparkVars, dbVars, workVars, SessionInv
<1>1. \A p \in Partitions : Covered(p)' = Covered(p)  BY DEF Covered
<1>2. ASSUME NEW p \in Partitions, NEW h, CoveredBetween(logLow[p], h, p)
      PROVE  \A x \in Offsets : logLow'[p] <= x /\ x < h => x \in Covered(p)
  <2>1. logLow[p] \in Int /\ logLow'[p] \in Int /\ logLow[p] <= logLow'[p]
    BY DEF DataOK, Positions
  <2>. QED  BY <1>2, <2>1 DEF CoveredBetween, Offsets
<1>3. RetainedReached'  BY <1>1, <1>2 DEF RetainedReached, CoveredBetween
<1>4. HolderReached'  BY <1>1 DEF HolderReached, CoveredBetween, Planned
<1>5. HolderFinishes'  BY <1>1 DEF HolderFinishes, CoveredBetween
<1>. QED  BY <1>3, <1>4, <1>5

\* A new checkpoint starts where Kafka does, an old one where it was.
LEMMA SessionStart ==
  ASSUME DataOK, SessionInv, NEW w \in Writers, Start(w)
  PROVE  SessionInv'
<1>. USE DEF Start, kafkaVars, dbVars, workVars, SessionInv
<1>1. phase'[w] = "idle" /\ \A v \in Writers \ {w} : phase'[v] = phase[v]
  BY DEF Goto, DataOK
<1>2. CASE phase[w] = "down"
  BY <1>1, <1>2, SessionFrame DEF Busy, Working, Claiming
<1>3. CASE phase[w] = "fresh"
  <2>1. /\ start'[w] = logLow
        /\ \A v \in Writers \ {w} : start'[v] = start[v] /\ end'[v] = end[v]
    BY <1>3 DEF DataOK
  <2>2. \A p \in Partitions : Covered(p)' = Covered(p) /\ logLow[p] \in Int
    BY DEF Covered, DataOK, Positions
  <2>3. phase'[w] \notin Busy \union {"done"}  BY <1>1 DEF Busy, Working, Claiming
  <2>4. RetainedReached'
    BY <1>1, <2>1, <2>2, <2>3 DEF RetainedReached, CoveredBetween, Offsets, Busy
  <2>5. HolderReached'
    BY <1>1, <2>1, <2>2, <2>3 DEF HolderReached, CoveredBetween, Planned, Busy
  <2>6. HolderFinishes'
    BY <1>1, <2>1, <2>2, <2>3 DEF HolderFinishes, CoveredBetween, Busy
  <2>. QED  BY <2>4, <2>5, <2>6
<1>. QED  BY <1>2, <1>3

\* A plan is made by a writer between two batches.
LEMMA SessionPlan ==
  ASSUME DataOK, SessionInv, NEW w \in Writers, Plan(w)
  PROVE  SessionInv'
<1>. USE DEF Plan, kafkaVars, dbVars, workVars, SessionInv
<1>1. \A v \in Writers \ {w} : end'[v] = end[v]  BY DEF DataOK
<1>2. \A p \in Partitions : Covered(p)' = Covered(p)  BY DEF Covered
<1>3. phase[w] \notin Busy \union {"done"}  BY DEF Busy, Working, Claiming
<1>4. RetainedReached'  BY <1>1, <1>2, <1>3 DEF RetainedReached, CoveredBetween, Busy
<1>5. HolderReached'  BY <1>1, <1>2, <1>3 DEF HolderReached, CoveredBetween, Planned, Busy
<1>6. HolderFinishes'  BY <1>1, <1>2, <1>3 DEF HolderFinishes, CoveredBetween, Busy
<1>. QED  BY <1>4, <1>5, <1>6

\* Who gets the lock can read its rows, so that all that was reached above Kafka's
\* oldest row is reached from its own position on.
LEMMA SessionBegin ==
  ASSUME DataOK, SessionInv, NEW w \in Writers, Begin(w), ~Stop(w)
  PROVE  SessionInv'
<1>. USE DEF kafkaVars, sparkVars, dbVars, workVars, SessionInv
<1>1. /\ phase[w] = "idle" /\ phase'[w] = "marks" /\ lock' = w /\ Readable(w)
      /\ \A v \in Writers \ {w} : phase'[v] = phase[v]
      /\ UNCHANGED <<logLow, start, end, marks, ledger, lo>>
  BY DEF Begin, Goto, DataOK
<1>2. \A p \in Partitions : Covered(p)' = Covered(p)  BY <1>1 DEF Covered
<1>3. RetainedReached'
  BY <1>1, <1>2 DEF RetainedReached, CoveredBetween, Working, Claiming
<1>4. HolderReached'
  <2>. SUFFICES ASSUME NEW p \in Partitions, Planned(w, p)
                PROVE  /\ CoveredBetween(start[w][p], marks[p], p)
                       /\ \A v \in Writers \ {w} :
                            /\ CoveredBetween(start[w][p], start[v][p], p)
                            /\ phase[v] \in Working => CoveredBetween(start[w][p], lo[v][p], p)
    BY <1>1, <1>2 DEF HolderReached, CoveredBetween, Planned
  <2>1. logLow[p] <= start[w][p] /\ logLow[p] \in Int /\ start[w][p] \in Int
    BY <1>1 DEF Readable, DataOK, Positions
  <2>2. ASSUME NEW h, CoveredBetween(logLow[p], h, p)  PROVE CoveredBetween(start[w][p], h, p)
    BY <2>1, <2>2 DEF CoveredBetween, Offsets
  <2>. QED  BY <2>2 DEF RetainedReached
<1>5. HolderFinishes'
  BY <1>1, <1>2, WritersAssumption DEF HolderFinishes, CoveredBetween, Working, Claiming
<1>. QED  BY <1>3, <1>4, <1>5

\* The trimmed batch begins at its mark or where it was planned.
LEMMA SessionReadMarks ==
  ASSUME DataOK, SessionInv, NEW w \in Writers, ReadMarks(w), ~Stop(w)
  PROVE  SessionInv'
<1>. USE DEF kafkaVars, sparkVars, dbVars, workVars, SessionInv
<1>1. /\ phase[w] = "marks" /\ phase'[w] \in {"return", "ledger"} /\ lo'[w] = Trimmed(w)
      /\ phase'[w] = "return" => Trimmed(w) = end[w]
      /\ \A v \in Writers \ {w} : phase'[v] = phase[v] /\ lo'[v] = lo[v]
      /\ UNCHANGED <<logLow, start, end, marks, ledger, lock>>
  BY DEF ReadMarks, Goto, DataOK
<1>2. \A p \in Partitions : Covered(p)' = Covered(p)  BY <1>1 DEF Covered
<1>3. phase[w] \in Busy /\ phase[w] \notin Working /\ phase'[w] # "marks" /\ phase'[w] # "done"
  BY <1>1 DEF Busy, Working, Claiming
<1>4. ASSUME NEW p \in Partitions
      PROVE  /\ Trimmed(w)[p] \in Int /\ marks[p] \in Int /\ start[w][p] \in Int
             /\ Trimmed(w)[p] <= marks[p] \/ Trimmed(w)[p] = start[w][p]
             /\ Planned(w, p) \/ Trimmed(w)[p] = start[w][p]
  <2>1. start[w][p] \in Int /\ end[w][p] \in Int /\ marks[p] \in Int
    BY DEF DataOK, Positions
  <2>. QED  BY <2>1 DEF Trimmed, Planned
<1>5. ASSUME NEW p \in Partitions, NEW l \in Int,
             CoveredBetween(l, marks[p], p), CoveredBetween(l, start[w][p], p)
      PROVE  CoveredBetween(l, Trimmed(w)[p], p)
  BY <1>4, <1>5 DEF CoveredBetween, Offsets
<1>6. \A p \in Partitions : CoveredBetween(logLow[p], Trimmed(w)[p], p)
  <2>1. \A p \in Partitions : logLow[p] \in Int  BY DEF DataOK, Positions
  <2>. QED  BY <1>5, <2>1 DEF RetainedReached
<1>7. RetainedReached'
  BY <1>1, <1>2, <1>3, <1>6 DEF RetainedReached, CoveredBetween
<1>8. HolderReached'
  <2>. SUFFICES ASSUME NEW h \in Writers \ {w}, NEW p \in Partitions,
                       phase[h] = "marks", lock = h, Planned(h, p)
                PROVE  /\ CoveredBetween(start[h][p], marks[p], p)
                       /\ \A v \in Writers \ {h} :
                            /\ phase'[v] \in Busy => CoveredBetween(start[h][p], start[v][p], p)
                            /\ phase'[v] \in Working => CoveredBetween(start[h][p], lo'[v][p], p)
    BY <1>1, <1>2, <1>3 DEF HolderReached, CoveredBetween, Planned
  <2>1. start[h][p] \in Int  BY DEF DataOK, Positions
  <2>2. CoveredBetween(start[h][p], marks[p], p) /\ CoveredBetween(start[h][p], start[w][p], p)
    BY <1>3 DEF HolderReached
  <2>3. CoveredBetween(start[h][p], Trimmed(w)[p], p)  BY <1>5, <2>1, <2>2
  <2>. QED  BY <1>1, <2>2, <2>3 DEF HolderReached
<1>9. HolderFinishes'
  <2>1. ASSUME lock = w, NEW p \in Partitions  PROVE CoveredBetween(start[w][p], Trimmed(w)[p], p)
    <3>1. start[w][p] \in Int  BY DEF DataOK, Positions
    <3>2. CASE Trimmed(w)[p] = start[w][p]  BY <3>1, <3>2 DEF CoveredBetween, Offsets
    <3>3. CASE Planned(w, p)
      <4>1. CoveredBetween(start[w][p], marks[p], p)  BY <1>1, <2>1, <3>3 DEF HolderReached
      <4>2. CoveredBetween(start[w][p], start[w][p], p)  BY <3>1 DEF CoveredBetween, Offsets
      <4>. QED  BY <1>5, <3>1, <4>1, <4>2
    <3>. QED  BY <1>4, <3>2, <3>3
  <2>. QED  BY <1>1, <1>2, <1>3, <2>1 DEF HolderFinishes, CoveredBetween
<1>. QED  BY <1>7, <1>8, <1>9

\* A batch of the same source covers the rest of the range.
LEMMA SessionCheckLedger ==
  ASSUME DataOK, SessionInv, NEW w \in Writers, CheckLedger(w), ~Stop(w)
  PROVE  SessionInv'
<1>. USE DEF kafkaVars, sparkVars, dbVars, workVars, SessionInv
<1>1. /\ phase[w] = "ledger" /\ phase'[w] \in {"return", "allocate"}
      /\ phase'[w] = "return" => \E b \in ledger : SameSource(b, lo[w], end[w])
      /\ \A v \in Writers \ {w} : phase'[v] = phase[v]
      /\ UNCHANGED <<logLow, start, end, marks, ledger, lock, lo>>
  BY DEF CheckLedger, Goto, DataOK
<1>2. CASE phase'[w] = "allocate"
  BY <1>1, <1>2, SessionFrame DEF Busy, Working, Claiming
<1>3. CASE phase'[w] = "return"
  <2>1. \A p \in Partitions : Covered(p)' = Covered(p)  BY <1>1 DEF Covered
  <2>2. phase[w] \in Working /\ phase[w] \in Busy /\ phase'[w] \notin Working
    BY <1>1, <1>3 DEF Busy, Working, Claiming
  <2>3. ASSUME NEW p \in Partitions, NEW l \in Int, CoveredBetween(l, lo[w][p], p)
        PROVE  CoveredBetween(l, end[w][p], p)
    <3>. SUFFICES ASSUME NEW x \in Offsets, l <= x, x < end[w][p]  PROVE x \in Covered(p)
      BY DEF CoveredBetween
    <3>1. lo[w][p] \in Int /\ end[w][p] \in Int /\ x \in Int  BY DEF DataOK, Positions, Offsets
    <3>2. CASE x < lo[w][p]  BY <2>3, <3>2 DEF CoveredBetween
    <3>3. CASE lo[w][p] <= x
      <4>1. PICK b \in ledger : b.lo[p] = lo[w][p] /\ b.hi[p] = end[w][p]
        BY <1>1, <1>3, <3>1, <3>3 DEF SameSource
      <4>. QED  BY <3>1, <3>3, <4>1 DEF Covered
    <3>. QED  BY <3>1, <3>2, <3>3
  <2>4. RetainedReached'
    <3>1. \A p \in Partitions : logLow[p] \in Int  BY DEF DataOK, Positions
    <3>2. \A p \in Partitions : CoveredBetween(logLow[p], end[w][p], p)
      BY <2>2, <2>3, <3>1 DEF RetainedReached
    <3>. QED  BY <1>1, <1>3, <2>1, <2>2, <3>2 DEF RetainedReached, CoveredBetween
  <2>5. HolderReached'
    BY <1>1, <1>3, <2>1, <2>2 DEF HolderReached, CoveredBetween, Planned
  <2>6. HolderFinishes'
    <3>1. ASSUME lock = w, NEW p \in Partitions  PROVE CoveredBetween(start[w][p], end[w][p], p)
      <4>1. start[w][p] \in Int  BY DEF DataOK, Positions
      <4>. QED  BY <2>2, <2>3, <3>1, <4>1 DEF HolderFinishes
    <3>. QED  BY <1>1, <1>3, <2>1, <2>2, <3>1 DEF HolderFinishes, CoveredBetween
  <2>. QED  BY <2>4, <2>5, <2>6
<1>. QED  BY <1>1, <1>2, <1>3

\* A commit adds the rest of its range, and takes the marks no further.
LEMMA SessionCommit ==
  ASSUME DataOK, SessionInv, NEW w \in Writers, Commit(w), CanInsert(w)
  PROVE  SessionInv'
<1>. USE DEF kafkaVars, sparkVars, storeVars, workVars, SessionInv
<1>1. /\ phase[w] = "commit" /\ phase'[w] = "return"
      /\ \A v \in Writers \ {w} : phase'[v] = phase[v]
      /\ UNCHANGED <<logLow, start, end, lock, lo>>
      /\ \A p \in Partitions : marks'[p] = IF InBatch(w, p) THEN end[w][p] ELSE marks[p]
  BY DEF Commit, Goto, DataOK
<1>2. \A p \in Partitions : Covered(p)' = Covered(p) \union (lo[w][p] .. (end[w][p] - 1))
  BY CommitCovers
<1>3. phase[w] \in Working /\ phase[w] \in Busy /\ phase'[w] \notin Working
  BY <1>1 DEF Busy, Working, Claiming
<1>4. ASSUME NEW p \in Partitions, NEW l, NEW h, CoveredBetween(l, h, p)
      PROVE  CoveredBetween(l, h, p)'
  BY <1>2, <1>4 DEF CoveredBetween
<1>5. ASSUME NEW p \in Partitions, NEW l \in Int, CoveredBetween(l, lo[w][p], p)
      PROVE  \A x \in Offsets : l <= x /\ x < end[w][p] => x \in Covered(p)'
  <2>. SUFFICES ASSUME NEW x \in Offsets, l <= x, x < end[w][p]  PROVE x \in Covered(p)'
    OBVIOUS
  <2>1. lo[w][p] \in Int /\ end[w][p] \in Int /\ x \in Int  BY DEF DataOK, Positions, Offsets
  <2>2. CASE x < lo[w][p]  BY <1>2, <1>5, <2>2 DEF CoveredBetween
  <2>3. CASE lo[w][p] <= x  BY <1>2, <2>1, <2>3
  <2>. QED  BY <2>1, <2>2, <2>3
<1>6. RetainedReached'
  <2>1. \A p \in Partitions : logLow[p] \in Int  BY DEF DataOK, Positions
  <2>2. \A p \in Partitions, x \in Offsets :
          logLow[p] <= x /\ x < end[w][p] => x \in Covered(p)'
    BY <1>3, <1>5, <2>1 DEF RetainedReached
  <2>3. \A p \in Partitions : CoveredBetween(logLow[p], marks[p], p)'
    BY <1>1, <1>2, <2>2 DEF RetainedReached, CoveredBetween
  <2>. QED  BY <1>1, <1>2, <1>3, <2>2, <2>3 DEF RetainedReached, CoveredBetween
<1>7. HolderReached'
  <2>. SUFFICES ASSUME NEW h \in Writers, NEW p \in Partitions,
                       phase'[h] = "marks", lock = h, Planned(h, p)
                PROVE  /\ \A x \in Offsets : start[h][p] <= x /\ x < marks'[p] => x \in Covered(p)'
                       /\ \A v \in Writers \ {h} :
                            /\ phase'[v] \in Busy => CoveredBetween(start[h][p], start[v][p], p)
                            /\ phase'[v] \in Working => CoveredBetween(start[h][p], lo[v][p], p)
    BY <1>1, <1>2 DEF HolderReached, CoveredBetween, Planned
  <2>1. h # w /\ phase[h] = "marks" /\ start[h][p] \in Int  BY <1>1 DEF DataOK, Positions
  <2>2. /\ CoveredBetween(start[h][p], marks[p], p)
        /\ CoveredBetween(start[h][p], lo[w][p], p)
        /\ \A v \in Writers \ {h} :
             /\ phase[v] \in Busy => CoveredBetween(start[h][p], start[v][p], p)
             /\ phase[v] \in Working => CoveredBetween(start[h][p], lo[v][p], p)
    BY <1>3, <2>1 DEF HolderReached
  <2>3. \A x \in Offsets : start[h][p] <= x /\ x < end[w][p] => x \in Covered(p)'
    BY <1>5, <2>1, <2>2
  <2>. QED  BY <1>1, <1>2, <1>3, <2>2, <2>3 DEF CoveredBetween
<1>8. HolderFinishes'
  <2>1. ASSUME lock = w, NEW p \in Partitions, NEW x \in Offsets, start[w][p] <= x, x < end[w][p]
        PROVE  x \in Covered(p)'
    <3>1. start[w][p] \in Int  BY DEF DataOK, Positions
    <3>2. CoveredBetween(start[w][p], lo[w][p], p)  BY <1>3, <2>1 DEF HolderFinishes
    <3>. QED  BY <1>5, <2>1, <3>1, <3>2
  <2>. QED  BY <1>1, <1>2, <1>3, <2>1 DEF HolderFinishes, CoveredBetween
<1>. QED  BY <1>6, <1>7, <1>8

\* Spark's commit log moves a checkpoint to where its batch has got.
LEMMA SessionCommitCheckpoint ==
  ASSUME DataOK, SessionInv, NEW w \in Writers, CommitCheckpoint(w)
  PROVE  SessionInv'
<1>. USE DEF CommitCheckpoint, kafkaVars, dbVars, workVars, SessionInv
<1>1. /\ phase[w] = "done" /\ phase'[w] = "idle" /\ start'[w] = end[w]
      /\ \A v \in Writers \ {w} : phase'[v] = phase[v] /\ start'[v] = start[v]
  BY DEF Goto, DataOK
<1>2. \A p \in Partitions : Covered(p)' = Covered(p)  BY DEF Covered
<1>3. phase'[w] \notin Busy \union {"done"}  BY <1>1 DEF Busy, Working, Claiming
<1>4. RetainedReached'
  BY <1>1, <1>2, <1>3 DEF RetainedReached, CoveredBetween, Busy
<1>5. HolderReached'
  BY <1>1, <1>2, <1>3 DEF HolderReached, CoveredBetween, Planned, Busy
<1>6. HolderFinishes'
  BY <1>1, <1>2, <1>3 DEF HolderFinishes, CoveredBetween, Busy
<1>. QED  BY <1>4, <1>5, <1>6

\* The steps of process_batch keep SessionInv.
LEMMA SessionProcessBatch ==
  ASSUME DataOK, SessionInv, NEW w \in Writers, ProcessBatch(w)
  PROVE  SessionInv'
<1>. USE DEF kafkaVars, sparkVars, dbVars, workVars
<1>1. CASE Stop(w)  BY <1>1, SessionStop
<1>2. CASE ~Stop(w)
  <2>1. CASE Begin(w) \/ ReadMarks(w) \/ CheckLedger(w)
    BY <1>2, <2>1, SessionBegin, SessionReadMarks, SessionCheckLedger
  <2>2. CASE Allocate(w) \/ ClearPrefix(w) \/ WriteParquet(w) \/ WriteQuarantine(w) \/ BuildManifest(w)
    <3>1. /\ phase[w] \in Claiming /\ phase'[w] \in Claiming
          /\ \A v \in Writers \ {w} : phase'[v] = phase[v]
          /\ UNCHANGED <<logLow, start, end, marks, ledger, lock, lo>>
      BY <1>2, <2>2 DEF Allocate, ClearPrefix, WriteParquet, WriteQuarantine, BuildManifest, Goto,
                        DataOK, Claiming
    <3>. QED  BY <3>1, SessionFrame DEF Busy, Working, Claiming
  <2>3. CASE Commit(w)
    <3>1. CanInsert(w)  BY <1>2, <2>3 DEF Commit
    <3>. QED  BY <2>3, <3>1, SessionCommit
  <2>4. CASE Return(w)
    <3>1. /\ phase[w] = "return" /\ phase'[w] = "done" /\ lock = w /\ lock' = NoWriter
          /\ \A v \in Writers \ {w} : phase'[v] = phase[v] /\ lo'[v] = lo[v]
          /\ UNCHANGED <<logLow, start, end, marks, ledger>>
      BY <1>2, <2>4 DEF Return, Goto, Forget, DataOK
    <3>. QED  BY <3>1, SessionFrame, WritersAssumption DEF Busy, Working, Claiming
  <2>. QED  BY <2>1, <2>2, <2>3, <2>4 DEF ProcessBatch
<1>. QED  BY <1>1, <1>2

\* Every step keeps SessionInv, also one that ends a session.
LEMMA SessionStep ==
  ASSUME DataOK, SessionInv, [Next \/ LoseSession]_vars
  PROVE  SessionInv'
<1>. USE DEF kafkaVars, sparkVars, dbVars, workVars
<1>1. ASSUME UNCHANGED <<logLow, phase, start, end, marks, ledger, lo>>,
             \A v \in Writers : lock' = v => lock = v
      PROVE  SessionInv'
  <2>1. \A p \in Partitions : Covered(p)' = Covered(p)  BY <1>1 DEF Covered
  <2>. QED
    BY <1>1, <2>1 DEF SessionInv, RetainedReached, HolderReached, HolderFinishes, CoveredBetween, Planned
<1>2. ASSUME NEW p \in Partitions, Expire(p) PROVE SessionInv'  BY <1>2, SessionExpire
<1>3. ASSUME NEW w \in Writers, TriggerLoop(w) PROVE SessionInv'
  BY <1>3, SessionStart, SessionPlan, SessionProcessBatch, SessionCommitCheckpoint DEF TriggerLoop
<1>4. ASSUME NEW w \in Writers, Crash(w) PROVE SessionInv'
  BY <1>4, SessionStop DEF Crash
<1>5. ASSUME NEW w \in Writers, RecreateCheckpoint(w) PROVE SessionInv'
  <2>1. phase'[w] = "fresh" /\ \A v \in Writers \ {w} : phase'[v] = phase[v]
    BY <1>5 DEF RecreateCheckpoint, Goto, DataOK
  <2>. QED  BY <1>5, <2>1, SessionFrame DEF RecreateCheckpoint, Busy, Working, Claiming
<1>6. ASSUME NEW p \in Partitions, Produce(p) PROVE SessionInv'
  BY <1>1, <1>6 DEF Produce
<1>7. CASE ClockAdvances \/ UNCHANGED vars  BY <1>1, <1>7 DEF ClockAdvances, vars
<1>8. CASE LoseSession  BY <1>1, <1>8, WritersAssumption DEF LoseSession
<1>. QED
  BY <1>2, <1>3, <1>4, <1>5, <1>6, <1>7, <1>8 DEF Next, Surroundings, Interruption

\* Nothing is archived at the start, and every checkpoint is where Kafka begins.
LEMMA SessionInit == Init => SessionInv
<1>. SUFFICES ASSUME Init  PROVE SessionInv
  OBVIOUS
<1>1. \A w \in Writers : phase[w] = "fresh" /\ phase[w] \notin Busy \union {"done"}
  BY DEF Init, Busy, Working, Claiming
<1>2. \A p \in Partitions, o \in {0, Absent} : CoveredBetween(0, o, p)
  BY DEF CoveredBetween, Offsets
<1>3. RetainedReached  BY <1>1, <1>2 DEF Init, RetainedReached, Busy
<1>. QED  BY <1>1, <1>3 DEF SessionInv, HolderReached, HolderFinishes, Busy

\* A step with which Spark writes its commit log moves the checkpoint over rows
\* of the ledger only.
LEMMA FollowsStep ==
  ASSUME DataOK, SessionInv, NEW w \in Writers, CommitCheckpoint(w), NEW p \in Partitions
  PROVE  start[w][p] .. (start'[w][p] - 1) \subseteq Covered(p)
<1>1. phase[w] = "done" /\ start'[w] = end[w]  BY DEF CommitCheckpoint, DataOK
<1>2. start[w][p] \in 0 .. MaxOffset /\ end[w][p] \in 0 .. MaxOffset  BY DEF DataOK, Positions
<1>3. CoveredBetween(start[w][p], end[w][p], p)  BY <1>1 DEF SessionInv, HolderFinishes
<1>. QED  BY <1>1, <1>2, <1>3 DEF CoveredBetween, Offsets

\* The invariant of an archive whose writers may lose their sessions.
THEOREM SessionInvariant == LossySpec => [](DataOK /\ SessionInv)
<1>1. Init => DataOK  BY DataInit
<1>2. DataOK /\ [Next \/ LoseSession]_vars => DataOK'
  <2>1. DataOK /\ LoseSession => DataOK'
    BY DEF LoseSession, DataOK, kafkaVars, sparkVars, dbVars, storeVars, workVars
  <2>. QED  BY <2>1, DataStep
<1>3. DataOK /\ SessionInv /\ [Next \/ LoseSession]_vars => SessionInv'  BY SessionStep
<1>. QED  BY <1>1, <1>2, <1>3, SessionInit, PTL DEF LossySpec

\* No lost session makes Spark's checkpoint pass a row that the ledger lacks: the
\* lock's connection raises when process_batch leaves it (raw_job.py:24, db.py:27).
THEOREM CheckpointSurvivesLoss == LossySpec => CheckpointFollowsArchive
<1>. DEFINE Follows ==
       \A w \in Writers :
         phase[w] = "done" /\ phase'[w] = "idle" =>
           \A p \in Partitions : start[w][p] .. (start'[w][p] - 1) \subseteq Covered(p)
<1>1. DataOK /\ SessionInv /\ [Next \/ LoseSession]_vars => [Follows]_vars
  <2>. SUFFICES ASSUME DataOK, SessionInv, Next \/ LoseSession, NEW w \in Writers,
                       phase[w] = "done", phase'[w] = "idle", NEW p \in Partitions
                PROVE  start[w][p] .. (start'[w][p] - 1) \subseteq Covered(p)
    OBVIOUS
  <2>1. Next  BY DEF LoseSession
  <2>2. CommitCheckpoint(w)  BY <2>1, OnlyCommitLeavesDone
  <2>. QED  BY <2>2, FollowsStep
<1>. QED  BY <1>1, SessionInvariant, PTL DEF LossySpec, CheckpointFollowsArchive
=============================================================================
