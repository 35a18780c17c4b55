----------------------------- MODULE RawArchive -----------------------------
(***************************************************************************)
(* The raw archive consumer, src/streaming/raw_job.py.                     *)
(*                                                                         *)
(* Spark plans an offset range of the Kafka topic, writes the plan to the  *)
(* offset log of the writer's checkpoint directory and hands the rows to   *)
(* process_batch, which                                                    *)
(*   - takes the session advisory lock (8203,-1) of PostgreSQL,            *)
(*   - reads the per-partition high water marks and trims the prefix that  *)
(*     is archived already, or stops at a gap,                             *)
(*   - allocates the next archive batch id,                                *)
(*   - overwrites the MinIO prefix of that id with Parquet files, and its  *)
(*     quarantine prefix when rows are rejected,                           *)
(*   - builds a manifest of the files it finds under the prefix, and       *)
(*   - commits the ledger row and the new marks in one transaction.        *)
(* Then Spark writes its commit log.  The process can stop between any two *)
(* of these steps and is restarted by Docker ("restart: unless-stopped");  *)
(* Spark then repeats the planned range.                                   *)
(*                                                                         *)
(* Kafka, Spark's checkpoint protocol, the advisory lock and MinIO are     *)
(* external; they are modelled from the way the code uses them.            *)
(***************************************************************************)
EXTENDS Integers, FiniteSets

CONSTANTS
  Partitions,       \* partitions of the topic trip-events
  Writers,          \* raw writer processes, each with its checkpoint directory
  NoWriter,         \* value of the advisory lock while it is free
  MaxOffset,        \* bound: rows produced per partition
  MaxBatches,       \* bound: archive batch ids
  MaxExpired,       \* bound: rows that retention removes per partition
  MaxPerTrigger,    \* maxOffsetsPerTrigger
  Suspect           \* rows that validation may reject

Absent == -1        \* no row of archive_partition_offsets for the partition

Offsets == 0 .. MaxOffset - 1
AllRows == Partitions \X Offsets
Ids == 0 .. MaxBatches - 1
Positions == [Partitions -> 0 .. MaxOffset]

ASSUME BoundsAssumption ==
  /\ MaxOffset \in Nat
  /\ MaxBatches \in Nat \ {0}
  /\ MaxExpired \in Nat
  /\ MaxPerTrigger \in Nat \ {0}
ASSUME WritersAssumption == NoWriter \notin Writers
ASSUME DataAssumption == Suspect \subseteq AllRows

VARIABLES
  logLow,    \* first offset that Kafka retains, per partition
  logEnd,    \* next offset that Kafka assigns, per partition
  ripe,      \* suspect rows that the simulated clock has made acceptable
  phase,     \* where each writer is in its trigger loop
  start,     \* committed position of each writer's checkpoint
  end,       \* planned end of each writer's batch; = start when nothing is planned
  lock,      \* holder of the advisory lock
  marks,     \* archive_partition_offsets.next_offset, or Absent
  ledger,    \* pipeline_batches
  files,     \* rows under dt=*/ of each MinIO prefix
  quar,      \* rows under each quarantine prefix
  lo,        \* first offset of each writer's batch after trimming
  id,        \* archive batch id each writer has allocated
  kept,      \* rows the writer classified as valid (good_count of them)
  manifest   \* manifest each writer has built

kafkaVars == <<logLow, logEnd, ripe>>
sparkVars == <<start, end>>
dbVars == <<marks, ledger>>
storeVars == <<files, quar>>
workVars == <<lo, id, kept, manifest>>
vars == <<kafkaVars, phase, sparkVars, lock, dbVars, storeVars, workVars>>

-----------------------------------------------------------------------------
(* Ranges of rows *)

\* The rows of a range that starts at l and ends before h in each partition.
Rows(l, h) == {r \in AllRows : l[r[1]] <= r[2] /\ r[2] < h[r[1]]}

\* The offsets of partition p that the ledger accounts for.
Covered(p) == UNION {b.lo[p] .. (b.hi[p] - 1) : b \in ledger}

\* Wrong variant (see below): a partition set, not its offsets, identifies a source range.
SameSource_PartitionsOnly(b, l, h) ==
  \A p \in Partitions : b.lo[p] < b.hi[p] <=> l[p] < h[p]

\* The canonical source identity: partitions without a row are not part of it.
SameSource(b, l, h) ==
  \A p \in Partitions :
    b.lo[p] < b.hi[p] \/ l[p] < h[p] => b.lo[p] = l[p] /\ b.hi[p] = h[p]

Batch == [id : Ids, lo : Positions, hi : Positions,
          good : SUBSET AllRows, bad : SUBSET AllRows, manifest : SUBSET AllRows]

Planned(w, p) == start[w][p] < end[w][p]
InBatch(w, p) == lo[w][p] < end[w][p]
BatchRows(w) == Rows(lo[w], end[w])

-----------------------------------------------------------------------------
(* Wrong variants of definitions below, each a bug the code could have.    *)
(* They replace the definition they are named after to show that the       *)
(* properties notice.                                                      *)

\* The result of pg_try_advisory_lock is not looked at.
LockFree_Ignored == TRUE

\* A replayed prefix is taken for a discontinuity.
HasGap_Replay(w) ==
  \E p \in Partitions : Planned(w, p) /\ marks[p] # Absent /\ start[w][p] # marks[p]

\* A partition without a mark is trimmed like any other.
Trimmed_NoRow(w) ==
  [p \in Partitions |-> IF Planned(w, p) THEN marks[p] ELSE start[w][p]]

\* COALESCE(max(batch_id),-1) without the increment.
IsNextId_Last(n) == n = 0 \/ \E b \in ledger : b.id = n /\ \A c \in ledger : c.id <= n

\* The clock is read again when the quarantine files are written.
Rejected_Later(w) == BatchRows(w) \cap (Suspect \ ripe)

\* The last archived offset is stored instead of the next one.
Advanced_LastOffset(w) ==
  [p \in Partitions |-> IF InBatch(w, p) THEN end[w][p] - 1 ELSE marks[p]]

\* One offset too many is counted.
Advanced_OneTooFar(w) ==
  [p \in Partitions |-> IF InBatch(w, p) THEN end[w][p] + 1 ELSE marks[p]]

\* Partitions that are not part of the batch are written too.
Advanced_AllPartitions(w) == end[w]

-----------------------------------------------------------------------------
Init ==
  /\ logLow = [p \in Partitions |-> 0]
  /\ logEnd = [p \in Partitions |-> 0]
  /\ ripe = {}
  /\ phase = [w \in Writers |-> "fresh"]
  /\ start = [w \in Writers |-> [p \in Partitions |-> 0]]
  /\ end = [w \in Writers |-> [p \in Partitions |-> 0]]
  /\ lock = NoWriter
  /\ marks = [p \in Partitions |-> Absent]
  /\ ledger = {}
  /\ files = [i \in Ids |-> {}]
  /\ quar = [i \in Ids |-> {}]
  /\ lo = [w \in Writers |-> [p \in Partitions |-> 0]]
  /\ id = [w \in Writers |-> 0]
  /\ kept = [w \in Writers |-> {}]
  /\ manifest = [w \in Writers |-> {}]

Goto(w, there) == phase' = [phase EXCEPT ![w] = there]

\* What a call of process_batch has computed is local to the call.
Forget(w) ==
  /\ lo' = [lo EXCEPT ![w] = [p \in Partitions |-> 0]]
  /\ id' = [id EXCEPT ![w] = 0]
  /\ kept' = [kept EXCEPT ![w] = {}]
  /\ manifest' = [manifest EXCEPT ![w] = {}]

\* The process ends: an exception stops the streaming query, or a crash. Its
\* database session closes, which frees the lock; checkpoint and store remain.
Stop(w) ==
  /\ Goto(w, "down")
  /\ lock' = IF lock = w THEN NoWriter ELSE lock
  /\ Forget(w)
  /\ UNCHANGED <<kafkaVars, sparkVars, dbVars, storeVars>>

-----------------------------------------------------------------------------
(* The surroundings: Kafka, the simulated clock, the database session *)

Produce(p) ==
  /\ logEnd[p] < MaxOffset
  /\ logEnd' = [logEnd EXCEPT ![p] = @ + 1]
  /\ UNCHANGED <<logLow, ripe, phase, sparkVars, lock, dbVars, storeVars, workVars>>

\* Kafka's retention removes the oldest row of a partition.
Expire(p) ==
  /\ logLow[p] < logEnd[p]
  /\ logLow[p] < MaxExpired
  /\ logLow' = [logLow EXCEPT ![p] = @ + 1]
  /\ UNCHANGED <<logEnd, ripe, phase, sparkVars, lock, dbVars, storeVars, workVars>>

\* The upper bound of acceptable event times moves with the wall clock: a row
\* that was ahead of it is acceptable from now on.
ClockAdvances ==
  /\ \E r \in Suspect \ ripe : ripe' = ripe \union {r}
  /\ UNCHANGED <<logLow, logEnd, phase, sparkVars, lock, dbVars, storeVars, workVars>>

\* PostgreSQL loses the session of the lock while its holder keeps running.
LoseSession ==
  /\ lock # NoWriter
  /\ lock' = NoWriter
  /\ UNCHANGED <<kafkaVars, phase, sparkVars, dbVars, storeVars, workVars>>

-----------------------------------------------------------------------------
(* Spark's side of the trigger loop *)

\* The container starts. With an empty checkpoint directory the initial
\* offsets are the earliest retained ones ("startingOffsets", "earliest").
Start(w) ==
  /\ \/ /\ phase[w] = "fresh"
        /\ start' = [start EXCEPT ![w] = logLow]
        /\ end' = [end EXCEPT ![w] = logLow]
     \/ /\ phase[w] = "down"
        /\ UNCHANGED sparkVars
  /\ Goto(w, "idle")
  /\ UNCHANGED <<kafkaVars, lock, dbVars, storeVars, workVars>>

Crash(w) ==
  /\ phase[w] \notin {"fresh", "down"}
  /\ Stop(w)

\* The checkpoint directory of a stopped writer is lost or recreated.
RecreateCheckpoint(w) ==
  /\ phase[w] = "down"
  /\ Goto(w, "fresh")
  /\ UNCHANGED <<kafkaVars, sparkVars, lock, dbVars, storeVars, workVars>>

\* The next range is planned and persisted in the offset log before it is
\* processed; a range that is planned already is repeated as it is.
Plan(w) ==
  /\ phase[w] = "idle"
  /\ start[w] = end[w]
  /\ \E target \in Positions :
       /\ \A p \in Partitions : start[w][p] <= target[p] /\ target[p] <= logEnd[p]
       /\ Cardinality(Rows(start[w], target)) \in 1 .. MaxPerTrigger
       /\ end' = [end EXCEPT ![w] = target]
  /\ UNCHANGED <<kafkaVars, phase, start, lock, dbVars, storeVars, workVars>>

\* The rows of the range are all still in Kafka (failOnDataLoss is on).
Readable(w) == \A p \in Partitions : Planned(w, p) => logLow[p] <= start[w][p]

\* foreachBatch has returned: Spark writes the commit log.
CommitCheckpoint(w) ==
  /\ phase[w] = "done"
  /\ start' = [start EXCEPT ![w] = end[w]]
  /\ Goto(w, "idle")
  /\ UNCHANGED <<kafkaVars, end, lock, dbVars, storeVars, workVars>>

-----------------------------------------------------------------------------
(* process_batch *)

LockFree == lock = NoWriter

\* pg_try_advisory_lock, then the rows are read and cached.
Begin(w) ==
  /\ phase[w] = "idle"
  /\ start[w] # end[w]
  /\ IF LockFree /\ Readable(w)
       THEN /\ lock' = w
            /\ Goto(w, "marks")
            /\ UNCHANGED <<kafkaVars, sparkVars, dbVars, storeVars, workVars>>
       ELSE Stop(w)

\* replay_plan: a partition of the batch that starts above its mark is a gap ...
HasGap(w) ==
  \E p \in Partitions :
    Planned(w, p) /\ marks[p] # Absent /\ start[w][p] > marks[p]

\* ... and the offsets below the mark are the committed prefix to skip.
Trimmed(w) ==
  [p \in Partitions |->
     IF Planned(w, p) /\ marks[p] > start[w][p]
       THEN IF marks[p] < end[w][p] THEN marks[p] ELSE end[w][p]
       ELSE start[w][p]]

ReadMarks(w) ==
  /\ phase[w] = "marks"
  /\ IF HasGap(w)
       THEN Stop(w)
       ELSE /\ lo' = [lo EXCEPT ![w] = Trimmed(w)]
            /\ Goto(w, IF Trimmed(w) = end[w] THEN "return" ELSE "ledger")
            /\ UNCHANGED <<kafkaVars, sparkVars, lock, dbVars, storeVars,
                           id, kept, manifest>>

Continues(w) ==
  \A p \in Partitions : InBatch(w, p) => marks[p] \in {Absent, lo[w][p]}

\* A committed batch with this source fingerprint ends the call; otherwise
\* assert_offset_continuity holds the marks (FOR UPDATE) or raises.
CheckLedger(w) ==
  /\ phase[w] = "ledger"
  /\ IF \E b \in ledger : SameSource(b, lo[w], end[w])
       THEN /\ Goto(w, "return")
            /\ UNCHANGED <<kafkaVars, sparkVars, lock, dbVars, storeVars, workVars>>
       ELSE IF Continues(w)
         THEN /\ Goto(w, "allocate")
              /\ UNCHANGED <<kafkaVars, sparkVars, lock, dbVars, storeVars, workVars>>
         ELSE Stop(w)

\* COALESCE(max(batch_id),-1)+1
IsNextId(n) ==
  /\ \A b \in ledger : b.id < n
  /\ n = 0 \/ \E b \in ledger : b.id = n - 1

Allocate(w) ==
  /\ phase[w] = "allocate"
  /\ \E n \in Ids : IsNextId(n) /\ id' = [id EXCEPT ![w] = n]
  /\ Goto(w, "overwrite")
  /\ UNCHANGED <<kafkaVars, sparkVars, lock, dbVars, storeVars, lo, kept, manifest>>

\* mode("overwrite") first removes what is under the prefix ...
ClearPrefix(w) ==
  /\ phase[w] = "overwrite"
  /\ files' = [files EXCEPT ![id[w]] = {}]
  /\ kept' = [kept EXCEPT ![w] = BatchRows(w) \ (Suspect \ ripe)]
  /\ Goto(w, "upload")
  /\ UNCHANGED <<kafkaVars, sparkVars, lock, dbVars, quar, lo, id, manifest>>

\* ... and then puts the Parquet files of the valid rows there.
WriteParquet(w) ==
  /\ phase[w] = "upload"
  /\ files' = [files EXCEPT ![id[w]] = @ \union kept[w]]
  /\ Goto(w, "quarantine")
  /\ UNCHANGED <<kafkaVars, sparkVars, lock, dbVars, quar, workVars>>

Rejected(w) == BatchRows(w) \ kept[w]

\* Rejected rows overwrite the quarantine prefix; without any it is left alone.
WriteQuarantine(w) ==
  /\ phase[w] = "quarantine"
  /\ quar' = IF kept[w] = BatchRows(w) THEN quar
             ELSE [quar EXCEPT ![id[w]] = Rejected(w)]
  /\ Goto(w, "manifest")
  /\ UNCHANGED <<kafkaVars, sparkVars, lock, dbVars, files, workVars>>

\* build_manifest lists and digests what is stored; the totals must agree.
BuildManifest(w) ==
  /\ phase[w] = "manifest"
  /\ IF Cardinality(files[id[w]]) = Cardinality(kept[w])
       THEN /\ manifest' = [manifest EXCEPT ![w] = files[id[w]]]
            /\ Goto(w, "commit")
            /\ UNCHANGED <<kafkaVars, sparkVars, lock, dbVars, storeVars, lo, id, kept>>
       ELSE Stop(w)

\* The primary key and the unique source fingerprint of pipeline_batches.
CanInsert(w) ==
  /\ \A b \in ledger : b.id # id[w]
  /\ \A b \in ledger : ~SameSource(b, lo[w], end[w])

\* Marks of these partitions are held by another writer's open transaction.
MarksHeld(w) ==
  \E v \in Writers \ {w}, p \in Partitions :
    phase[v] = "allocate" /\ marks[p] # Absent /\ InBatch(v, p) /\ InBatch(w, p)

Advanced(w) == [p \in Partitions |-> IF InBatch(w, p) THEN end[w][p] ELSE marks[p]]

\* One transaction: the ledger row and advance_offsets.
Commit(w) ==
  /\ phase[w] = "commit"
  /\ ~MarksHeld(w)
  /\ IF CanInsert(w)
       THEN /\ ledger' = ledger \union
                 {[id |-> id[w], lo |-> lo[w], hi |-> end[w], good |-> kept[w],
                   bad |-> BatchRows(w) \ kept[w], manifest |-> manifest[w]]}
            /\ marks' = Advanced(w)
            /\ Goto(w, "return")
            /\ UNCHANGED <<kafkaVars, sparkVars, lock, storeVars, workVars>>
       ELSE Stop(w)

\* Leaving process_batch closes the lock's connection. Its commit raises when
\* the session is gone.
Return(w) ==
  /\ phase[w] = "return"
  /\ IF lock = w
       THEN /\ lock' = NoWriter
            /\ Goto(w, "done")
            /\ Forget(w)
            /\ UNCHANGED <<kafkaVars, sparkVars, dbVars, storeVars>>
       ELSE Stop(w)

-----------------------------------------------------------------------------
ProcessBatch(w) ==
  \/ Begin(w) \/ ReadMarks(w) \/ CheckLedger(w) \/ Allocate(w)
  \/ ClearPrefix(w) \/ WriteParquet(w) \/ WriteQuarantine(w) \/ BuildManifest(w)
  \/ Commit(w) \/ Return(w)

TriggerLoop(w) == Start(w) \/ Plan(w) \/ ProcessBatch(w) \/ CommitCheckpoint(w)

Surroundings ==
  \/ \E p \in Partitions : Produce(p) \/ Expire(p)
  \/ ClockAdvances

Interruption == \E w \in Writers : Crash(w) \/ RecreateCheckpoint(w)

Next == Surroundings \/ Interruption \/ \E w \in Writers : TriggerLoop(w)

\* The session of the lock lives as long as the call that holds it ...
Spec == Init /\ [][Next]_vars

\* ... or may end under it.
LossySpec == Init /\ [][Next \/ LoseSession]_vars

-----------------------------------------------------------------------------
(* Properties *)

Phases == {"fresh", "down", "idle", "marks", "ledger", "allocate", "overwrite",
           "upload", "quarantine", "manifest", "commit", "return", "done"}

\* Type correctness.
DataOK ==
  /\ logLow \in Positions /\ logEnd \in Positions
  /\ ripe \in SUBSET Suspect
  /\ phase \in [Writers -> Phases]
  /\ start \in [Writers -> Positions] /\ end \in [Writers -> Positions]
  /\ marks \in [Partitions -> 0 .. MaxOffset \union {Absent}]
  /\ ledger \in SUBSET Batch
  /\ files \in [Ids -> SUBSET AllRows] /\ quar \in [Ids -> SUBSET AllRows]
  /\ lo \in [Writers -> Positions] /\ id \in [Writers -> Ids]
  /\ kept \in [Writers -> SUBSET AllRows] /\ manifest \in [Writers -> SUBSET AllRows]

TypeOK == DataOK /\ lock \in Writers \union {NoWriter}

\* A Kafka row is accounted for by at most one ledger entry, however often its
\* range is replayed, by whichever checkpoint (source_identity, replay_plan).
NoRowTwice ==
  \A a, b \in ledger : a # b => Rows(a.lo, a.hi) \cap Rows(b.lo, b.hi) = {}

\* What the ledger accounts for in a partition is one unbroken run of offsets
\* that ends at the partition's high water mark.
NoHole ==
  \A p \in Partitions :
    /\ \A x, y \in Covered(p) : x .. y \subseteq Covered(p)
    /\ \A x \in Covered(p) : x < marks[p]
    /\ marks[p] # Absent => marks[p] - 1 \in Covered(p)

\* Spark never commits a checkpoint past a row that is not in the ledger: the
\* planned range is either archived, or was archived before.
CheckpointFollowsArchive ==
  [][\A w \in Writers :
       phase[w] = "done" /\ phase'[w] = "idle" =>
         \A p \in Partitions : start[w][p] .. (start'[w][p] - 1) \subseteq Covered(p)]_vars

\* The objects under a committed prefix stay the ones its manifest was built
\* from, whatever later or restarted attempts write.
CommittedIntact == \A b \in ledger : files[b.id] = b.manifest

\* Each row of a committed range is in the archive or in quarantine.
EveryRowAccounted ==
  \A b \in ledger :
    /\ b.manifest \union b.bad = Rows(b.lo, b.hi)
    /\ b.bad \subseteq quar[b.id]

-----------------------------------------------------------------------------
(* The inductive invariant behind the offset properties. It needs the lock *)
(* to be held for as long as a call of process_batch runs.                 *)

Claiming == {"allocate", "overwrite", "upload", "quarantine", "manifest", "commit"}
Storing == Claiming \ {"allocate"}
Working == Claiming \union {"ledger"}
Busy == Working \union {"marks", "return"}

LockHeld == \A w \in Writers : phase[w] \in Busy => lock = w

\* A checkpoint is never ahead of both Kafka's oldest row and the mark.
CheckpointBehind ==
  \A w \in Writers, p \in Partitions :
    /\ start[w][p] <= end[w][p]
    /\ start[w][p] <= logLow[p] \/ start[w][p] <= marks[p]

EntriesBelowMarks ==
  \A b \in ledger, p \in Partitions : b.lo[p] < b.hi[p] => b.hi[p] <= marks[p]

RunsEndAtMarks ==
  \A p \in Partitions :
    /\ \A x, y \in Covered(p) : x .. y \subseteq Covered(p)
    /\ marks[p] # Absent => marks[p] - 1 \in Covered(p)

\* Everything from offset o of partition p up to its mark is in the ledger.
CoveredFrom(o, p) == \A x \in Offsets : o <= x /\ x < marks[p] => x \in Covered(p)

RetainedCovered == \A p \in Partitions : CoveredFrom(logLow[p], p)

\* What a running batch finds below the marks is a committed prefix of it.
ReplayCovered ==
  \A w \in Writers, p \in Partitions :
    phase[w] \in Busy \union {"done"} /\ Planned(w, p) => CoveredFrom(start[w][p], p)

TrimSound ==
  \A w \in Writers, p \in Partitions :
    phase[w] \in Working =>
      /\ start[w][p] <= lo[w][p] /\ lo[w][p] <= end[w][p]
      /\ marks[p] = Absent => lo[w][p] = start[w][p]
      /\ Planned(w, p) /\ ~InBatch(w, p) => end[w][p] <= marks[p]

MarksStillChecked ==
  \A w \in Writers, p \in Partitions :
    phase[w] \in Claiming /\ InBatch(w, p) => marks[p] \in {Absent, lo[w][p]}

IdsAbove ==
  \A w \in Writers : phase[w] \in Storing => \A b \in ledger : b.id < id[w]

FinishedBelowMarks ==
  \A w \in Writers, p \in Partitions :
    phase[w] \in {"return", "done"} /\ Planned(w, p) => end[w][p] <= marks[p]

\* Offsets, marks and checkpoints agree at every step of every writer.
OffsetInv ==
  /\ LockHeld /\ CheckpointBehind /\ EntriesBelowMarks /\ RunsEndAtMarks
  /\ RetainedCovered /\ ReplayCovered /\ TrimSound /\ MarksStillChecked
  /\ IdsAbove /\ FinishedBelowMarks

\* What a running attempt has stored so far under its id, which is above every
\* committed id, is what it will commit.
FilesInv ==
  /\ \A w \in Writers :
       /\ phase[w] \in Storing \ {"overwrite"} => kept[w] \subseteq BatchRows(w)
       /\ phase[w] = "upload" => files[id[w]] = {}
       /\ phase[w] \in {"quarantine", "manifest", "commit"} => files[id[w]] = kept[w]
       /\ phase[w] \in {"manifest", "commit"} => BatchRows(w) \ kept[w] \subseteq quar[id[w]]
       /\ phase[w] = "commit" => manifest[w] = kept[w]
  /\ CommittedIntact
  /\ EveryRowAccounted

-----------------------------------------------------------------------------
(* What holds when a session of the lock ends under its holder, who goes   *)
(* on beside the next one. The inductive invariant behind                  *)
(* CheckpointFollowsArchive then.                                          *)

CoveredBetween(l, h, p) == \A x \in Offsets : l <= x /\ x < h => x \in Covered(p)

\* Whoever wrote them last, marks and checkpoints pass no row that Kafka retains
\* and the ledger lacks.
RetainedReached ==
  \A p \in Partitions :
    /\ CoveredBetween(logLow[p], marks[p], p)
    /\ \A w \in Writers :
         /\ CoveredBetween(logLow[p], start[w][p], p)
         /\ phase[w] \in Working => CoveredBetween(logLow[p], lo[w][p], p)
         /\ phase[w] \in {"return", "done"} => CoveredBetween(logLow[p], end[w][p], p)

\* All that writers without a session can still add to the marks follows on the
\* position of the one that holds the lock, although Kafka may drop rows meanwhile.
HolderReached ==
  \A w \in Writers, p \in Partitions :
    phase[w] = "marks" /\ lock = w /\ Planned(w, p) =>
      /\ CoveredBetween(start[w][p], marks[p], p)
      /\ \A v \in Writers \ {w} :
           /\ phase[v] \in Busy => CoveredBetween(start[w][p], start[v][p], p)
           /\ phase[v] \in Working => CoveredBetween(start[w][p], lo[v][p], p)

\* Only a call that kept its session returns to Spark.
HolderFinishes ==
  \A w \in Writers, p \in Partitions :
    /\ phase[w] \in Working /\ lock = w => CoveredBetween(start[w][p], lo[w][p], p)
    /\ phase[w] = "return" /\ lock = w => CoveredBetween(start[w][p], end[w][p], p)
    /\ phase[w] = "done" => CoveredBetween(start[w][p], end[w][p], p)

SessionInv == RetainedReached /\ HolderReached /\ HolderFinishes

-----------------------------------------------------------------------------
\* The archive seen from the batch layer: offsets accounted for, per partition.
Contiguous ==
  INSTANCE ContiguousArchive WITH archived <- [p \in Partitions |-> Covered(p)]

\* The ledger implements ContiguousArchive: no replay, crash, trim or new
\* checkpoint ever removes an offset, leaves a hole or adds one below the top.
ImplementsContiguousArchive == Contiguous!Spec
=============================================================================
