# Fleet platform: a TLA+ verification project

The platform of this repository takes a Kafka topic of taxi events down two
paths. A *raw consumer* archives every row in MinIO and records it in a ledger; a
*serving query* and a *metrics query* keep live tables in PostgreSQL; a *daily
job* recomputes profit reports from the archive. Everything of value is in how
these parts survive restarts, replays, contradictory rows and each other. The
modules here model those mechanisms from the code, TLC checks them on small
instances, and TLAPS proves for every size the guarantees of the archive, of its checkpoints under torn
files and lost sessions, of gap repair, restoration and audits, of the serving tables and their agreement
with the reports, of the telemetry rule, the publication of reports and the health answers about them.

Paths below are relative to the repository's root.

## 1. Inventory

| Component | Code | State | Operations |
|---|---|---|---|
| raw archive consumer | `streaming/raw_job.py`, `sql/006`, `sql/007` | Spark checkpoint, session lock (8203,-1), `archive_partition_offsets`, `pipeline_batches`, MinIO prefixes of the batches and of quarantine | `process_batch` (lock, `replay_plan`, `assert_offset_continuity`, id allocation, overwrite, manifest, commit) |
| archive manifests | `common/archive.py` | manifest JSON in the ledger | `build_manifest`, `verified_paths` |
| serving query and merge | `streaming/speed_job.py`, `streaming/staged_sink.py`, `sql/002`, `sql/005` | Spark checkpoint, `stream_serving_stage`, `stream_event_keys`, `stream_conflicts`, `rt_zone_metric_events`, `completed_trips`, `rt_vehicle_state`, `rt_alerts` | stage, dead-letter, `merge_staged` |
| metrics query | the same two files | Spark state store and watermark, `rt_zone_metrics` | windowed count, `metrics_partition` |
| row validation | `streaming/validation.py`, `common/domain.py` | none; reads the simulated clock | row and event rules |
| in-memory sink | `streaming/sink.py` | none | superseded by the staged merge; its fingerprint and dead-letter code is still used |
| daily reconciliation | `batch/reconcile.py` | `pipeline_runs`, `daily_vehicle_profit`, `daily_zone_summary`, `daily_report_status`, lock (8203,day) | `run_available`, `run_day` |
| daily aggregation | `batch/spark_reconcile.py` | none | `aggregate` of a date: conflicts, telemetry, costs, totals |
| report publication | `common/publication.py` | export files, export manifest | `build_export_manifest`, `manifest_matches` |
| DAGs | `airflow/dags/*.py` | Airflow, `dq_archive_verification` | minute schedule; hourly audit of the archive and single-query checks |
| archive recovery | `scripts/repair_archive_gap.py`, `scripts/restore_archive_batch.py` | ledger, MinIO, temporary and backup prefixes | archive what the live tables know and the archive does not; rewrite a damaged batch, or undo the attempt |
| checkpoint repair | `scripts/repair_spark_checkpoints.py` | offset and commit logs of a checkpoint | move incomplete log suffixes away |
| migration | `scripts/migrate_integrity.py` | tables of a legacy volume | one-off, writers stopped |
| API and health | `api/main.py` | none | queries, `/health/*` |
| producers | `simulators/*.py` | Kafka topic, expense files | send with retries; replace the daily cost file |
| database and clock | `common/db.py` | connections | commit, rollback, close, reconnect |
| settings, logging, contract; operator scripts; deployment | `common/settings.py`, ..., `docker-compose.yml` | none | constants, checks, restart policies |

**Interaction.** The two streaming processes share the topic and PostgreSQL but
no checkpoint. Archive and serving layer meet in the daily job: it reads the
ledger and the objects of the raw consumer, and the `stream_conflicts` rows of
the serving query. The daily job meets itself, as a scheduled and as a manual
run. The hourly audit reads the ledger and the objects, and an operator answers
what it reports with the restoration script. The health endpoint reads the daily
job's tables first and its files afterwards. All coordination is through PostgreSQL: session advisory locks, row locks,
primary keys and transactions.

**What is hard.** A process may stop between any two writes to three stores
(Kafka checkpoint, MinIO, PostgreSQL) that share no transaction. Checkpoints may be
recreated, so that ranges are planned anew over rows that are handled already.
Rows repeat, arrive late, and contradict rows accepted long ago, which must then
be retracted. The clock decides whether a row is acceptable, and it moves between
an attempt and its retry. Locks live in sessions that can end under their holder.
`PROJECT.json` lists the individual hazards with their lines.

**What makes each part correct.**

- Raw consumer: each Kafka row in at most one ledger entry; no hole below a mark;
  no checkpoint ahead of the ledger; committed objects never change; rejected
  rows are in quarantine; progress.
- Serving merge: tables are a function of the *set* of rows merged so far, not of
  their order, cut or repetition; nothing discredited stays visible; no row is
  lost; the state of a vehicle does not go backwards.
- Metrics: no window shows a discredited event.
- Daily aggregation: counts the trips the serving layer holds, flags the vehicles
  it contests, from one date's rows only; a profit needs an observation at every tick.
- Checkpoint repair: the query resumes at the position that the archive relies on.
- Audit: no damage escapes the rotating sample for ever; with restorations that fail
  anywhere every batch becomes intact again.
- Health: "healthy" is never put together from the files of different reports, an alarm has a
  reason, and health recovers.
- Archive recovery: an interrupted repair leaves nothing under a committed id that its
  ledger row does not list; a failed restoration never destroys the last copy of a row and
  can be repeated until it succeeds.
- Reports: rows, files and fingerprint of a published report come from one run
  that passed the gate; the report catches up with its inputs.

## 2. Modules

| Module | Models |
|---|---|
| `ContiguousArchive` | abstract: an archive is one growing run of offsets per partition |
| `RawArchive` | raw consumer, checkpoint protocol, lock, marks, ledger, objects |
| `CheckpointRepair` | `RawArchive` with the files of its checkpoints, torn by shutdowns and repaired; lost sessions; fairness |
| `RawArchiveProofs` | theorems about `RawArchive`, with and without lost sessions |
| `CheckpointRepairProofs` | theorems about `CheckpointRepair` |
| `GapRepair` | `RawArchive` with the gap repair of an operator |
| `GapRepairProofs` | theorems about `GapRepair` |
| `ArchiveRestore` | restoration of damaged batches, with its undoing |
| `ArchiveAudit` | `ArchiveRestore` with the hourly audit and the operator who answers it |
| `ArchiveRestoreProofs` | theorems about `ArchiveRestore` and `ArchiveAudit` |
| `ServingMerge` | serving query, `merge_staged`, metrics query |
| `ServingMergeProofs` | theorems about `ServingMerge` |
| `TelemetryCoverage` | the producer's ticks and the rule of complete telemetry, as operators |
| `LayerAgreement` | the daily aggregation of any archive, with `TelemetryCoverage`, beside the tables of `ServingMerge` |
| `LayerAgreementProofs` | theorems about `TelemetryCoverage` and `LayerAgreement` |
| `PublishedReport` | abstract: a report is one run's, and is withdrawn before another takes its place |
| `ReportPublication` | `run_available` / `run_day` of one date |
| `ReportPublicationProofs` | theorems about `ReportPublication` |
| `ReportHealth` | `/health/reports` over `ReportPublication` |
| `ReportHealthProofs` | theorems about `ReportHealth` |
| `MC*` | instances for TLC; the other modules are checked directly |

Definitions named `X_Something` next to an `X` are *wrong variants*: bugs the code could have.
Nothing uses them; put in place of `X` they make the properties fail, which shows
that each property depends on that part of the code (`mutants` in `PROJECT.json`).

### RawArchive

One step per externally visible effect of `process_batch`, because a crash can
fall between any two of them. The phase of a writer names the effect to come:

| Action | Code |
|---|---|
| `Plan`, `CommitCheckpoint`, `Start`, `RecreateCheckpoint` | Spark's offset and commit logs around foreachBatch (external) |
| `Begin` | `pg_try_advisory_lock`, or the exception that stops the query |
| `ReadMarks` | reading the marks, `replay_plan`, trimming, early return |
| `CheckLedger` | lookup of the source fingerprint, `assert_offset_continuity` |
| `Allocate` | `COALESCE(max(batch_id),-1)+1` |
| `ClearPrefix`, `WriteParquet`, `WriteQuarantine` | the overwrites of both prefixes |
| `BuildManifest` | `build_manifest` and the comparison of counts |
| `Commit` | the transaction of ledger row and `advance_offsets`, with its keys |
| `Return` | release of the lock when its connection closes |

A batch is a range `lo .. hi` per partition; a row is `<<partition, offset>>`.
Partitions not in a batch are those with an empty range, and the source identity
(`SameSource`) ignores them as the fingerprint in the code does. `kept` is what
the validation accepted *at the time of this attempt*: `ripe` grows as the clock
does, so a retry can classify rows differently. Marks have the value `Absent`
until their row exists, as `FOR UPDATE` cannot lock a missing row.

### CheckpointRepair

Adds the two log directories from which `RawArchive`'s `start` and `end` are read when a
query starts: `offsets` and `commits` map batch numbers to content, `Torn` for an incomplete
file. `Shutdown` is a crash that may leave the file being written and up to `MaxLost` files
before it incomplete; it is assumed that files reach the disk in the order in which
Spark writes them. A query does not start while the newest file of a log is
incomplete (`Legible`). `Repair` moves one file per step, as the script may stop between two;
`InvalidSuffix` and `Refused` are `invalid_suffix` with its refusal of a complete
file behind an incomplete one. Only the raw query's logs are modelled; the script treats those of
the two streaming queries alike.

### ServingMerge

`Merge` is the whole of `merge_staged` in one step, since it is one
transaction; the order of statements inside it appears in which operators use the
old and which the new tables (`NewContrib`, `Displayed`, `Candidate`, `NewState`).
`StageBatch` and `StageFails` are the part before it, with `SendDeadLetters`, `CommitCheckpoint`,
`Crash` and `RecreateCheckpoint` what surrounds it. `merged` is a history
variable: it lets the properties compute what the tables should hold. A
window's number is modelled by the set of events behind it.

Behaviour that a reader may not expect, all of it the code's:

- `rt_vehicle_state.idle_since` is the earliest *idle* time that the code still
  sees, so it may precede a non-idle observation of an older batch; with equal
  timestamps of an idle and a busy event it is NULL for an idle vehicle.
- When the displayed observation is discredited its row is deleted, and an
  *older* observation that arrives next is displayed. `StateNeverRegresses`
  excludes exactly this case.
- A row may be dead-lettered and, after a replay with a later clock, also served.
- Errors of sending and inserting a dead letter are swallowed (`sink.py:27-42`). The first failing insert
  aborts the transaction of its partition, the inserts after it fail as silently, and the commit rolls all
  of them back; so `SendDeadLetters` writes the letters of any choice of partitions, and the batch goes on
  in any case. A rejected row may be passed with neither merge nor letter; what
  `EveryRowHandled` promises is that no other row is. `dead` is the table only; the dead-letter topic, to which
  the same applies, is left out. `StageFails` is an error that is not swallowed (no connection, a failing
  flush or stage).

### GapRepair

Composes `RawArchive` with `scripts/repair_archive_gap.py`. The operator is one more
claimant of the advisory lock. `ArchiveStep` is any step of the raw consumer, which for an
overwrite also removes the objects of a dead repair under the same id; `Serve` lets
the live tables know rows at a pace of their own. `RepairBegin` reads the two maxima and
the next id, `RepairSelect` scans what Kafka retains and checks identities (with either
value of `--include-boundary`), `RepairUpload` writes one date, `RepairCommit` is the
manifest and the ledger row. A recovery has an empty offset range, since nothing in
`raw_job.py` reads its offsets; so `OffsetInv`, the invariant the proofs rest on, must
survive it: `gap_repair` checks that it does, as part of `GapInv`, and
`GapRepairProofs` proves it.

### ArchiveRestore

`scripts/restore_archive_batch.py` for batches of which one has an exact copy under
`DATA_DIR/raw`. MinIO has no rename: moving a prefix copies its objects and then removes
them, so a failed move leaves a partial copy beside a complete original, or a complete
copy beside a partial original. `MoveAsideFails`, `MoveInFails` and `UndoFails` take every
such outcome, `Remove` and `MoveBack` are the `except` clause, and `left`
remembers under which forgotten prefixes a good object remains. Rows are only told apart by date, as
there is one object per date; a rebuilt object is good, since the script compares the
number of rows and the latest event time and the validation is a function of the rows
and of `max_event_ts`.

### ArchiveAudit

`verified` is `dq_archive_verification` in the order of `verified_at, batch_id`, `print`
the manifest of each row, told apart by the names it lists. `Compare` reads the ledger and
digests the objects of the changed batches and of the sample, `EndAudit` raises or writes the
rows; between the two a restoration may record another manifest, which the upsert then
replaces by the older one, so that the next audit takes the batch for changed. A
restoration may have moved objects away while they are digested. An audit that is killed leaves
nothing behind and is left out. `Respond` is an operator who restores exactly
the batches that the last audit named: nobody else looks for damage.

`RestoredAtLast` holds for batches that *all* stay restorable. With one that does not the
claim is false for the others: the audit raises before it records anything
(`data_quality_dag.py:111`), so its sample of 25 is the same every hour, and damage outside it
is not found, whatever the comment in line 81 says of a rotating sample. That is the
price of an alarm nobody answers; the property states the condition.

### LayerAgreement

`Archives` are the archives that hold an initial part of each partition and no row the
serving layer has not merged (that ranges are initial is what `RawArchive` is
shown to do). The properties quantify over them in every state of `ServingMerge`.
`BadIds`, `DisputedTrips`, `DailyTrips` and
`Conflicting` are `aggregate` with the two blocked lists that
`reconcile.py` reads from `stream_conflicts`. Both layers decide with their own
clock, so while the serving query lags, or has rejected a row that the archive took, they
may differ, and nothing in the code says otherwise.

`ReconciliationStatus` is the order of `spark_reconcile.py:122-125` with the vehicles that
`reconcile.py:123` flags on top. An event of a disputed trip is missing from the
telemetry of its vehicle if it was staged with the batch that found the dispute, and
present if it was merged before: how rows were cut into batches shows in the observation count.
It does not show in the status, since the vehicle is flagged either way, and
`ProfitNeedsEveryTick` fails if flagging comes second (`ReconciliationStatus_NotBlocked`).

### TelemetryCoverage

Time is counted in a unit that divides the producer's step and the day, so a date need not
begin with a tick. Observations are pairs of tick and zone, as the code counts
distinct `(vehicle_id, event_time, zone)`. The tolerance of a millisecond for rounding is left out.
The fixed scenarios (`simulators/scenarios.py`) send events
between ticks, which can stand in for missing ticks; the model is about the producer's.

### ReportPublication

One date; `Schedulers` are `run_available` processes (they take the ledger snapshot
before any lock), `Operators` call `run_day` by hand. The main transaction of
`run_day` stays open from the lock to the return, so `closing` holds the orphans it
has updated and not committed: they become visible in `Leave`, and are rolled
back in `Abort`. The session of that transaction, and with it the lock, is assumed to live as long as the
process: what a run does after PostgreSQL has dropped it is modelled for the raw writers only.
A file's content is the id of the run that wrote it, which is what
comparing digests amounts to while a report is published: its files are then its run's own or damaged. `StartRun` takes any one of the run ids that no
row, file or process refers to and forgets what the others were, so that runs can go on for
ever with a few ids. A crashed run that is neither the latest nor being closed can be
forgotten before it is closed; nothing reads such a run but the three-minute grace of the
health endpoint.

`PublishedReport` is what a reader of the date may rely on: at most one report is shown, its rows
and files are one run's, its inputs passed the gate, and it changes only by being
withdrawn, by losing a file, or by a publication after a withdrawal. Nothing else may put a report
where there was none: with the wrong variant `PassesGate_Reread` a report from a bad cost file is published,
and the refinement fails in that step. `Damage` strikes published files and those an interrupted run has left, but not a
file between its writing and its publication, as `build_export_manifest` digests whatever it finds on disk. `Shown` maps the
tables to it: a report with `export_status` "published" is shown, with `daily_report_status`'s
rows and fingerprint and the files that are on disk.

### ReportHealth

`ReadDatabase` is the repeatable-read snapshot. After it `CompareFile` compares one file per step, as
`manifest_matches` reads them one after another while a run may be replacing them, up to the first that does not
match; `Respond` is the answer. The formats are compared in any order, the code's among them.
A run's json, html and parquet name the run; a csv does not (`reconcile.py:160-169`), so that its digest may
equal that of another run with the same figures: formats in `Unnamed` may match the file of another run.

A healthy answer cannot be about the files at the time it is given: json of the first run is compared, the second
replaces it, and csv of the first run still matches. `HealthyWasWhole` says what it is about, the moment of the
snapshot. `intact`, a history variable in `check`, holds the files that were as published then. That each of them
matched at *some* later moment shows that all were whole at *that* one, since the run that wrote them is over. Only a
csv that was damaged at the snapshot can match later, if a run with the same figures has written it meanwhile.

`Verdict` is the decision for the modelled date, which is the newest closed one, with earlier
dates in order and no archive lag. The three minutes of grace are a choice for
every run that is not old. The date's newest run may have failed although
the published report is current again: only orphaned runs are superseded when inputs
return to what is published (`reconcile.py:88`). `FailureLeftBehind` names that
state, and without it `HealthRecovers` is false: a bad cost file that is put
back leaves `/health/reports` degraded until the inputs change. A missing cost file records no run at all,
and a date without a report is "processing" for as long.

## 3. Runs

| Run | Question | Result |
|---|---|---|
| `raw_writers` | two writers, crashes and lost checkpoints anywhere: rows twice, holes, checkpoints ahead, objects changed? | holds; the inductive invariants too |
| `raw_liveness` | does every row reach the ledger once interruptions end, although shutdowns tore checkpoint files and PostgreSQL dropped the session of a lock; does a repaired checkpoint resume where the archive expects it; is one ever ahead of the ledger? | yes; yes; never; the inductive invariant too |
| `raw_fence` | are committed objects safe when a session is dropped? | no (finding) |
| `gap_repair` | do a writer over two partitions and a repair, dying anywhere, mix objects under one id or disturb the offsets? | no; the inductive invariant too |
| `gap_stops` | does a writer go on once a gap is recovered? | no (finding) |
| `archive_restore` | can failing restorations lose the last copy of a row, make a batch unrepairable, or hide damage from the audits? | no |
| `serving_tables` | do the tables depend only on the set of merged rows, in every cut, replay and crash; does the daily report of any archive count the trips they hold, also when a trip has events on two dates; does a profit need every tick? | yes |
| `serving_windows` | may a window keep a discredited event, with both queries running? | no |
| `serving_stale_window` | is a corrected window complete? | no (finding) |
| `serving_late_alert` | does a long idle vehicle have an open alert? | not always (finding) |
| `report_runs` | can a published report be mixed, from a bad cost file, or of another run than the successful one, or change without having been withdrawn; does it catch up after an interruption, and are orphans resolved? | no; yes; the inductive invariant too |
| `report_liveness` | may the health endpoint, which compares one file after another, call a report healthy that was not whole when it read the database, or raise an alarm without a reason; does health recover after two interruptions? | no; yes; the inductive invariant too |

`CopySurvives` has a reason that is easy to break: after a half-way move the script
removes objects that are in no backup, and is safe only because the rebuilt objects under
`repairs/` stay there. The wrong variant `Kept_Tidied`, which cleans up that prefix, loses them.

### Bounds, and why they suffice

- Raw archive: in `raw_writers` three rows of one partition let a range be archived, partly
  replayed and continued; `gap_repair` has two partitions of two rows, so that
  a batch has rows of one, the other, or both, some of them archived already.
  `MaxBatches` is at least one more than a failed attempt leaves free, so that ids are
  reused. `MaxExpired = 1` is enough for a gap. `MaxPerTrigger = 2` gives batches of different
  cut. One `Suspect` row changes its class between attempts. `raw_liveness` has no
  suspect row and no retention, and two writers that race for two rows; `MaxLost = 2` spoils a
  whole batch's two files beside the one being written, `MaxSessions = 1` is one lost
  session, and shutdowns have no bound.
- Gap repair: one writer suffices since the script asks for the writers' lock; three ids
  allow a recovery between two batches and a dead attempt. Event times follow the
  offsets and give two dates.
- Restore and audit: two batches, one with and one without an exact copy, and a sample of one, so
  that the sample has to rotate; two dates, the fewest for
  which a move can fail half-way; `MaxTrouble = 2` damages, failures and crashes together:
  a damage and the failure of the attempt to repair it, or two damages of which
  the sample shows one. Audits and attempts have no bound.
- Serving: four rows of one partition hold an identity conflict, the trip
  conflict that follows from it, and a row after both; two partitions of two
  rows give the reordering between keys. The payloads in `MCServingMerge` are
  chosen so that conflicts chain (an identity whose payloads name two trips,
  one of which has a disputed completion), with a restated trip on the second date.
  `Minute`, `Day` and `Delay` are small enough for several windows, two dates and late
  events. In `serving_tables` a date has two ticks, both of which events reach on the second
  date; longer dates, and those that do not begin with a tick, are left to the theorems.
- Reports: two processes are all that can compete (one scheduler, see
  below, and one person). `MaxTrouble` counts crashes, step failures, damage and
  cost-file changes together: one in `report_runs`, whose inputs also grow while runs are
  under way, and two in `report_liveness`, a crash during the recovery from a first or a cost
  file that is replaced and put back. Two formats are enough for a report to be mixed; in
  `report_liveness` one of them is the csv. Four run ids: the published one, the latest, and one
  for each process.
- `CHECK_DEADLOCK FALSE` is in every configuration as the bounded environment
  comes to an end: a topic at its limit, no trouble left, a writer that stops at a gap.

### Fairness

- `CheckpointRepair`: each writer's trigger loop is weakly fair as a whole. The
  query has a processing-time trigger and the container has `restart:
  unless-stopped`. The operator repairs a checkpoint that does not start, as
  `docs/OPERATIONS.md` says. Kafka, the clock and interruptions have no fairness.
  Progress is claimed without retention, because after a gap the writer by design
  raises on every restart.
- `ArchiveAudit`: audits are weakly fair (`schedule="0 * * * *"`), and so are the script's own
  steps; a batch that the last audit named is restored (strong fairness, since another
  restoration may be running).
- `ReportPublication`: a process that has started goes on, the DAG is triggered
  every minute (`schedule="* * * * *"`, `max_active_runs=1`: one scheduler at a
  time), and running rows grow older. Nobody has to run anything by hand. The
  properties assume the inputs settle on a valid cost file. `ReportHealth` adds that a request
  that was made is answered; nobody has to make one.

## 4. Findings

1. `raw_fence`: the lock is acquired once per batch and not re-checked before
   objects are overwritten. If its session ends, a second writer allocates the same id
   and commits; the first then overwrites the committed prefix. Its own commit
   fails, but the objects no longer match the manifest.
   `docs/FINAL_SCOPE.md` says the lock "fences file writes".
2. `serving_stale_window`: a window that was corrected once ignores the metrics
   query from then on, and only another conflict recomputes it. An event
   accepted later is in `rt_zone_metric_events` and not in `rt_zone_metrics`.
3. `serving_late_alert`: alerts are resolved for any vehicle whose newest event *in
   the batch* is not idle, even when the state upsert ignores that event as
   old. The vehicle is displayed as idle, its alert is closed.
4. `gap_stops`: `repair_archive_gap` commits a ledger row but leaves
   `archive_partition_offsets` alone. A writer whose next range starts behind the gap raises
   "offset discontinuity" after the repair as before, on every restart, although the
   procedure in `docs/OPERATIONS.md` ends with starting it.

Noted without a run of their own:

- `run_day` closes orphans in the transaction that stays open during the
  aggregation (`reconcile.py:41-50`), so their rows are locked that long, contrary to ADR 0003.
- `run_available` reads the ledger before it takes the lock of a date (`reconcile.py:242`): it
  may restate a report that a manual run has published from a newer ledger. The next minute's
  run repairs it (`ReportCatchesUp`).
- With a lost session *before* a partition's first mark, two writers can archive a row
  twice, since there is no row for `FOR UPDATE` to lock.
- A retry under a later clock may reject nothing where an earlier attempt had
  rejected a row: the old objects in the quarantine prefix stay there. They
  are not referred to by any count.
- If Kafka's volume is recreated while PostgreSQL's is not, new rows below the marks
  are trimmed as a replay.
- A row that a repair has recovered is archived again when the writer that merely lagged gets
  to it, and `--include-boundary` archives the rows at the old maximum again. The daily
  aggregation removes duplicates.
- Objects that a dead attempt left under the next id make a repair fail with a row count
  mismatch until a writer has cleared the prefix.
- A restoration whose move fails half-way leaves good objects under prefixes nothing refers to.
- A run that fails the gate and whose inputs are then reverted leaves a failed
  run as the latest one, and the health endpoint degraded (section 2, `ReportHealth`).
- The json of one run and the csv of the next can make a healthy answer, about files that are mixed
  when it is given (section 2, `ReportHealth`): TLC finds this if the property asks for whole
  files at that time, and a csv damaged at the snapshot if it makes no exception for it.
- `stream_dead_letters` need not have every rejected payload, although `sql/004_plan_tables.sql` calls the table their
  mirror (section 2, `ServingMerge`).
- One batch that cannot be restored keeps the audit's sample where it is (section 2,
  `ArchiveAudit`).
- With `EVENT_INTERVAL_SECONDS` above `SIM_DAY_SECONDS`, which `settings.py` does not refuse, some
  dates have no tick, and no vehicle is complete on them.

## 5. Proofs

`RawArchiveProofs` is about `RawArchive!Spec` for arbitrary constants that meet
the module's assumptions (bounds are natural numbers, the free-lock value is no
writer).

| Theorem | States |
|---|---|
| `TypeCorrect` | `Spec => []TypeOK` |
| `OffsetsInvariant` | the inductive invariant `OffsetInv` |
| `NoHoleAlways`, `NoRowTwiceAlways` | ledger entries are disjoint, and contiguous per partition up to the mark |
| `CheckpointFollowsArchiveAlways` | the action property about Spark's commit log |
| `Refinement` | `Spec` implements `ContiguousArchive` |
| `FilesInvariant` | the inductive invariant `FilesInv` |
| `CommittedIntactAlways`, `EveryRowAccountedAlways` | committed objects stay what their manifest says, and each row of a committed range is in the archive or in quarantine |

`Spec` lets the session of the lock live as long as the call that holds it;
`LossySpec` does not, and `raw_fence` shows that `CommittedIntact` fails for it. Two more theorems say
what is left then.

| Theorem | States |
|---|---|
| `SessionInvariant` | the inductive invariant `SessionInv` of `LossySpec` |
| `CheckpointSurvivesLoss` | `CheckpointFollowsArchive` for `LossySpec` |

**Why an inductive invariant.** "No row twice" says nothing about a writer that
has read the marks and not yet committed. `OffsetInv` does: whoever is past
`Begin` holds the lock (`LockHeld`), so the marks a writer has compared are
still the marks when it commits (`MarksStillChecked`, `TrimSound`), and entries lie below
the marks (`EntriesBelowMarks`), so the new entry is disjoint and adjacent. For
checkpoints it must be known that what a replay finds below the
marks *is* in the ledger: `RetainedCovered` says so for every row Kafka still has
and `ReplayCovered` for a planned range, which survives retention because
`CheckpointBehind` says that a checkpoint is never ahead of both Kafka's oldest row and
the mark. `NoRowTwice` itself is not in `OffsetInv`: each step that adds an entry
(`LedgerStep`) adds one above the marks. `FilesInv` is the second layer: ids of
running attempts are above every committed id (`IdsAbove`), so their writes
miss committed prefixes, and a single storing writer finds in its prefix what it put there.

`Refinement` maps `archived[p]` to `Covered(p)`, the offsets the ledger accounts for.

**When sessions are lost** `NoRowTwice`, `NoHole`, `CommittedIntact` and `EveryRowAccounted` all fail: TLC shows
two writers that work at once before a partition has its first mark, or under the same id. That no
checkpoint passes rows the ledger lacks still holds, so no row is skipped. The reason is the
`with` block of `process_batch`: leaving it commits, which raises when the session is gone, so a call
that lost its session never returns to Spark (`HolderFinishes`). What writers without a session can still write
to the marks was compared under an earlier lock and follows on the position of the
one that holds it now (`HolderReached`), and no mark or checkpoint, whoever wrote it, passes a row
that Kafka retains and the ledger lacks (`RetainedReached`).

`CheckpointRepairProofs` is about `CheckpointRepair!LiveSpec` for any writers, any number of files
that a shutdown spoils and any number of lost sessions.

| Theorem | States |
|---|---|
| `RepairInvariant` | the inductive invariant `RepairInv`, with `SessionInv` as a part |
| `ResumesInPlaceAlways` | a checkpoint that can be read resumes where `RawArchive` relies on it |
| `RepairsLoseNothing` | no checkpoint is refused by the repair, and no complete file is moved |
| `CheckpointSurvivesRepair` | `CheckpointFollowsArchive`, lost sessions included |
| `HeldInvariant`, `LiveInvariant` | `OffsetInv`, `FilesInv` and `NoRowTwice` until a session is lost; all of it together |
| `RepairKeepsArchive` | `NoRowTwice`, `NoHole`, `CommittedIntact`, `EveryRowAccounted` until a session is lost |
| `RepairRefinement` | in behaviours without a lost session the consumer implements `ContiguousArchive` |

`ResumesInPlace` is about two logs that shutdowns cut and repairs shorten one file at a time.
`RepairInv` says what they can look like: the complete files of a log are its first ones, those that
are left of the incomplete ones are its last, and there may be a gap between them, where a repair has
begun (`Orderly`); a complete commit entry has its plan, and a complete plan follows a batch with its commit entry
(`Paired`); plans go forward (`Ascending`). `Orderly` is why a repair is never refused.
`NotAhead` says that every position a repair can set a checkpoint back to is one where it has been, so that
`RetainedReached`, `CheckpointBehind` and the planned ranges' properties survive the step back.
The lemmas about the consumer's own steps are those of `RawArchiveProofs`: they assume no more than
`DataOK`, and of a step that it is one of the module's actions.

`GapRepairProofs` is about `GapRepair!GapSpec`, with a finite set of partitions.

| Theorem | States |
|---|---|
| `GapInvariant` | the inductive invariant `GapInv`, of which `OffsetInv` is a part |
| `ObjectsIntactAlways` | writers and repairs never mix objects under a committed id |
| `RepairKeepsOffsets` | `NoRowTwice` and `NoHole` beside repairs |
| `GapCheckpointFollows` | `CheckpointFollowsArchive` beside repairs |
| `GapRefinement` | writers and repairs together implement `ContiguousArchive` |

A repair is a step that `RawArchive` does not have, and it takes the lock for a holder that is
no writer. So the lemmas about the raw consumer assume `DataOK`, which is `TypeOK` without the
lock, and hold in this system too: `DataStep` and `OffsetStep` cover its own steps. While a repair holds
the lock every writer is outside of `process_batch` (`RepairExcludes`), and its ledger row covers no offset
(`OffsetsKept`), which leaves `OffsetInv` alone and makes the repair a stutter of `ContiguousArchive`. For the objects, `WriterStored` says that a writer that has
cleared its prefix shares it with no recovered object. A repair clears nothing. It
relies on `build_manifest` counting all objects under the prefix: since its own rows are among them, equal
counts leave room for no other (`TalliedWhole`). A batch of a writer is never empty, so its
row is not taken for a recovery.

`ReportPublicationProofs` is about `ReportPublication!Spec` for any numbers of scheduled and
manual processes, formats, run ids and interruptions.

| Theorem | States |
|---|---|
| `PublicationInvariant`, `TypeCorrect` | the inductive invariant `PublicationInv`, of which `TypeOK` is a part |
| `PublishedWholeAlways`, `GateHoldsAlways`, `SuccessIsPublishedAlways` | the three safety properties of `report_runs` |
| `ReportRefinement` | `Spec` implements `PublishedReport` |

`PublishedWhole` says nothing about a run that is between its transaction and its last
export. `PublicationInv` does: who is past `Lock` holds it (`LockHeld`), so nobody else
touches rows or files; the status row is still the one its transaction wrote, unpublished,
and the files it has written are its own (`ExportsOwn`), so the manifest it builds describes
no other run; the cost file it has fingerprinted passed the gate (`BasisPassed`), whatever
lies in its place now. A new run takes an id that nothing refers to (`Unused`), so what is
recorded about the runs behind rows and files stays. `PublicationInv` has every named part
that the theorems need and is one of the invariants of `report_runs`.

For `ReportRefinement` a step of a run that exports must be invisible to readers: by `ExportsOwn`
nothing is published then. `RunReady` adds what makes a publication acceptable: a run under way has
the inputs of a closed day, and publishes only when it has written all formats. Files and rows shown are
then of the one run, so that nothing but damage and `ReplaceRows`, the withdrawal, can touch them.

`ReportHealthProofs` is about `ReportHealth!HealthSpec`, which adds a request to the same system.

| Theorem | States |
|---|---|
| `HealthInvariant` | the inductive invariant `HealthInv`, together with `TypeOK` |
| `HealthyWasWholeAlways` | a healthy answer was right about the report at the snapshot |
| `AlarmHasReasonAlways` | an alarm about a file has a damaged file or a replaced report behind it |

A request compares files, one by one, with a manifest that it read earlier, and runs may have replaced
both since. `ReportKept` says what it has read: what is published is on disk, unless damaged, and its run
succeeded. `RequestKept` says why that is enough later: this run is over, and a uuid is not used
again (`StillNew`, which the model states since it reuses run ids), so a file that is its work when it is
compared was so at the snapshot, and one that does not match is damaged or the report was withdrawn. It keeps this for
the files compared so far, also when they are replaced afterwards; a csv of another run matches only
once the report is withdrawn. `RequestFrame` is what a step of a run must not do for that, `CompareStep` a comparison.
`StepKinds` sorts the steps: all but six kinds
leave the report alone (`Keeps`).

`ArchiveRestoreProofs` is about `ArchiveRestore!Spec` and `ArchiveAudit!AuditSpec` for any batches, dates and
exact copies, and any number of damages and interruptions.

| Theorem | States |
|---|---|
| `TypeCorrect` | `Spec => []TypeOK` |
| `RestoreInvariant` | the inductive invariant `RestoreInv`, together with `TypeOK` |
| `CopySurvivesAlways` | no failure of a restoration loses the last copy of a row |
| `AuditRefinement` | `AuditSpec` implements `Spec` |
| `AuditedCopySurvives` | the three of them under audits and the operator who answers them |

`CopySurvives` counts a copy wherever it lies: an exact one on disk, the prefix of the batch, a
backup, or the rebuilt objects. `RestoreInv` says which of them an attempt can rely on. A batch
without an exact copy has all its objects rebuilt before the first one is moved; from
then on a failing move may spoil the rebuilt objects or those moved aside, never both
(`EitherWhole`), also while the `except` clause removes what it finds in the prefix and moves
the backup in again. What remains under prefixes that no attempt refers to (`Outside`), nothing removes.

`ServingMergeProofs` is about `ServingMerge!Spec` for any finite set of partitions, any vehicles,
events and number of rows, any cut into batches, crash and recreated checkpoint. `ServingSpec`
is an instance of it (`ServingAlone`).

| Theorem | States |
|---|---|
| `MergeInvariant` | the inductive invariant: `HandledInv`, `MergeInv`, `WindowsInv`, `StateUncontested` |
| `TablesMatchReferenceAlways` | accepted events and completed trips are a function of the set of merged rows |
| `EveryRowHandledAlways` | each row below the committed position was merged or is one that validation may reject |
| `NoDiscreditedWindowAlways`, `StateUncontestedAlways` | neither a corrected window nor a vehicle shows a discredited event |
| `StateGoesForward` | the action property `StateNeverRegresses` |
| `TypeCorrect` | types and primary keys: one payload per event identity, one completion per trip |

`TablesMatchReference` compares the tables with *all* rows merged so far, while `merge_staged`
sees the batch, `stream_event_keys`, `stream_conflicts` and the accepted events. So the question is
whether these tables remember enough. `MergeInv` says that they do: whatever was merged is either
a key or listed (`EventsKnown`), only contested identities and trips are listed
(`ConflictsSound`), and all of them are (`ConflictsComplete`). The lemmas `DiscreditedSound` and `DiscreditedComplete`
then show that a merge discredits an event exactly if the reference contests it after the
merge, and `MergeTables` and `MergeWindows` that tables and windows follow. `EveryRowHandled` needs
the range that is planned and not yet committed (`BatchHandled`), whatever becomes of dead letters. That a vehicle does not go
back rests on `(event_ts, event_id)` being a strict order, of which a finite batch has a newest
event (`NewestExists`). The primary keys of `TypeCorrect` follow from the reference, as contested identities
and trips are left out of it; of the types, those of `idle_since` and of the watermark need that a
non-empty set of times has a minimum (`EarliestIs`) and a finite batch a newest event.

`LayerAgreementProofs` begins with the rule of `spark_reconcile.py:107-110` for every step,
length of a day, date and set of zones.

| Theorem | States |
|---|---|
| `CompleteIsExact` | `ExactFor`: a vehicle that is in one place at a tick is complete exactly if it was seen at every tick, on days of at least one step |
| `OnlyMidnightMasked` | `MaskedFor`: two places reported at a tick make up for no missing tick but one at midnight |

The first is a count: the ticks of a date are an interval with as many elements as
observations are expected (`TicksInterval`, `TicksCounted`), into which the observations map
injectively. The second needs the other three conditions: between two observations
no tick is missing, since the latest observation before a missing tick would have a gap
of two steps (`NoGap`, by `Least`), and only a tick at midnight can precede the first one.
TLC checks the rule in place, as part of `ProfitNeedsEveryTick`.

It goes on with `LayersAgree`, `ContestedFlagged` and `ProfitNeedsEveryTick`
(`...Always`), from `MergeInv` and for any archive. A report sees the conflicts of its own
date only, although what made an event contested may be of another. `ConflictsDated`, a part of
`MergeInv` that the tables do not need, closes this: `merge_staged` records a contested
identity once per payload, and a contested trip once per completion, each under the payload's own
date and vehicle. `BadIdsAre` and `DisputedTripsAre` say what the report then excludes, and
`ProfitNeedsEveryTick` adds `CompleteIsExact`.

**Only model-checked.** Liveness, which is out of the prover's reach, as it needs ENABLED for the fair
actions: `EventuallyArchived`, `RestoredAtLast` (and with it the rotation of the audit's
sample), `ReportCatchesUp`, `OrphansResolved` and `HealthRecovers`. The four properties that code violates
have counterexamples and no theorem.

## 6. Not modelled

- Field-level validation, fingerprints' canonical form, costs and margins: pure
  functions of one row or one date, unit-tested; the models take their outcome
  as an input.
- The rates of quarantine and dead letters and the export check of the quality DAG, and the
  endpoints of the API other than `/health/reports`: single queries that change nothing.
- Two restorations at once, and damage to a batch while it is restored.
- Rows that fail the field rules in a gap repair, which it leaves out (`repair_archive_gap.py:92-95`): the
  rows it may select are all acceptable.
- The raise at `raw_job.py:159-160`, which cannot be reached: a source fingerprint determines the ranges and with them
  the number of rows, and every commit of a writer records a manifest.
- The dead-letter topic, and the session of `run_day` ending before its process.
- `migrate_integrity.py`: runs once with every writer stopped.
- `sink.bulk_serve`: no longer called.
- Producers' content, dashboards, packaging and verification scripts.
- The limit on changed dates per scheduled run (`reconcile.py:264`): one date is modelled. Dates are
  visited newest first, so newest dates that change in every run would defer the older ones.

## 7. Plan

Done, in the order of importance: archive ledger, serving merge, report
publication, agreement of the layers, gap repair, restoration, checkpoint files, telemetry,
audits, health.

Every safety property that a passing run checks is stated by a theorem of section 5, and both abstract
specifications are shown to be implemented, `ContiguousArchive` also beside gap repairs and repaired checkpoints.
What could still be stated: an abstract specification of the serving tables as a function of the merged
set (today `TablesMatchReference` says so as an invariant), and a refinement by `ReportHealth` of what
an operator may conclude from its answers.
