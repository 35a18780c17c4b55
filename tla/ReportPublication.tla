------------------------- MODULE ReportPublication -------------------------
(***************************************************************************)
(* The daily report of one date, src/batch/reconcile.py: run_available by  *)
(* the scheduled DAG, run_day by hand, and what they share.                *)
(*                                                                         *)
(* A run takes the advisory lock of the date, fingerprints its inputs,     *)
(* and unless the published export already has that fingerprint and is     *)
(* undamaged, records itself in pipeline_runs, verifies and aggregates the *)
(* archive, replaces the day's rows in one transaction, exports one file   *)
(* per format and publishes a manifest of them.                            *)
(*                                                                         *)
(* run_day holds one transaction open from the lock to its return.  The    *)
(* orphaned runs it closes are updated in that transaction: their rows are *)
(* locked meanwhile, and the update is rolled back when the run raises.    *)
(***************************************************************************)
EXTENDS Integers, FiniteSets

CONSTANTS
  Schedulers,    \* processes of the DAG daily_profitability
  Operators,     \* processes started by hand with --date
  NoProcess,     \* value of the date's advisory lock while it is free
  Formats,       \* REPORT_FORMATS
  RunIds,        \* bound: run identities that exist at a time
  NoRun,
  Damaged,       \* content of a lost or damaged export
  CostFiles,     \* contents of the expense file
  Missing,       \* there is no expense file
  Invalid,       \* contents that fail the data quality gate
  MaxLedger,     \* bound: versions of the ledger
  MaxConflicts,  \* bound: conflicts found for the date
  MaxTrouble     \* bound: crashes, failures, damages and changes of the cost file

Processes == Schedulers \union Operators

ASSUME ProcessesAssumption ==
  NoProcess \notin Processes /\ Schedulers \cap Operators = {}
ASSUME ContentsAssumption ==
  /\ NoRun \notin RunIds /\ Damaged \notin RunIds /\ NoRun # Damaged
  /\ Missing \notin CostFiles /\ Invalid \subseteq CostFiles
ASSUME ReportBoundsAssumption ==
  MaxLedger \in Nat /\ MaxConflicts \in Nat /\ MaxTrouble \in Nat

VARIABLES
  ledger,     \* version of pipeline_batches; 0 until the day's boundary is reached
  costs,      \* the expense file
  conflicts,  \* number of stream_conflicts rows of the date
  trouble,    \* crashes, failures, damages and cost file changes so far
  phase,      \* where each process is
  snapshot,   \* ledger version each process works with
  run,        \* run id of each process
  written,    \* formats the process has exported
  closing,    \* orphans closed by the process's open transaction
  manifest,   \* export manifest it has built
  lock,       \* holder of the date's advisory lock
  runs,       \* status of the date's pipeline_runs rows
  old,        \* runs that started more than 20 minutes ago
  latest,     \* the run that started last
  basis,      \* history: input fingerprint of each run
  rows,       \* run whose output daily_vehicle_profit and daily_zone_summary hold
  status,     \* daily_report_status
  files       \* run whose output each export file holds

inputVars == <<ledger, costs, conflicts>>
localVars == <<snapshot, run, written, manifest>>
runVars == <<runs, old, latest, basis>>
reportVars == <<rows, status, files>>
vars == <<inputVars, trouble, phase, localVars, closing, lock, runVars, reportVars>>

Fingerprints == (0 .. MaxLedger) \X CostFiles \X (0 .. MaxConflicts)
NoBasis == <<0, Missing, 0>>
NoManifest == [f \in Formats |-> NoRun]
Current == <<ledger, costs, conflicts>>

Goto(p, next) == phase' = [phase EXCEPT ![p] = next]

-----------------------------------------------------------------------------
Init ==
  /\ ledger = 0 /\ costs \in CostFiles \union {Missing} /\ conflicts = 0
  /\ trouble = 0
  /\ phase = [p \in Processes |-> "idle"]
  /\ snapshot = [p \in Processes |-> 0]
  /\ run = [p \in Processes |-> NoRun]
  /\ written = [p \in Processes |-> {}]
  /\ closing = [p \in Processes |-> {}]
  /\ manifest = [p \in Processes |-> NoManifest]
  /\ lock = NoProcess
  /\ runs = [r \in RunIds |-> "none"] /\ old = {} /\ latest = NoRun
  /\ basis = [r \in RunIds |-> NoBasis]
  /\ rows = NoRun
  /\ status = [run |-> NoRun, input |-> NoBasis, export |-> "none", manifest |-> NoManifest]
  /\ files = NoManifest

-----------------------------------------------------------------------------
(* The surroundings *)

Trouble == trouble < MaxTrouble /\ trouble' = trouble + 1

LedgerGrows ==
  /\ ledger < MaxLedger
  /\ ledger' = ledger + 1
  /\ UNCHANGED <<costs, conflicts, trouble, phase, localVars, closing, lock, runVars, reportVars>>

ConflictFound ==
  /\ conflicts < MaxConflicts
  /\ conflicts' = conflicts + 1
  /\ UNCHANGED <<ledger, costs, trouble, phase, localVars, closing, lock, runVars, reportVars>>

CostFileLands ==
  /\ Trouble
  /\ costs' \in CostFiles \ {costs}
  /\ UNCHANGED <<ledger, conflicts, phase, localVars, closing, lock, runVars, reportVars>>

\* An export is lost or damaged: a published one, or one of a run that was interrupted.
\* A file is taken to stay as it is from its writing until it is published, for
\* build_export_manifest digests whatever it finds.
Damage(f) ==
  /\ Trouble
  /\ files[f] \in RunIds
  /\ status.export = "published" \/ \A p \in Processes : f \notin written[p]
  /\ files' = [files EXCEPT ![f] = Damaged]
  /\ UNCHANGED <<inputVars, phase, localVars, closing, lock, runVars, rows, status>>

\* 20 minutes pass.
RunAges(r) ==
  /\ runs[r] = "running" /\ r \notin old
  /\ old' = old \union {r}
  /\ UNCHANGED <<inputVars, trouble, phase, localVars, closing, lock, runs, latest, basis,
                 reportVars>>

-----------------------------------------------------------------------------
(* run_available and run_day *)

\* run_available reads the ledger once, for all dates.
Schedule(p) ==
  /\ p \in Schedulers
  /\ phase[p] = "idle"
  /\ snapshot' = [snapshot EXCEPT ![p] = ledger]
  /\ Goto(p, "orphans")
  /\ UNCHANGED <<inputVars, trouble, run, written, manifest, closing, lock, runVars, reportVars>>

StartByHand(p) ==
  /\ p \in Operators
  /\ phase[p] = "idle"
  /\ Goto(p, "lock")
  /\ UNCHANGED <<inputVars, trouble, localVars, closing, lock, runVars, reportVars>>

Orphans == {r \in old : runs[r] = "running"}
Closed(S) == [r \in RunIds |-> IF r \in S /\ runs[r] = "running" THEN "orphaned" ELSE runs[r]]

\* run_available closes orphans in a transaction of its own, and waits for the
\* rows another run has updated and not committed.
CloseOrphans(p) ==
  /\ phase[p] = "orphans"
  /\ \A q \in Processes : closing[q] \cap Orphans = {}
  /\ runs' = Closed(Orphans)
  /\ Goto(p, "lock")
  /\ UNCHANGED <<inputVars, trouble, localVars, closing, lock, old, latest, basis, reportVars>>

LockFree_Ignored == TRUE

LockFree == lock = NoProcess

\* run_day: pg_try_advisory_lock(8203, day), then the orphans of the date.
Lock(p) ==
  /\ phase[p] = "lock"
  /\ IF LockFree
       THEN /\ lock' = p
            /\ closing' = [closing EXCEPT ![p] = Orphans]
            /\ Goto(p, "inputs")
       ELSE /\ Goto(p, "idle")
            /\ UNCHANGED <<lock, closing>>
  /\ UNCHANGED <<inputVars, trouble, localVars, runVars, reportVars>>

\* Leaving run_day by an exception rolls its transaction back ...
Abort(p) ==
  /\ Goto(p, "idle")
  /\ lock' = NoProcess
  /\ closing' = [closing EXCEPT ![p] = {}]
  /\ run' = [run EXCEPT ![p] = NoRun]
  /\ written' = [written EXCEPT ![p] = {}]
  /\ manifest' = [manifest EXCEPT ![p] = NoManifest]
  /\ UNCHANGED <<inputVars, snapshot, old, latest, basis, reportVars>>

\* ... and a return commits it.
Leave(p) ==
  /\ phase[p] = "leave"
  /\ runs' = Closed(closing[p])
  /\ Abort(p)
  /\ UNCHANGED trouble

-----------------------------------------------------------------------------
(* _run_day *)

Batches(p) == IF p \in Schedulers THEN snapshot[p] ELSE ledger
Fingerprint(p) == <<Batches(p), costs, conflicts>>

ManifestMatches == \A f \in Formats : files[f] = status.manifest[f]

Unchanged_NotVerified(p) == status.input = Fingerprint(p) /\ status.export = "published"

Unchanged(p) ==
  /\ status.input = Fingerprint(p)
  /\ status.export = "published"
  /\ ManifestMatches

Ready(p) == Batches(p) # 0 /\ costs # Missing

\* Before the day's boundary the call returns False; without a cost file it
\* raises before a run is recorded.
NotReady(p) ==
  /\ phase[p] = "inputs"
  /\ \/ /\ Batches(p) = 0
        /\ Goto(p, "leave")
        /\ UNCHANGED <<inputVars, trouble, localVars, closing, lock, runVars, reportVars>>
     \/ /\ Batches(p) # 0 /\ costs = Missing
        /\ Abort(p)
        /\ UNCHANGED <<trouble, runs>>

Superseded_None == runs

Superseded == [r \in RunIds |-> IF runs[r] = "orphaned" THEN "superseded" ELSE runs[r]]

\* Nothing to do: recovered orphans are no longer unresolved failures.
ReturnUnchanged(p) ==
  /\ phase[p] = "inputs" /\ Ready(p)
  /\ Unchanged(p)
  /\ runs' = Superseded
  /\ Goto(p, "leave")
  /\ UNCHANGED <<inputVars, trouble, localVars, closing, lock, old, latest, basis, reportVars>>

\* A new uuid is a run id that nothing refers to; any of them is as good, and the
\* others are forgotten.
Unused ==
  {r \in RunIds :
     /\ r \notin {latest, rows, status.run}
     /\ \A f \in Formats : files[f] # r
     /\ \A p \in Processes : run[p] # r /\ r \notin closing[p]}

StartRun(p) ==
  /\ phase[p] = "inputs" /\ Ready(p)
  /\ ~Unchanged(p)
  /\ Unused # {}
  /\ latest' = CHOOSE r \in Unused : TRUE
  /\ run' = [run EXCEPT ![p] = latest']
  /\ basis' = [[r \in RunIds |-> IF r \in Unused THEN NoBasis ELSE basis[r]]
                EXCEPT ![latest'] = Fingerprint(p)]
  /\ runs' = [[r \in RunIds |-> IF r \in Unused THEN "none" ELSE runs[r]]
                EXCEPT ![latest'] = "running"]
  /\ old' = old \ Unused
  /\ Goto(p, "aggregate")
  /\ UNCHANGED <<inputVars, trouble, snapshot, written, manifest, closing, lock, reportVars>>

\* The except clause: the run is marked failed and the exception goes on.
Fail(p) ==
  /\ runs' = [runs EXCEPT ![run[p]] = "failed"]
  /\ Abort(p)

PassesGate_Reread(p) == costs \notin Invalid

PassesGate(p) == basis[run[p]][2] \notin Invalid

\* verified_paths, validate_expenses, the quality gate and aggregate.
Aggregate(p) ==
  /\ phase[p] = "aggregate"
  /\ \/ /\ PassesGate(p)
        /\ Goto(p, "replace")
        /\ UNCHANGED <<inputVars, localVars, closing, lock, runVars, reportVars>>
     \/ /\ ~PassesGate(p)
        /\ Fail(p)
  /\ UNCHANGED trouble

Restated_StillPublished(p) == [status EXCEPT !.run = run[p], !.input = basis[run[p]]]

\* The row of daily_report_status that the transaction upserts.
Restated(p) ==
  [run |-> run[p], input |-> basis[run[p]], export |-> "pending", manifest |-> NoManifest]

\* One transaction replaces the rows of the day.
ReplaceRows(p) ==
  /\ phase[p] = "replace"
  /\ rows' = run[p]
  /\ status' = Restated(p)
  /\ Goto(p, "export")
  /\ UNCHANGED <<inputVars, trouble, localVars, closing, lock, runVars, files>>

\* Each format is written to a temporary file that replaces the export.
Export(p, f) ==
  /\ phase[p] = "export" /\ f \notin written[p]
  /\ files' = [files EXCEPT ![f] = run[p]]
  /\ written' = [written EXCEPT ![p] = @ \union {f}]
  /\ UNCHANGED <<inputVars, trouble, phase, snapshot, run, manifest, closing, lock, runVars,
                 rows, status>>

\* build_export_manifest digests what it finds on disk.
BuildExportManifest(p) ==
  /\ phase[p] = "export" /\ written[p] = Formats
  /\ manifest' = [manifest EXCEPT ![p] = files]
  /\ Goto(p, "publish")
  /\ UNCHANGED <<inputVars, trouble, snapshot, run, written, closing, lock, runVars, reportVars>>

Publish(p) ==
  /\ phase[p] = "publish"
  /\ IF status.run = run[p]
       THEN status' = [status EXCEPT !.export = "published", !.manifest = manifest[p]]
       ELSE UNCHANGED status
  /\ runs' = [runs EXCEPT ![run[p]] = "success"]
  /\ Goto(p, "leave")
  /\ UNCHANGED <<inputVars, trouble, localVars, closing, lock, old, latest, basis, rows, files>>

\* The archive, the disk or the database fails a step of a tracked run.
StepFails(p) ==
  /\ phase[p] \in {"aggregate", "replace", "export", "publish"}
  /\ Trouble
  /\ Fail(p)

\* The process dies; the server ends its session, lock and open transaction.
Crash(p) ==
  /\ phase[p] # "idle"
  /\ Trouble
  /\ Goto(p, "idle")
  /\ lock' = IF lock = p THEN NoProcess ELSE lock
  /\ closing' = [closing EXCEPT ![p] = {}]
  /\ run' = [run EXCEPT ![p] = NoRun]
  /\ written' = [written EXCEPT ![p] = {}]
  /\ manifest' = [manifest EXCEPT ![p] = NoManifest]
  /\ UNCHANGED <<inputVars, snapshot, runVars, reportVars>>

-----------------------------------------------------------------------------
RunDay(p) ==
  \/ Lock(p) \/ NotReady(p) \/ ReturnUnchanged(p) \/ StartRun(p) \/ Aggregate(p)
  \/ ReplaceRows(p) \/ (\E f \in Formats : Export(p, f)) \/ BuildExportManifest(p)
  \/ Publish(p) \/ Leave(p)

Surroundings ==
  \/ LedgerGrows \/ ConflictFound \/ CostFileLands
  \/ \E f \in Formats : Damage(f)
  \/ \E r \in RunIds : RunAges(r)

Next ==
  \/ Surroundings
  \/ \E p \in Processes :
       \/ Schedule(p) \/ StartByHand(p) \/ CloseOrphans(p) \/ RunDay(p)
       \/ StepFails(p) \/ Crash(p)

Spec == Init /\ [][Next]_vars

\* The DAG runs every minute and a process that has started goes on; time
\* passes. Nobody has to start a run by hand.
Fairness ==
  /\ \A p \in Processes : WF_vars(CloseOrphans(p) \/ RunDay(p))
  /\ \A p \in Schedulers : WF_vars(Schedule(p))
  /\ \A r \in RunIds : WF_vars(RunAges(r))

FairSpec == Spec /\ Fairness

-----------------------------------------------------------------------------
(* Properties *)

RunStates == {"none", "running", "success", "failed", "orphaned", "superseded"}
Contents == RunIds \union {NoRun, Damaged}

\* Type correctness.
TypeOK ==
  /\ ledger \in 0 .. MaxLedger /\ conflicts \in 0 .. MaxConflicts
  /\ costs \in CostFiles \union {Missing} /\ trouble \in 0 .. MaxTrouble
  /\ phase \in [Processes -> {"idle", "orphans", "lock", "inputs", "aggregate", "replace",
                              "export", "publish", "leave"}]
  /\ snapshot \in [Processes -> 0 .. MaxLedger]
  /\ run \in [Processes -> RunIds \union {NoRun}]
  /\ written \in [Processes -> SUBSET Formats]
  /\ closing \in [Processes -> SUBSET RunIds]
  /\ manifest \in [Processes -> [Formats -> Contents]]
  /\ lock \in Processes \union {NoProcess}
  /\ runs \in [RunIds -> RunStates] /\ old \subseteq RunIds
  /\ latest \in RunIds \union {NoRun} /\ rows \in RunIds \union {NoRun}
  /\ basis \in [RunIds -> Fingerprints \union {NoBasis}]
  /\ status \in [run : RunIds \union {NoRun}, input : Fingerprints \union {NoBasis},
                 export : {"none", "pending", "published"}, manifest : [Formats -> Contents]]
  /\ files \in [Formats -> Contents]

\* A published report is whole: the day's rows, every file of the manifest and
\* the recorded fingerprint come from one run, whatever runs were interrupted.
PublishedWhole ==
  status.export = "published" =>
    /\ rows = status.run
    /\ status.manifest = [f \in Formats |-> status.run]
    /\ status.input = basis[status.run]

\* Cost files that fail the quality gate never reach rows or exports.
GateHolds ==
  \A r \in {rows, status.run} \union {files[f] : f \in Formats} :
    r \in RunIds => basis[r][2] \notin Invalid

\* A run that is recorded as a success is the published one, until a later run
\* replaces the rows.
SuccessIsPublished ==
  \A p \in Processes : phase[p] = "leave" /\ run[p] # NoRun =>
    status.run = run[p] /\ status.export = "published"

-----------------------------------------------------------------------------
(* Why they hold: PublicationInv is inductive. *)

Tracked == {"aggregate", "replace", "export", "publish"}

\* Who is past Lock holds it.
LockHeld == \A p \in Processes : phase[p] \in Tracked \union {"inputs", "leave"} => lock = p

RunRecorded ==
  \A p \in Processes :
    /\ phase[p] \in Tracked => run[p] \in RunIds
    /\ phase[p] \notin Tracked \union {"leave"} => run[p] = NoRun
    /\ phase[p] \notin {"export", "publish", "leave"} => written[p] = {}

BasisPassed ==
  \A p \in Processes :
    phase[p] \in {"replace", "export", "publish"} => basis[run[p]][2] \notin Invalid

\* The rows are those of the run that is exporting, its files have not been
\* touched since, and nothing is published meanwhile.
ExportsOwn ==
  \A p \in Processes :
    /\ phase[p] \in {"export", "publish"} =>
         /\ rows = run[p] /\ status = Restated(p)
         /\ \A f \in written[p] : files[f] = run[p]
    /\ phase[p] = "publish" => manifest[p] = [f \in Formats |-> run[p]]

RunsInv ==
  /\ LockHeld /\ RunRecorded /\ BasisPassed /\ ExportsOwn
  /\ status.export = "published" => status.run \in RunIds
  /\ PublishedWhole /\ GateHolds /\ SuccessIsPublished

PublicationInv == TypeOK /\ RunsInv

-----------------------------------------------------------------------------
\* A report is of a closed day, and from a cost file that passes the gate.
Acceptable == (1 .. MaxLedger) \X (CostFiles \ Invalid) \X (0 .. MaxConflicts)

\* The report seen by its readers: what a run has published, and nothing else.
Shown ==
  IF status.export = "published"
    THEN {[rows |-> rows, input |-> status.input, files |-> files]} ELSE {}

Readers == INSTANCE PublishedReport WITH Inputs <- Acceptable, shown <- Shown

\* run_day implements PublishedReport: a report is withdrawn before rows or files of
\* another take its place, whatever is interrupted, and comes back as a whole.
ImplementsPublishedReport == Readers!Spec

-----------------------------------------------------------------------------
(* Liveness *)

Settled == <>[](ledger > 0 /\ costs \notin Invalid \union {Missing})

\* Once costs are valid, the report of the date becomes current and stays so:
\* published, computed from the present inputs, with undamaged files.
ReportCatchesUp ==
  Settled => <>[](status.export = "published" /\ status.input = Current /\ ManifestMatches)

\* An interrupted run does not keep the date's health failing for ever.
OrphansResolved ==
  Settled => <>[](latest = NoRun \/ runs[latest] \notin {"running", "orphaned"})
=============================================================================
