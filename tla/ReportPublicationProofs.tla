---------------------- MODULE ReportPublicationProofs ----------------------
(***************************************************************************)
(* Theorems about ReportPublication for any number of processes, formats,  *)
(* runs and interruptions.                                                 *)
(***************************************************************************)
EXTENDS ReportPublication, TLAPS

USE ProcessesAssumption, ContentsAssumption, ReportBoundsAssumption DEF LockFree

Phases == {"idle", "orphans", "lock", "inputs", "aggregate", "replace", "export", "publish",
           "leave"}

-----------------------------------------------------------------------------
(* Types *)

\* Fingerprints of inputs that are ready are of their type.
LEMMA FingerprintType ==
  ASSUME TypeOK, NEW p \in Processes, Ready(p)
  PROVE  Fingerprint(p) \in Fingerprints
BY DEF TypeOK, Ready, Fingerprint, Fingerprints, Batches, Processes

\* A step that leaves a run by an exception keeps the types.
LEMMA AbortType ==
  ASSUME TypeOK, NEW p \in Processes, Abort(p), trouble' \in 0 .. MaxTrouble,
         runs' \in [RunIds -> RunStates]
  PROVE  TypeOK'
BY DEF TypeOK, Abort, Goto, inputVars, reportVars, Contents, NoManifest

LEMMA FailType ==
  ASSUME TypeOK, NEW p \in Processes, Fail(p), trouble' \in 0 .. MaxTrouble
  PROVE  TypeOK'
<1>1. runs' \in [RunIds -> RunStates]  BY DEF Fail, TypeOK, RunStates
<1>. QED  BY <1>1, AbortType DEF Fail

LEMMA StartRunType ==
  ASSUME TypeOK, NEW p \in Processes, StartRun(p)
  PROVE  TypeOK'
<1>1. latest' \in RunIds /\ latest' \in Unused  BY DEF StartRun, Unused
<1>2. Fingerprint(p) \in Fingerprints  BY FingerprintType DEF StartRun
<1>3. basis' \in [RunIds -> Fingerprints \union {NoBasis}]
  <2>1. \A r \in RunIds : basis[r] \in Fingerprints \union {NoBasis}  BY DEF TypeOK
  <2>. QED  BY <1>2, <2>1 DEF StartRun
<1>4. runs' \in [RunIds -> RunStates]
  <2>1. \A r \in RunIds : runs[r] \in RunStates  BY DEF TypeOK
  <2>. QED  BY <2>1 DEF StartRun, RunStates
<1>5. phase' \in [Processes -> Phases] /\ old' \subseteq RunIds
      /\ run' \in [Processes -> RunIds \union {NoRun}]
  BY <1>1 DEF StartRun, TypeOK, Goto, Phases
<1>. QED
  BY <1>1, <1>3, <1>4, <1>5
     DEF StartRun, TypeOK, inputVars, localVars, reportVars, Phases

\* The steps of run_day keep the types.
LEMMA RunDayType ==
  ASSUME TypeOK, RunRecorded, NEW p \in Processes, RunDay(p)
  PROVE  TypeOK'
<1>. USE DEF Goto, inputVars, localVars, runVars, reportVars
<1>1. CASE Lock(p)
  <2>1. Orphans \subseteq RunIds  BY DEF Orphans, TypeOK
  <2>2. closing' \in [Processes -> SUBSET RunIds] /\ lock' \in Processes \union {NoProcess}
    <3>1. CASE LockFree  BY <1>1, <2>1, <3>1 DEF Lock, TypeOK
    <3>2. CASE ~LockFree  BY <1>1, <3>2 DEF Lock, TypeOK
    <3>. QED  BY <3>1, <3>2
  <2>3. \E next \in Phases : Goto(p, next)  BY <1>1 DEF Lock, Phases
  <2>4. phase' \in [Processes -> Phases]  BY <2>3 DEF TypeOK, Phases
  <2>. QED  BY <1>1, <2>2, <2>4 DEF Lock, TypeOK, Phases
<1>2. CASE NotReady(p)
  <2>1. CASE Abort(p)  BY <1>2, <2>1, AbortType DEF NotReady, TypeOK
  <2>. QED  BY <1>2, <2>1 DEF NotReady, TypeOK
<1>3. CASE ReturnUnchanged(p)
  <2>1. runs' \in [RunIds -> RunStates]  BY <1>3 DEF ReturnUnchanged, Superseded, TypeOK, RunStates
  <2>. QED  BY <1>3, <2>1 DEF ReturnUnchanged, TypeOK
<1>4. CASE StartRun(p)  BY <1>4, StartRunType
<1>5. CASE Aggregate(p)
  <2>1. CASE Fail(p)  BY <1>5, <2>1, FailType DEF Aggregate, TypeOK
  <2>. QED  BY <1>5, <2>1 DEF Aggregate, TypeOK
<1>6. CASE ReplaceRows(p)
  <2>1. run[p] \in RunIds  BY <1>6 DEF ReplaceRows, RunRecorded, Tracked
  <2>2. status' \in [run : RunIds \union {NoRun}, input : Fingerprints \union {NoBasis},
                     export : {"none", "pending", "published"}, manifest : [Formats -> Contents]]
    <3>1. basis[run[p]] \in Fingerprints \union {NoBasis}  BY <2>1 DEF TypeOK
    <3>2. NoManifest \in [Formats -> Contents]  BY DEF NoManifest, Contents
    <3>. QED  BY <1>6, <2>1, <3>1, <3>2 DEF ReplaceRows, Restated
  <2>. QED  BY <1>6, <2>1, <2>2 DEF ReplaceRows, TypeOK
<1>7. CASE \E f \in Formats : Export(p, f)
  <2>1. PICK f \in Formats : Export(p, f)  BY <1>7
  <2>. QED  BY <2>1 DEF Export, TypeOK, Contents
<1>8. CASE BuildExportManifest(p)  BY <1>8 DEF BuildExportManifest, TypeOK
<1>9. CASE Publish(p)
  <2>1. run[p] \in RunIds  BY <1>9 DEF Publish, RunRecorded, Tracked
  <2>2. runs' \in [RunIds -> RunStates]  BY <1>9, <2>1 DEF Publish, TypeOK, RunStates
  <2>3. status' \in [run : RunIds \union {NoRun}, input : Fingerprints \union {NoBasis},
                     export : {"none", "pending", "published"}, manifest : [Formats -> Contents]]
    BY <1>9 DEF Publish, TypeOK
  <2>. QED  BY <1>9, <2>2, <2>3 DEF Publish, TypeOK
<1>10. CASE Leave(p)
  <2>1. runs' \in [RunIds -> RunStates]  BY <1>10 DEF Leave, Closed, TypeOK, RunStates
  <2>. QED  BY <1>10, <2>1, AbortType DEF Leave, TypeOK
<1>. QED
  BY <1>1, <1>2, <1>3, <1>4, <1>5, <1>6, <1>7, <1>8, <1>9, <1>10 DEF RunDay

\* Every step keeps the types.
LEMMA NextType ==
  ASSUME TypeOK, RunRecorded, [Next]_vars
  PROVE  TypeOK'
<1>. USE DEF Goto, inputVars, localVars, runVars, reportVars
<1>1. CASE Surroundings
  <2>1. CASE LedgerGrows  BY <2>1 DEF LedgerGrows, TypeOK
  <2>2. CASE ConflictFound  BY <2>2 DEF ConflictFound, TypeOK
  <2>3. CASE CostFileLands  BY <2>3 DEF CostFileLands, Trouble, TypeOK
  <2>4. CASE \E f \in Formats : Damage(f)
    BY <2>4 DEF Damage, Trouble, TypeOK, Contents
  <2>5. CASE \E r \in RunIds : RunAges(r)  BY <2>5 DEF RunAges, TypeOK
  <2>. QED  BY <1>1, <2>1, <2>2, <2>3, <2>4, <2>5 DEF Surroundings
<1>2. ASSUME NEW p \in Processes, Schedule(p)  PROVE TypeOK'
  BY <1>2 DEF Schedule, TypeOK
<1>3. ASSUME NEW p \in Processes, StartByHand(p)  PROVE TypeOK'
  BY <1>3 DEF StartByHand, TypeOK
<1>4. ASSUME NEW p \in Processes, CloseOrphans(p)  PROVE TypeOK'
  <2>1. runs' \in [RunIds -> RunStates]  BY <1>4 DEF CloseOrphans, Closed, TypeOK, RunStates
  <2>. QED  BY <1>4, <2>1 DEF CloseOrphans, TypeOK
<1>5. ASSUME NEW p \in Processes, RunDay(p)  PROVE TypeOK'
  BY <1>5, RunDayType
<1>6. ASSUME NEW p \in Processes, StepFails(p)  PROVE TypeOK'
  BY <1>6, FailType DEF StepFails, Trouble, TypeOK
<1>7. ASSUME NEW p \in Processes, Crash(p)  PROVE TypeOK'
  BY <1>7 DEF Crash, Trouble, TypeOK, Contents, NoManifest
<1>8. CASE UNCHANGED vars  BY <1>8 DEF vars, TypeOK
<1>. QED
  BY <1>1, <1>2, <1>3, <1>4, <1>5, <1>6, <1>7, <1>8 DEF Next

-----------------------------------------------------------------------------
(* Reports *)

\* A step that does not touch runs, rows, files and the lock keeps the invariant if
\* its process stays outside of run_day.
LEMMA OutsideInv ==
  ASSUME TypeOK, RunsInv, NEW p \in Processes, NEW next \in {"orphans", "lock", "idle"},
         phase[p] \in {"idle", "orphans", "lock"}, Goto(p, next),
         UNCHANGED <<run, written, manifest, lock, basis, reportVars>>
  PROVE  RunsInv'
<1>1. LockHeld' /\ RunRecorded'
  BY DEF RunsInv, LockHeld, RunRecorded, Tracked, Goto, TypeOK
<1>2. BasisPassed'  BY DEF RunsInv, BasisPassed, Goto, TypeOK
<1>3. ExportsOwn'
  BY DEF RunsInv, ExportsOwn, Restated, Goto, TypeOK, reportVars
<1>4. (status.export = "published" => status.run \in RunIds)' /\ PublishedWhole' /\ GateHolds'
  BY DEF RunsInv, PublishedWhole, GateHolds, reportVars
<1>5. SuccessIsPublished'
  BY DEF RunsInv, SuccessIsPublished, Goto, TypeOK, reportVars
<1>. QED  BY <1>1, <1>2, <1>3, <1>4, <1>5 DEF RunsInv

\* Whoever leaves run_day, by a return, an exception or a crash, keeps the invariant.
LEMMA QuitInv ==
  ASSUME TypeOK, RunsInv, NEW p \in Processes, Goto(p, "idle"),
         lock' \in {lock, NoProcess}, lock = p \/ lock' = lock,
         run' = [run EXCEPT ![p] = NoRun], written' = [written EXCEPT ![p] = {}],
         manifest' = [manifest EXCEPT ![p] = NoManifest],
         UNCHANGED <<basis, reportVars>>
  PROVE  RunsInv'
<1>1. LockHeld' /\ RunRecorded'
  BY DEF RunsInv, LockHeld, RunRecorded, Tracked, Goto, TypeOK
<1>2. BasisPassed'  BY DEF RunsInv, BasisPassed, Goto, TypeOK
<1>3. ExportsOwn'
  BY DEF RunsInv, ExportsOwn, Restated, Goto, TypeOK, reportVars
<1>4. (status.export = "published" => status.run \in RunIds)' /\ PublishedWhole' /\ GateHolds'
  BY DEF RunsInv, PublishedWhole, GateHolds, reportVars
<1>5. SuccessIsPublished'
  BY DEF RunsInv, SuccessIsPublished, Goto, TypeOK, reportVars
<1>. QED  BY <1>1, <1>2, <1>3, <1>4, <1>5 DEF RunsInv

LEMMA AbortInv ==
  ASSUME TypeOK, RunsInv, NEW p \in Processes, phase[p] \in Tracked \union {"inputs", "leave"},
         Abort(p)
  PROVE  RunsInv'
<1>1. lock = p  BY DEF RunsInv, LockHeld
<1>. QED  BY <1>1, QuitInv DEF Abort

\* The holder of the lock is the only process inside of run_day.
LEMMA Alone ==
  ASSUME RunsInv, NEW p \in Processes, phase[p] \in Tracked \union {"inputs", "leave"},
         NEW q \in Processes, q # p
  PROVE  phase[q] \notin Tracked \union {"inputs", "leave"} /\ run[q] = NoRun
BY DEF RunsInv, LockHeld, RunRecorded

\* A new run has an id that nothing refers to, so that what is recorded about the
\* runs behind rows, files and the published report stays.
LEMMA StartRunInv ==
  ASSUME TypeOK, RunsInv, NEW p \in Processes, StartRun(p)
  PROVE  RunsInv'
<1>1. latest' \in RunIds /\ latest' \in Unused  BY DEF StartRun, Unused
<1>2. phase[p] = "inputs" /\ run[p] = NoRun
  BY DEF StartRun, RunsInv, RunRecorded, Tracked
<1>3. \A q \in Processes : q # p => phase[q] \notin Tracked \union {"inputs", "leave"}
  BY <1>2, Alone
<1>4. \A r \in RunIds \ Unused : basis'[r] = basis[r]
  BY <1>1 DEF StartRun, TypeOK
<1>5. phase' = [phase EXCEPT ![p] = "aggregate"] /\ run' = [run EXCEPT ![p] = latest']
      /\ UNCHANGED <<lock, written, manifest, rows, status, files>>
  BY DEF StartRun, Goto, reportVars
<1>6. LockHeld' /\ RunRecorded'
  BY <1>1, <1>2, <1>5 DEF RunsInv, LockHeld, RunRecorded, Tracked, TypeOK
<1>7. BasisPassed' /\ ExportsOwn' /\ SuccessIsPublished'
  <2>1. \A q \in Processes : phase'[q] \notin {"replace", "export", "publish", "leave"}
    BY <1>3, <1>5 DEF Tracked, TypeOK
  <2>. QED  BY <2>1 DEF BasisPassed, ExportsOwn, SuccessIsPublished
<1>8. (status.export = "published" => status.run \in RunIds)' /\ PublishedWhole'
  BY <1>4, <1>5 DEF RunsInv, PublishedWhole, Unused
<1>9. GateHolds'
  <2>. SUFFICES ASSUME NEW r \in {rows, status.run} \union {files[f] : f \in Formats}, r \in RunIds
                PROVE  basis'[r][2] \notin Invalid
    BY <1>5 DEF GateHolds
  <2>1. r \notin Unused  BY DEF Unused
  <2>. QED  BY <1>4, <2>1 DEF RunsInv, GateHolds
<1>. QED  BY <1>6, <1>7, <1>8, <1>9 DEF RunsInv

\* A step inside of run_day that leaves what is on record alone.
LEMMA InsideInv ==
  ASSUME TypeOK, RunsInv, NEW p \in Processes, phase[p] \in Tracked \union {"inputs"},
         UNCHANGED <<run, written, lock>>,
         NEW next \in Tracked \union {"leave"}, Goto(p, next),
         next = "leave" \/ phase[p] # "inputs",
         phase[p] \in {"export", "publish"} => next \in {"export", "publish", "leave"}
  PROVE  /\ LockHeld' /\ RunRecorded'
         /\ \A q \in Processes : q # p => phase'[q] \notin Tracked \union {"leave"}
<1>1. \A q \in Processes : q # p => phase[q] \notin Tracked \union {"inputs", "leave"}
  BY Alone
<1>. QED  BY <1>1 DEF RunsInv, LockHeld, RunRecorded, Tracked, Goto, TypeOK

\* The lock is free or taken, and whoever takes it goes on inside of run_day.
LEMMA LockInv ==
  ASSUME TypeOK, RunsInv, NEW p \in Processes, Lock(p)
  PROVE  RunsInv'
<1>. USE DEF Lock, localVars, runVars, reportVars
<1>1. CASE ~LockFree
  <2>1. Goto(p, "idle")  BY <1>1
  <2>. QED  BY <1>1, <2>1, OutsideInv
<1>2. CASE LockFree
  <2>1. phase' = [phase EXCEPT ![p] = "inputs"] /\ lock' = p  BY <1>2 DEF Goto
  <2>2. \A q \in Processes : phase[q] \notin Tracked \union {"inputs", "leave"}
    BY <1>2 DEF RunsInv, LockHeld
  <2>3. LockHeld' /\ RunRecorded'
    BY <2>1, <2>2 DEF RunsInv, LockHeld, RunRecorded, Tracked, TypeOK
  <2>4. BasisPassed' /\ ExportsOwn' /\ SuccessIsPublished'
    <3>1. \A q \in Processes : phase'[q] \notin {"replace", "export", "publish", "leave"}
      BY <2>1, <2>2 DEF Tracked, TypeOK
    <3>. QED  BY <3>1 DEF BasisPassed, ExportsOwn, SuccessIsPublished
  <2>5. (status.export = "published" => status.run \in RunIds)' /\ PublishedWhole' /\ GateHolds'
    BY DEF RunsInv, PublishedWhole, GateHolds
  <2>. QED  BY <2>3, <2>4, <2>5 DEF RunsInv
<1>. QED  BY <1>1, <1>2

\* A return without a new run: too early, or nothing has changed.
LEMMA ReturnInv ==
  ASSUME TypeOK, RunsInv, NEW p \in Processes, phase[p] = "inputs", Goto(p, "leave"),
         UNCHANGED <<localVars, lock, basis, reportVars>>
  PROVE  RunsInv'
<1>. USE DEF localVars, reportVars
<1>1. LockHeld' /\ RunRecorded' /\ \A q \in Processes : q # p => phase'[q] \notin Tracked \union {"leave"}
  BY InsideInv
<1>2. run'[p] = NoRun /\ phase'[p] = "leave"
  BY DEF RunsInv, RunRecorded, Tracked, Goto, TypeOK
<1>3. BasisPassed' /\ ExportsOwn' /\ SuccessIsPublished'
  BY <1>1, <1>2 DEF BasisPassed, ExportsOwn, SuccessIsPublished, Tracked
<1>4. (status.export = "published" => status.run \in RunIds)' /\ PublishedWhole' /\ GateHolds'
  BY DEF RunsInv, PublishedWhole, GateHolds
<1>. QED  BY <1>1, <1>3, <1>4 DEF RunsInv

\* A run goes on to replace the rows only with a cost file that passes the gate.
LEMMA AggregateInv ==
  ASSUME TypeOK, RunsInv, NEW p \in Processes, Aggregate(p)
  PROVE  RunsInv'
<1>1. CASE Fail(p)  BY <1>1, AbortInv DEF Aggregate, Fail, Tracked
<1>2. CASE PassesGate(p) /\ ~Fail(p)
  <2>1. phase[p] = "aggregate" /\ Goto(p, "replace")
        /\ UNCHANGED <<run, written, manifest, lock, basis, rows, status, files>>
    BY <1>2 DEF Aggregate, localVars, runVars, reportVars
  <2>2. LockHeld' /\ RunRecorded' /\ \A q \in Processes : q # p => phase'[q] \notin Tracked \union {"leave"}
    BY <2>1, InsideInv DEF Tracked
  <2>3. phase'[p] = "replace"  BY <2>1 DEF Goto, TypeOK
  <2>4. BasisPassed'  BY <1>2, <2>1, <2>2 DEF BasisPassed, PassesGate, Tracked
  <2>5. ExportsOwn' /\ SuccessIsPublished'
    BY <2>2, <2>3 DEF ExportsOwn, SuccessIsPublished, Tracked
  <2>6. (status.export = "published" => status.run \in RunIds)' /\ PublishedWhole' /\ GateHolds'
    BY <2>1 DEF RunsInv, PublishedWhole, GateHolds
  <2>. QED  BY <2>2, <2>4, <2>5, <2>6 DEF RunsInv
<1>. QED  BY <1>1, <1>2 DEF Aggregate

\* The transaction withdraws what is published, and the files that are still there
\* come from runs that passed the gate.
LEMMA ReplaceRowsInv ==
  ASSUME TypeOK, RunsInv, NEW p \in Processes, ReplaceRows(p)
  PROVE  RunsInv'
<1>1. phase[p] = "replace" /\ Goto(p, "export") /\ rows' = run[p] /\ status' = Restated(p)
      /\ UNCHANGED <<run, written, manifest, lock, basis, files>>
  BY DEF ReplaceRows, localVars, runVars
<1>2. LockHeld' /\ RunRecorded' /\ \A q \in Processes : q # p => phase'[q] \notin Tracked \union {"leave"}
  BY <1>1, InsideInv DEF Tracked
<1>3. phase'[p] = "export" /\ written[p] = {} /\ run[p] \in RunIds
  BY <1>1 DEF Goto, TypeOK, RunsInv, RunRecorded, Tracked
<1>4. basis[run[p]][2] \notin Invalid  BY <1>1 DEF RunsInv, BasisPassed
<1>5. BasisPassed'  BY <1>1, <1>2, <1>4 DEF BasisPassed, Tracked
<1>6. ExportsOwn'
  BY <1>1, <1>2, <1>3 DEF ExportsOwn, Restated, Tracked
<1>7. SuccessIsPublished'  BY <1>2, <1>3 DEF SuccessIsPublished, Tracked
<1>8. status'.run = run[p] /\ status'.export = "pending"  BY <1>1 DEF Restated
<1>9. GateHolds'  BY <1>1, <1>4, <1>8 DEF RunsInv, GateHolds
<1>. QED  BY <1>2, <1>5, <1>6, <1>7, <1>8, <1>9 DEF RunsInv, PublishedWhole

\* A file is replaced by one of the run whose rows are stored.
LEMMA ExportInv ==
  ASSUME TypeOK, RunsInv, NEW p \in Processes, NEW f \in Formats, Export(p, f)
  PROVE  RunsInv'
<1>1. phase[p] = "export" /\ files' = [files EXCEPT ![f] = run[p]]
      /\ written' = [written EXCEPT ![p] = @ \union {f}]
      /\ UNCHANGED <<phase, run, manifest, lock, basis, rows, status>>
  BY DEF Export, runVars
<1>2. \A q \in Processes : q # p => phase[q] \notin Tracked \union {"leave"}
  BY <1>1, Alone DEF Tracked
<1>3. status = Restated(p) /\ rows = run[p] /\ \A g \in written[p] : files[g] = run[p]
  BY <1>1 DEF RunsInv, ExportsOwn
<1>4. status.export = "pending"  BY <1>3 DEF Restated
<1>5. LockHeld' /\ RunRecorded' /\ BasisPassed'
  BY <1>1 DEF RunsInv, LockHeld, RunRecorded, BasisPassed, TypeOK
<1>6. ExportsOwn'
  <2>1. written'[p] = written[p] \union {f}  BY <1>1 DEF TypeOK
  <2>2. \A g \in written'[p] : files'[g] = run[p]
    BY <1>1, <1>3, <2>1 DEF TypeOK
  <2>. QED  BY <1>1, <1>2, <1>3, <2>2 DEF ExportsOwn, Restated, Tracked
<1>7. SuccessIsPublished'  BY <1>1 DEF RunsInv, SuccessIsPublished
<1>8. GateHolds'
  <2>1. basis[run[p]][2] \notin Invalid  BY <1>1 DEF RunsInv, BasisPassed
  <2>. QED  BY <1>1, <2>1 DEF RunsInv, GateHolds, TypeOK
<1>. QED  BY <1>1, <1>4, <1>5, <1>6, <1>7, <1>8 DEF RunsInv, PublishedWhole

\* The manifest describes files of this run only.
LEMMA BuildExportManifestInv ==
  ASSUME TypeOK, RunsInv, NEW p \in Processes, BuildExportManifest(p)
  PROVE  RunsInv'
<1>1. phase[p] = "export" /\ written[p] = Formats /\ Goto(p, "publish")
      /\ manifest' = [manifest EXCEPT ![p] = files]
      /\ UNCHANGED <<run, written, lock, basis, rows, status, files>>
  BY DEF BuildExportManifest, runVars, reportVars
<1>2. LockHeld' /\ RunRecorded' /\ \A q \in Processes : q # p => phase'[q] \notin Tracked \union {"leave"}
  BY <1>1, InsideInv DEF Tracked
<1>3. phase'[p] = "publish" /\ manifest'[p] = files  BY <1>1 DEF Goto, TypeOK
<1>4. BasisPassed'
  <2>1. basis[run[p]][2] \notin Invalid  BY <1>1 DEF RunsInv, BasisPassed
  <2>. QED  BY <1>1, <1>2, <2>1 DEF BasisPassed, Tracked
<1>5. ExportsOwn'
  <2>1. rows = run[p] /\ status = Restated(p) /\ \A f \in Formats : files[f] = run[p]
    BY <1>1 DEF RunsInv, ExportsOwn
  <2>2. files = [f \in Formats |-> run[p]]  BY <2>1 DEF TypeOK
  <2>. QED  BY <1>1, <1>2, <1>3, <2>1, <2>2 DEF ExportsOwn, Restated, Tracked
<1>6. SuccessIsPublished'  BY <1>2, <1>3 DEF SuccessIsPublished, Tracked
<1>7. (status.export = "published" => status.run \in RunIds)' /\ PublishedWhole' /\ GateHolds'
  BY <1>1 DEF RunsInv, PublishedWhole, GateHolds
<1>. QED  BY <1>2, <1>4, <1>5, <1>6, <1>7 DEF RunsInv

\* What is published is the run whose rows and files are in place.
LEMMA PublishInv ==
  ASSUME TypeOK, RunsInv, NEW p \in Processes, Publish(p)
  PROVE  RunsInv'
<1>1. phase[p] = "publish" /\ Goto(p, "leave")
      /\ UNCHANGED <<run, written, manifest, lock, basis, rows, files>>
  BY DEF Publish, localVars
<1>2. LockHeld' /\ RunRecorded' /\ \A q \in Processes : q # p => phase'[q] \notin Tracked \union {"leave"}
  BY <1>1, InsideInv DEF Tracked
<1>3. phase'[p] = "leave" /\ run[p] \in RunIds
  BY <1>1 DEF Goto, TypeOK, RunsInv, RunRecorded, Tracked
<1>4. rows = run[p] /\ status = Restated(p) /\ manifest[p] = [f \in Formats |-> run[p]]
  BY <1>1 DEF RunsInv, ExportsOwn
<1>5. status.run = run[p] /\ status.input = basis[run[p]]  BY <1>4 DEF Restated
<1>6. status' = [status EXCEPT !.export = "published", !.manifest = manifest[p]]
  BY <1>5 DEF Publish
<1>7. status'.export = "published" /\ status'.manifest = manifest[p]
      /\ status'.run = run[p] /\ status'.input = basis[run[p]]
  BY <1>4, <1>6 DEF Restated
<1>8. BasisPassed' /\ ExportsOwn'
  BY <1>2, <1>3 DEF BasisPassed, ExportsOwn, Tracked
<1>9. PublishedWhole' /\ SuccessIsPublished'
  BY <1>1, <1>2, <1>4, <1>7 DEF PublishedWhole, SuccessIsPublished, Tracked
<1>10. GateHolds'  BY <1>1, <1>5, <1>7 DEF RunsInv, GateHolds
<1>. QED  BY <1>2, <1>3, <1>7, <1>8, <1>9, <1>10 DEF RunsInv

\* The steps of run_day keep the invariant.
LEMMA RunDayInv ==
  ASSUME TypeOK, RunsInv, NEW p \in Processes, RunDay(p)
  PROVE  RunsInv'
<1>1. CASE Lock(p)  BY <1>1, LockInv
<1>2. CASE NotReady(p)
  <2>1. phase[p] = "inputs"  BY <1>2 DEF NotReady
  <2>2. CASE Abort(p)  BY <2>1, <2>2, AbortInv
  <2>3. CASE ~Abort(p)
    BY <1>2, <2>1, <2>3, ReturnInv DEF NotReady, runVars
  <2>. QED  BY <2>2, <2>3
<1>3. CASE ReturnUnchanged(p)  BY <1>3, ReturnInv DEF ReturnUnchanged
<1>4. CASE StartRun(p)  BY <1>4, StartRunInv
<1>5. CASE Aggregate(p)  BY <1>5, AggregateInv
<1>6. CASE ReplaceRows(p)  BY <1>6, ReplaceRowsInv
<1>7. CASE \E f \in Formats : Export(p, f)  BY <1>7, ExportInv
<1>8. CASE BuildExportManifest(p)  BY <1>8, BuildExportManifestInv
<1>9. CASE Publish(p)  BY <1>9, PublishInv
<1>10. CASE Leave(p)  BY <1>10, AbortInv DEF Leave
<1>. QED
  BY <1>1, <1>2, <1>3, <1>4, <1>5, <1>6, <1>7, <1>8, <1>9, <1>10 DEF RunDay

\* Inputs, time and damage to files leave the invariant alone.
LEMMA SurroundingsInv ==
  ASSUME TypeOK, RunsInv, Surroundings
  PROVE  RunsInv'
<1>1. CASE \E f \in Formats : Damage(f)
  <2>1. PICK f \in Formats : Damage(f)  BY <1>1
  <2>2. files' = [files EXCEPT ![f] = Damaged]
        /\ UNCHANGED <<phase, run, written, manifest, lock, basis, rows, status>>
    BY <2>1 DEF Damage, localVars, runVars
  <2>3. \A p \in Processes : phase[p] \in {"export", "publish"} => f \notin written[p]
    BY <2>1 DEF Damage, RunsInv, ExportsOwn, Restated
  <2>4. LockHeld' /\ RunRecorded' /\ BasisPassed' /\ SuccessIsPublished' /\ PublishedWhole'
    BY <2>2 DEF RunsInv, LockHeld, RunRecorded, BasisPassed, SuccessIsPublished,
                PublishedWhole
  <2>5. ExportsOwn'
    <3>1. \A p \in Processes : phase[p] \in {"export", "publish"} =>
            \A g \in written[p] : files'[g] = files[g]
      BY <2>2, <2>3 DEF TypeOK
    <3>. QED  BY <2>2, <3>1 DEF RunsInv, ExportsOwn, Restated
  <2>6. GateHolds'  BY <2>2 DEF RunsInv, GateHolds, TypeOK
  <2>. QED  BY <2>2, <2>4, <2>5, <2>6 DEF RunsInv
<1>2. CASE UNCHANGED <<phase, run, written, manifest, lock, basis, rows, status, files>>
  BY <1>2 DEF RunsInv, LockHeld, RunRecorded, BasisPassed, ExportsOwn, Restated,
              SuccessIsPublished, PublishedWhole, GateHolds
<1>. QED
  BY <1>1, <1>2 DEF Surroundings, LedgerGrows, ConflictFound, CostFileLands, RunAges,
                    localVars, runVars, reportVars

\* Every step keeps the invariant.
LEMMA NextInv ==
  ASSUME TypeOK, RunsInv, [Next]_vars
  PROVE  RunsInv'
<1>. USE DEF localVars, runVars, reportVars
<1>1. CASE Surroundings  BY <1>1, SurroundingsInv
<1>2. ASSUME NEW p \in Processes, Schedule(p)  PROVE RunsInv'
  BY <1>2, OutsideInv DEF Schedule
<1>3. ASSUME NEW p \in Processes, StartByHand(p)  PROVE RunsInv'
  BY <1>3, OutsideInv DEF StartByHand
<1>4. ASSUME NEW p \in Processes, CloseOrphans(p)  PROVE RunsInv'
  BY <1>4, OutsideInv DEF CloseOrphans
<1>5. ASSUME NEW p \in Processes, RunDay(p)  PROVE RunsInv'
  BY <1>5, RunDayInv
<1>6. ASSUME NEW p \in Processes, StepFails(p)  PROVE RunsInv'
  BY <1>6, AbortInv DEF StepFails, Fail, Tracked
<1>7. ASSUME NEW p \in Processes, Crash(p)  PROVE RunsInv'
  <2>1. lock' \in {lock, NoProcess} /\ (lock = p \/ lock' = lock)  BY <1>7 DEF Crash
  <2>. QED  BY <1>7, <2>1, QuitInv DEF Crash
<1>8. CASE UNCHANGED vars
  BY <1>8 DEF vars, RunsInv, LockHeld, RunRecorded, BasisPassed, ExportsOwn, Restated,
              SuccessIsPublished, PublishedWhole, GateHolds
<1>. QED
  BY <1>1, <1>2, <1>3, <1>4, <1>5, <1>6, <1>7, <1>8 DEF Next

-----------------------------------------------------------------------------
(* The theorems *)

\* Nothing runs and nothing is published at the start.
LEMMA InitInv == Init => TypeOK /\ RunsInv
<1>. SUFFICES ASSUME Init  PROVE TypeOK /\ RunsInv
  OBVIOUS
<1>1. TypeOK
  BY DEF Init, TypeOK, RunStates, Contents, NoManifest
<1>2. \A p \in Processes : phase[p] = "idle" /\ run[p] = NoRun /\ written[p] = {}
  BY DEF Init
<1>3. LockHeld /\ RunRecorded /\ BasisPassed /\ ExportsOwn /\ SuccessIsPublished
  BY <1>2 DEF LockHeld, RunRecorded, BasisPassed, ExportsOwn, SuccessIsPublished, Tracked
<1>4. (status.export = "published" => status.run \in RunIds) /\ PublishedWhole
  BY DEF Init, PublishedWhole
<1>5. GateHolds  BY DEF Init, GateHolds, NoManifest
<1>. QED  BY <1>1, <1>3, <1>4, <1>5 DEF RunsInv

\* The inductive invariant of the daily report, for any number of scheduled and
\* manual runs, interruptions, formats and changes of the inputs.
THEOREM PublicationInvariant == Spec => []PublicationInv
<1>1. PublicationInv /\ [Next]_vars => PublicationInv'
  <2>. SUFFICES ASSUME TypeOK, RunsInv, [Next]_vars  PROVE TypeOK' /\ RunsInv'
    BY DEF PublicationInv
  <2>. QED  BY NextType, NextInv DEF RunsInv
<1>2. Init => PublicationInv  BY InitInv DEF PublicationInv
<1>. QED  BY <1>1, <1>2, PTL DEF Spec

\* The model's state has its types.
THEOREM TypeCorrect == Spec => []TypeOK
<1>1. PublicationInv => TypeOK  BY DEF PublicationInv
<1>. QED  BY PublicationInvariant, <1>1, PTL

\* A published report is whole: rows, every export file of the manifest and the
\* recorded fingerprint come from one run (_run_day).
THEOREM PublishedWholeAlways == Spec => []PublishedWhole
<1>1. PublicationInv => PublishedWhole  BY DEF PublicationInv, RunsInv
<1>. QED  BY PublicationInvariant, <1>1, PTL

\* A cost file that fails the quality gate never reaches rows or exports.
THEOREM GateHoldsAlways == Spec => []GateHolds
<1>1. PublicationInv => GateHolds  BY DEF PublicationInv, RunsInv
<1>. QED  BY PublicationInvariant, <1>1, PTL

\* A run that ends as a success is the published one.
THEOREM SuccessIsPublishedAlways == Spec => []SuccessIsPublished
<1>1. PublicationInv => SuccessIsPublished  BY DEF PublicationInv, RunsInv
<1>. QED  BY PublicationInvariant, <1>1, PTL

-----------------------------------------------------------------------------
(***************************************************************************)
(* The report that readers see.  Every step of a run falls between the     *)
(* withdrawal of the report before and the publication of its own, when    *)
(* all files are its own.                                                  *)
(***************************************************************************)

\* A run has inputs, and publishes when it has written every format.
RunReady ==
  \A p \in Processes :
    /\ phase[p] \in Tracked =>
         basis[run[p]] \in (1 .. MaxLedger) \X CostFiles \X (0 .. MaxConflicts)
    /\ phase[p] = "publish" => written[p] = Formats

\* A step of another kind moves no run on, and leaves what it has to work with.
LEMMA ReadyFrame ==
  ASSUME RunReady, basis' = basis,
         \A p \in Processes :
           /\ phase'[p] \in Tracked => phase[p] \in Tracked /\ run'[p] = run[p]
           /\ phase'[p] = "publish" => phase[p] = "publish" /\ written'[p] = written[p]
  PROVE  RunReady'
BY DEF RunReady

LEMMA ReadyStep ==
  ASSUME TypeOK, RunsInv, RunReady, [Next]_vars
  PROVE  RunReady'
<1>. USE DEF localVars, runVars, reportVars, Goto
<1>1. CASE UNCHANGED <<phase, run, written, basis>>  BY <1>1, ReadyFrame
<1>2. CASE UNCHANGED vars \/ Surroundings
  BY <1>1, <1>2 DEF vars, Surroundings, LedgerGrows, ConflictFound, CostFileLands, Damage, RunAges
<1>3. ASSUME NEW p \in Processes, NEW next \in {"idle", "orphans", "lock", "inputs", "leave"},
             phase' = [phase EXCEPT ![p] = next], basis' = basis,
             \A q \in Processes \ {p} : run'[q] = run[q] /\ written'[q] = written[q]
      PROVE  RunReady'
  <2>1. next \notin Tracked /\ "publish" \in Tracked  BY DEF Tracked
  <2>2. \A q \in Processes :
          phase'[q] = IF q = p THEN next ELSE phase[q]
    BY <1>3 DEF TypeOK
  <2>. QED  BY <1>3, <2>1, <2>2, ReadyFrame
<1>4. ASSUME NEW p \in Processes, Abort(p)  PROVE RunReady'
  <2>1. phase' = [phase EXCEPT ![p] = "idle"] /\ basis' = basis
        /\ run' = [run EXCEPT ![p] = NoRun] /\ written' = [written EXCEPT ![p] = {}]
    BY <1>4 DEF Abort
  <2>2. \A q \in Processes \ {p} : run'[q] = run[q] /\ written'[q] = written[q]
    BY <2>1 DEF TypeOK
  <2>. QED  BY <1>3, <2>1, <2>2
<1>5. ASSUME NEW p \in Processes, Crash(p)  PROVE RunReady'
  <2>1. phase' = [phase EXCEPT ![p] = "idle"] /\ basis' = basis
        /\ run' = [run EXCEPT ![p] = NoRun] /\ written' = [written EXCEPT ![p] = {}]
    BY <1>5 DEF Crash
  <2>2. \A q \in Processes \ {p} : run'[q] = run[q] /\ written'[q] = written[q]
    BY <2>1 DEF TypeOK
  <2>. QED  BY <1>3, <2>1, <2>2
<1>6. ASSUME NEW p \in Processes, Schedule(p) \/ StartByHand(p) \/ CloseOrphans(p) \/ Lock(p)
                 \/ ReturnUnchanged(p) \/ Publish(p)
      PROVE  RunReady'
  <2>1. /\ \E next \in {"idle", "orphans", "lock", "inputs", "leave"} :
             phase' = [phase EXCEPT ![p] = next]
        /\ UNCHANGED <<run, written, basis>>
    BY <1>6 DEF Schedule, StartByHand, CloseOrphans, Lock, ReturnUnchanged, Publish
  <2>. QED  BY <1>3, <2>1
<1>7. ASSUME NEW p \in Processes, NotReady(p)  PROVE RunReady'
  <2>1. CASE Abort(p)  BY <1>4, <2>1
  <2>2. CASE ~Abort(p)
    <3>1. phase' = [phase EXCEPT ![p] = "leave"] /\ UNCHANGED <<run, written, basis>>
      BY <1>7, <2>2 DEF NotReady
    <3>. QED  BY <1>3, <3>1
  <2>. QED  BY <2>1, <2>2
<1>8. ASSUME NEW p \in Processes, StartRun(p)  PROVE RunReady'
  <2>1. /\ latest' \in Unused /\ phase' = [phase EXCEPT ![p] = "aggregate"]
        /\ run' = [run EXCEPT ![p] = latest'] /\ written' = written
        /\ basis' = [[r \in RunIds |-> IF r \in Unused THEN NoBasis ELSE basis[r]]
                       EXCEPT ![latest'] = Fingerprint(p)]
        /\ Ready(p) /\ phase[p] = "inputs"
    BY <1>8 DEF StartRun
  <2>2. Unused \subseteq RunIds  BY DEF Unused
  <2>3. Fingerprint(p) \in (1 .. MaxLedger) \X CostFiles \X (0 .. MaxConflicts)
    BY <2>1 DEF Ready, Fingerprint, Batches, TypeOK, Processes
  <2>4. run'[p] = latest' /\ basis'[latest'] = Fingerprint(p)  BY <2>1, <2>2 DEF TypeOK
  <2>5. lock = p  BY <2>1 DEF RunsInv, LockHeld
  <2>6. ASSUME NEW q \in Processes \ {p}  PROVE phase'[q] \notin Tracked
    <3>1. phase'[q] = phase[q]  BY <2>1
    <3>. QED  BY <2>5, <3>1 DEF RunsInv, LockHeld
  <2>7. phase'[p] = "aggregate"  BY <2>1 DEF TypeOK
  <2>. QED  BY <2>3, <2>4, <2>6, <2>7 DEF RunReady, Tracked
<1>9. ASSUME NEW p \in Processes, NEW next \in Tracked \ {"publish"},
             phase[p] \in Tracked, phase' = [phase EXCEPT ![p] = next],
             UNCHANGED <<run, written, basis>>
      PROVE  RunReady'
  <2>1. \A q \in Processes : phase'[q] = IF q = p THEN next ELSE phase[q]
    BY <1>9 DEF TypeOK
  <2>. QED  BY <1>9, <2>1, ReadyFrame
<1>10. ASSUME NEW p \in Processes, Aggregate(p) \/ ReplaceRows(p)  PROVE RunReady'
  <2>1. CASE Abort(p)  BY <1>4, <2>1
  <2>2. CASE ~Abort(p)
    BY <1>9, <1>10, <2>2 DEF Aggregate, ReplaceRows, Fail, Tracked
  <2>. QED  BY <2>1, <2>2
<1>11. ASSUME NEW p \in Processes, NEW f \in Formats, Export(p, f)  PROVE RunReady'
  <2>1. /\ phase[p] = "export" /\ UNCHANGED <<phase, run, basis>>
        /\ \A q \in Processes \ {p} : written'[q] = written[q]
    BY <1>11 DEF Export, TypeOK
  <2>. QED  BY <2>1, ReadyFrame
<1>12. ASSUME NEW p \in Processes, BuildExportManifest(p)  PROVE RunReady'
  <2>1. /\ phase[p] = "export" /\ written[p] = Formats /\ UNCHANGED <<run, written, basis>>
        /\ \A q \in Processes : phase'[q] = IF q = p THEN "publish" ELSE phase[q]
    BY <1>12 DEF BuildExportManifest, TypeOK
  <2>. QED  BY <2>1 DEF RunReady, Tracked
<1>. QED
  BY <1>2, <1>4, <1>5, <1>6, <1>7, <1>8, <1>10, <1>11, <1>12
     DEF Next, RunDay, Leave, StepFails, Fail

\* Steps that touch neither rows and files nor what is published are not seen.
LEMMA ShownStep ==
  ASSUME TypeOK, RunsInv, RunReady, [Next]_vars
  PROVE  [Readers!Next]_Shown
<1>. USE DEF localVars, runVars, reportVars, Goto
<1>1. CASE UNCHANGED <<rows, status, files>>  BY <1>1 DEF Shown
<1>2. CASE status'.export # "published"  BY <1>2 DEF Shown, Readers!Next, Readers!Withdraw
<1>3. ASSUME NEW f \in Formats, Damage(f), status.export = "published"  PROVE Readers!LoseFile
  <2>1. UNCHANGED <<rows, status>> /\ files' = [files EXCEPT ![f] = Damaged]
    BY <1>3 DEF Damage
  <2>2. Shown = {[rows |-> rows, input |-> status.input, files |-> files]}
        /\ Shown' = {[rows |-> rows, input |-> status.input, files |-> files']}
    BY <1>3, <2>1 DEF Shown
  <2>. DEFINE report == [rows |-> rows, input |-> status.input, files |-> files]
  <2>3. [report EXCEPT !.files[f] = Damaged]
          = [rows |-> rows, input |-> status.input, files |-> [files EXCEPT ![f] = Damaged]]
    OBVIOUS
  <2>. QED  BY <2>1, <2>2, <2>3 DEF Readers!LoseFile
<1>4. ASSUME NEW f \in Formats, Damage(f), status.export # "published"
      PROVE  status'.export # "published"
  BY <1>4 DEF Damage
<1>5. ASSUME NEW p \in Processes, ReplaceRows(p)  PROVE status'.export # "published"
  BY <1>5 DEF ReplaceRows, Restated
<1>6. ASSUME NEW p \in Processes, NEW f \in Formats, Export(p, f)
      PROVE  status'.export # "published"
  BY <1>6 DEF Export, RunsInv, ExportsOwn, Restated
<1>7. ASSUME NEW p \in Processes, Publish(p)  PROVE Readers!Publish
  <2>1. /\ phase[p] = "publish" /\ UNCHANGED <<rows, files>>
        /\ status' = [status EXCEPT !.export = "published", !.manifest = manifest[p]]
        /\ status = Restated(p) /\ rows = run[p]
    BY <1>7 DEF Publish, RunsInv, ExportsOwn, Restated
  <2>2. Shown = {} /\ Shown' = {[rows |-> run[p], input |-> basis[run[p]], files |-> files]}
    BY <2>1 DEF Shown, Restated
  <2>3. \A f \in Formats : files[f] = run[p]
    BY <2>1 DEF RunsInv, ExportsOwn, RunReady
  <2>4. basis[run[p]] \in Acceptable
    <3>1. basis[run[p]] \in (1 .. MaxLedger) \X CostFiles \X (0 .. MaxConflicts)
      BY <2>1 DEF RunReady, Tracked
    <3>2. basis[run[p]][2] \notin Invalid  BY <2>1 DEF RunsInv, BasisPassed
    <3>. QED  BY <3>1, <3>2 DEF Acceptable
  <2>. QED  BY <2>2, <2>3, <2>4 DEF Readers!Publish, Readers!Whole, Shown, Acceptable
<1>8. UNCHANGED <<rows, status, files>>
      \/ (\E f \in Formats : Damage(f))
      \/ \E p \in Processes : ReplaceRows(p) \/ Publish(p) \/ \E f \in Formats : Export(p, f)
  <2>1. ASSUME NEW p \in Processes, Abort(p)  PROVE UNCHANGED <<rows, status, files>>
    BY <2>1 DEF Abort
  <2>2. ASSUME NEW p \in Processes,
               Schedule(p) \/ StartByHand(p) \/ CloseOrphans(p) \/ StepFails(p) \/ Crash(p)
        PROVE  UNCHANGED <<rows, status, files>>
    BY <2>1, <2>2 DEF Schedule, StartByHand, CloseOrphans, StepFails, Fail, Crash
  <2>3. ASSUME NEW p \in Processes,
               Lock(p) \/ NotReady(p) \/ ReturnUnchanged(p) \/ StartRun(p) \/ Aggregate(p)
                 \/ BuildExportManifest(p) \/ Leave(p)
        PROVE  UNCHANGED <<rows, status, files>>
    BY <2>1, <2>3 DEF Lock, NotReady, ReturnUnchanged, StartRun, Aggregate, Fail,
                      BuildExportManifest, Leave
  <2>4. CASE Surroundings \/ UNCHANGED vars
    BY <2>4 DEF Surroundings, LedgerGrows, ConflictFound, CostFileLands, RunAges, vars
  <2>. QED  BY <2>2, <2>3, <2>4 DEF Next, RunDay
<1>. QED  BY <1>1, <1>2, <1>3, <1>4, <1>5, <1>6, <1>7, <1>8 DEF Readers!Next

\* What readers see of a report is what PublishedReport promises: rows, files and inputs
\* of one run while it is published, and nothing of it replaced before it is withdrawn
\* (_run_day, beside other runs and interrupted anywhere).
THEOREM ReportRefinement == Spec => ImplementsPublishedReport
<1>1. Init => Readers!Init /\ RunReady
  BY DEF Init, Readers!Init, Shown, RunReady, Tracked
<1>2. TypeOK /\ RunsInv /\ RunReady /\ [Next]_vars => RunReady'  BY ReadyStep
<1>3. TypeOK /\ RunsInv /\ RunReady /\ [Next]_vars
      => [Readers!Next]_Shown
  BY ShownStep
<1>4. PublicationInv => TypeOK /\ RunsInv  BY DEF PublicationInv
<1>. QED  BY <1>1, <1>2, <1>3, <1>4, PublicationInvariant, PTL
          DEF Spec, ImplementsPublishedReport, Readers!Spec
=============================================================================
