------------------------- MODULE ReportHealthProofs -------------------------
(***************************************************************************)
(* The answers of /health/reports, for any numbers of runs, processes,     *)
(* formats and interruptions beside the request.                           *)
(***************************************************************************)
EXTENDS ReportHealth, ReportPublicationProofs

\* The steps of the surroundings and of the processes, as far as the report on
\* record and on disk is concerned.
Keeps ==
  /\ UNCHANGED <<status, files, latest>>
  /\ \A r \in RunIds : runs[r] = "success" => runs'[r] = "success"
  /\ \A p \in Processes :
       /\ phase'[p] \in Tracked => run'[p] = run[p]
       /\ phase'[p] \in {"aggregate", "replace"} => phase[p] \in {"aggregate", "replace"}
       /\ phase'[p] \in Tracked => phase[p] \in Tracked
       /\ phase'[p] = "publish" =>
            \/ phase[p] = "publish" /\ written'[p] = written[p]
            \/ written'[p] = Formats

Fails(p) ==
  /\ phase[p] \in Tracked
  /\ Fail(p)

\* Whoever ends a run, closes orphans or enters run_day keeps the report.
LEMMA StepKinds ==
  ASSUME TypeOK, RunsInv, [Next]_vars
  PROVE  \/ Keeps
         \/ \E f \in Formats : Damage(f)
         \/ \E p \in Processes :
              \/ StartRun(p) \/ ReplaceRows(p) \/ Publish(p) \/ Fails(p)
              \/ \E f \in Formats : Export(p, f)
<1>. USE DEF localVars, runVars, reportVars, Goto
<1>1. CASE UNCHANGED vars  BY <1>1 DEF vars, Keeps
<1>2. CASE Surroundings
  BY <1>2 DEF Surroundings, LedgerGrows, ConflictFound, CostFileLands, RunAges, Keeps
<1>3. ASSUME NEW p \in Processes, Schedule(p) \/ StartByHand(p) \/ CloseOrphans(p) \/ Crash(p)
      PROVE  Keeps
  <2>1. \A r \in RunIds : runs[r] = "success" => runs'[r] = "success"
    BY <1>3 DEF Schedule, StartByHand, CloseOrphans, Crash, Closed
  <2>2. UNCHANGED <<status, files, latest>>
    BY <1>3 DEF Schedule, StartByHand, CloseOrphans, Crash
  <2>3. phase'[p] \notin Tracked
    BY <1>3 DEF Schedule, StartByHand, CloseOrphans, Crash, Tracked, TypeOK
  <2>4. \A q \in Processes \ {p} : phase'[q] = phase[q] /\ run'[q] = run[q] /\ written'[q] = written[q]
    BY <1>3 DEF Schedule, StartByHand, CloseOrphans, Crash, TypeOK
  <2>. QED  BY <2>1, <2>2, <2>3, <2>4 DEF Keeps, Tracked
<1>4. ASSUME NEW p \in Processes, Abort(p), phase[p] \notin Tracked, runs' = runs \/ runs' = Closed(closing[p])
      PROVE  Keeps
  <2>1. \A r \in RunIds : runs[r] = "success" => runs'[r] = "success"  BY <1>4 DEF Closed
  <2>2. phase'[p] \notin Tracked /\ UNCHANGED <<status, files, latest>>
        /\ \A q \in Processes \ {p} : phase'[q] = phase[q] /\ run'[q] = run[q] /\ written'[q] = written[q]
    BY <1>4 DEF Abort, Tracked, TypeOK
  <2>. QED  BY <2>1, <2>2 DEF Keeps, Tracked
<1>5. ASSUME NEW p \in Processes, Lock(p) \/ NotReady(p) \/ ReturnUnchanged(p) \/ Leave(p)
      PROVE  Keeps
  <2>1. CASE Abort(p)
    <3>1. phase[p] \notin Tracked
      BY <1>5 DEF Lock, NotReady, ReturnUnchanged, Leave, Tracked
    <3>2. CASE Leave(p)  BY <1>4, <2>1, <3>1, <3>2 DEF Leave
    <3>3. CASE NotReady(p) /\ UNCHANGED runs  BY <1>4, <2>1, <3>1, <3>3
    <3>4. CASE Lock(p)  BY <1>4, <2>1, <3>1, <3>4 DEF Lock
    <3>5. CASE ReturnUnchanged(p)
      BY <2>1, <3>5 DEF ReturnUnchanged, Abort, TypeOK
    <3>. QED  BY <1>5, <3>2, <3>3, <3>4, <3>5 DEF NotReady
  <2>2. CASE ~Abort(p)
    <3>1. \A r \in RunIds : runs[r] = "success" => runs'[r] = "success"
      BY <1>5, <2>2 DEF Lock, NotReady, ReturnUnchanged, Leave, Superseded
    <3>2. phase'[p] \notin Tracked /\ UNCHANGED <<status, files, latest, run, written>>
          /\ \A q \in Processes \ {p} : phase'[q] = phase[q]
      BY <1>5, <2>2 DEF Lock, NotReady, ReturnUnchanged, Leave, Tracked, TypeOK
    <3>. QED  BY <3>1, <3>2 DEF Keeps, Tracked
  <2>. QED  BY <2>1, <2>2
<1>6. ASSUME NEW p \in Processes, Aggregate(p), ~Fails(p)  PROVE Keeps
  <2>1. phase[p] = "aggregate" /\ phase' = [phase EXCEPT ![p] = "replace"]
        /\ UNCHANGED <<status, files, latest, run, written, runs>>
    BY <1>6 DEF Aggregate, Fails, Tracked
  <2>. QED  BY <2>1 DEF Keeps, Tracked, TypeOK
<1>7. ASSUME NEW p \in Processes, BuildExportManifest(p)  PROVE Keeps
  <2>1. phase[p] = "export" /\ phase' = [phase EXCEPT ![p] = "publish"] /\ written[p] = Formats
        /\ UNCHANGED <<status, files, latest, run, written, runs>>
    BY <1>7 DEF BuildExportManifest
  <2>. QED  BY <2>1 DEF Keeps, Tracked, TypeOK
<1>8. ASSUME NEW p \in Processes, StepFails(p)  PROVE Fails(p)
  BY <1>8 DEF StepFails, Fails, Tracked
<1>. QED
  BY <1>1, <1>2, <1>3, <1>5, <1>6, <1>7, <1>8 DEF Next, Surroundings, RunDay

\* The run r that a request has read about is over.
ReadAbout(r) ==
  /\ check # NoCheck /\ check.manifest # NoManifest
  /\ check.manifest = [f \in Formats |-> r] /\ ~Underway(r)

\* What a step must not do beside a request: let the run go on, bring a file of it
\* back, publish its report again, or put a file right under the published report.
LEMMA RequestFrame ==
  ASSUME RequestKept, UNCHANGED check,
         \A r \in RunIds : ReadAbout(r) =>
           /\ ~Underway(r)'
           /\ \A f \in Formats : files'[f] = r => files[f] = r
           /\ status'.manifest = check.manifest =>
                /\ status.manifest = check.manifest
                /\ \A f \in Formats : files[f] = Damaged => files'[f] = Damaged
  PROVE  RequestKept'
<1>1. NoManifest' = NoManifest /\ Requests' = Requests  BY DEF NoManifest, Requests, Contents
<1>2. CASE check = NoCheck \/ check.manifest = NoManifest  BY <1>1, <1>2 DEF RequestKept
<1>3. CASE check # NoCheck /\ check.manifest # NoManifest
  <2>1. PICK r \in RunIds : ReadAbout(r)  BY <1>3 DEF RequestKept, ReadAbout
  <2>2. check.manifest = [f \in Formats |-> r] /\ ~Underway(r)'  BY <2>1 DEF ReadAbout
  <2>3. \A f \in Formats : files'[f] = check.manifest[f] => f \in check.intact
    BY <1>3, <2>1, <2>2 DEF RequestKept
  <2>4. \A f \in Formats \ (check.left \union check.intact) :
          check.invalid \/ (f \in Unnamed /\ status'.manifest # check.manifest)
    BY <1>3, <2>1 DEF RequestKept
  <2>5. check.invalid =>
          status'.manifest # check.manifest \/ \E f \in Formats : files'[f] = Damaged
    BY <1>3, <2>1 DEF RequestKept
  <2>6. check \in Requests  BY <1>3 DEF RequestKept
  <2>. QED  BY <1>1, <1>3, <2>2, <2>3, <2>4, <2>5, <2>6 DEF RequestKept
<1>. QED  BY <1>2, <1>3

\* No step of a run puts another report in the place of the published one, nor
\* lets the run that a request has read about come back.
LEMMA HealthStep ==
  ASSUME TypeOK, HealthInv, [Next]_vars, StillNew, UNCHANGED check
  PROVE  ReportKept' /\ RequestKept'
<1>. USE DEF localVars, runVars, reportVars, Goto
<1>0. RunsInv /\ ReportKept /\ RequestKept  BY DEF HealthInv, PublicationInv
<1>1. CASE Keeps
  <2>1. ReportKept'
    <3>1. status.manifest # NoManifest => status.run \in RunIds
      BY <1>0 DEF RunsInv, ReportKept
    <3>2. ASSUME NEW p \in Processes
          PROVE  /\ phase'[p] \in {"aggregate", "replace"} => run'[p] # status'.run
                 /\ phase'[p] = "publish" => written'[p] = Formats
      BY <1>0, <1>1 DEF Keeps, ReportKept, Tracked
    <3>3. status'.manifest # NoManifest =>
            /\ status'.export = "published" /\ runs'[status'.run] = "success"
            /\ \A f \in Formats : files'[f] \in {status'.manifest[f], Damaged}
      BY <1>0, <1>1, <3>1 DEF Keeps, ReportKept
    <3>. QED  BY <3>2, <3>3 DEF ReportKept, NoManifest
  <2>2. \A r \in RunIds : Underway(r)' => Underway(r)  BY <1>1 DEF Keeps, Underway
  <2>3. RequestKept'  BY <1>0, <1>1, <2>2, RequestFrame DEF Keeps, ReadAbout
  <2>. QED  BY <2>1, <2>3
<1>2. ASSUME NEW f \in Formats, Damage(f)  PROVE ReportKept' /\ RequestKept'
  <2>1. files' = [files EXCEPT ![f] = Damaged] /\ UNCHANGED <<phase, run, written, runs, status>>
    BY <1>2 DEF Damage
  <2>2. \A g \in Formats : files'[g] \in {files[g], Damaged}  BY <2>1 DEF TypeOK
  <2>3. ReportKept'  BY <1>0, <2>1, <2>2 DEF ReportKept, NoManifest
  <2>4. \A r \in RunIds : (Underway(r)' <=> Underway(r)) /\ r # Damaged
    BY <2>1, ContentsAssumption DEF Underway
  <2>5. RequestKept'  BY <1>0, <2>1, <2>2, <2>4, RequestFrame DEF ReadAbout
  <2>. QED  BY <2>3, <2>5
<1>3. ASSUME NEW p \in Processes, StartRun(p)  PROVE ReportKept' /\ RequestKept'
  <2>1. latest' \in Unused /\ latest' \in RunIds /\ latest' # latest
    BY <1>3 DEF StartRun, Unused
  <2>2. phase' = [phase EXCEPT ![p] = "aggregate"] /\ run' = [run EXCEPT ![p] = latest']
        /\ UNCHANGED <<written, status, files>>
    BY <1>3 DEF StartRun
  <2>3. \A r \in RunIds \ Unused : runs'[r] = runs[r]  BY <1>3, <2>1 DEF StartRun
  <2>4. ReportKept'
    <3>1. status.run \notin Unused /\ latest' # status.run  BY <2>1 DEF Unused
    <3>2. status.manifest # NoManifest => status.run \in RunIds
      BY <1>0 DEF RunsInv, ReportKept
    <3>. QED  BY <1>0, <2>2, <2>3, <3>1, <3>2 DEF ReportKept, NoManifest, TypeOK
  <2>5. ASSUME NEW r \in RunIds, ReadAbout(r)  PROVE ~Underway(r)'
    <3>1. PICK f \in Formats : TRUE  BY <2>5 DEF ReadAbout, NoManifest
    <3>2. latest' # r  BY <2>1, <2>5, <3>1 DEF ReadAbout, StillNew
    <3>. QED  BY <2>2, <2>5, <3>2 DEF ReadAbout, Underway, TypeOK
  <2>6. RequestKept'  BY <1>0, <2>2, <2>5, RequestFrame
  <2>. QED  BY <2>4, <2>6
<1>4. ASSUME NEW p \in Processes, ReplaceRows(p)  PROVE ReportKept' /\ RequestKept'
  <2>1. phase[p] = "replace" /\ phase' = [phase EXCEPT ![p] = "export"] /\ status' = Restated(p)
        /\ UNCHANGED <<run, written, runs, files>>
    BY <1>4 DEF ReplaceRows
  <2>2. \A q \in Processes : q # p => phase[q] \notin Tracked
    BY <1>0, <2>1, Alone DEF Tracked
  <2>3. ReportKept'
    BY <2>1, <2>2 DEF ReportKept, Restated, NoManifest, Tracked, TypeOK
  <2>4. \A r \in RunIds : Underway(r)' => Underway(r)
    BY <2>1 DEF Underway, Tracked, TypeOK
  <2>5. \A r \in RunIds : ReadAbout(r) => status'.manifest # check.manifest
    BY <2>1 DEF ReadAbout, Restated, NoManifest
  <2>6. RequestKept'  BY <1>0, <2>1, <2>4, <2>5, RequestFrame DEF ReadAbout
  <2>. QED  BY <2>3, <2>6
<1>5. ASSUME NEW p \in Processes, Publish(p)  PROVE ReportKept' /\ RequestKept'
  <2>1. phase[p] = "publish" /\ phase' = [phase EXCEPT ![p] = "leave"]
        /\ runs' = [runs EXCEPT ![run[p]] = "success"] /\ UNCHANGED <<run, written, files>>
    BY <1>5 DEF Publish
  <2>2. run[p] \in RunIds /\ status = Restated(p) /\ manifest[p] = [f \in Formats |-> run[p]]
        /\ written[p] = Formats /\ \A f \in Formats : files[f] = run[p]
    BY <1>0, <2>1 DEF RunsInv, RunRecorded, ExportsOwn, ReportKept, Tracked
  <2>3. status' = [status EXCEPT !.export = "published", !.manifest = manifest[p]]
    BY <1>5, <2>2 DEF Publish, Restated
  <2>4. status'.export = "published" /\ status'.run = run[p] /\ status'.manifest = manifest[p]
    BY <2>2, <2>3 DEF Restated
  <2>5. \A q \in Processes : phase'[q] \notin Tracked
    BY <1>0, <2>1, Alone DEF Tracked, TypeOK
  <2>6. ReportKept'
    BY <2>1, <2>2, <2>4, <2>5 DEF ReportKept, Tracked, TypeOK
  <2>7. ASSUME NEW r \in RunIds, ReadAbout(r)  PROVE status'.manifest # check.manifest
    <3>1. run[p] # r  BY <2>1, <2>7 DEF ReadAbout, Underway, Tracked
    <3>2. PICK f \in Formats : TRUE  BY <2>7 DEF ReadAbout, NoManifest
    <3>3. check.manifest[f] = r /\ status'.manifest[f] = run[p]
      BY <2>2, <2>4, <2>7, <3>2 DEF ReadAbout
    <3>. QED  BY <3>1, <3>3
  <2>8. RequestKept'
    BY <1>0, <2>1, <2>5, <2>7, RequestFrame DEF Underway
  <2>. QED  BY <2>6, <2>8
<1>6. ASSUME NEW p \in Processes, Fails(p)  PROVE ReportKept' /\ RequestKept'
  <2>1. phase[p] \in Tracked /\ phase' = [phase EXCEPT ![p] = "idle"]
        /\ run' = [run EXCEPT ![p] = NoRun] /\ written' = [written EXCEPT ![p] = {}]
        /\ runs' = [runs EXCEPT ![run[p]] = "failed"] /\ UNCHANGED <<status, files>>
    BY <1>6 DEF Fails, Fail, Abort
  <2>2. \A r \in RunIds : r # run[p] => runs'[r] = runs[r]  BY <2>1 DEF TypeOK
  <2>3. \A q \in Processes : phase'[q] \notin Tracked
    BY <1>0, <2>1, Alone DEF Tracked, TypeOK
  <2>4. status.manifest # NoManifest => status.run # run[p] /\ status.run \in RunIds
    BY <1>0, <2>1 DEF RunsInv, ReportKept, ExportsOwn, Restated, Tracked
  <2>5. ReportKept'  BY <1>0, <2>1, <2>2, <2>3, <2>4 DEF ReportKept, NoManifest, Tracked
  <2>6. RequestKept'  BY <1>0, <2>1, <2>3, RequestFrame DEF Underway
  <2>. QED  BY <2>5, <2>6
<1>7. ASSUME NEW p \in Processes, NEW f \in Formats, Export(p, f)
      PROVE  ReportKept' /\ RequestKept'
  <2>1. phase[p] = "export" /\ files' = [files EXCEPT ![f] = run[p]]
        /\ written' = [written EXCEPT ![p] = @ \union {f}]
        /\ UNCHANGED <<phase, run, runs, status>>
    BY <1>7 DEF Export
  <2>2. status.manifest = NoManifest
    BY <1>0, <2>1 DEF RunsInv, ExportsOwn, Restated
  <2>3. ReportKept'  BY <1>0, <2>1, <2>2 DEF ReportKept, NoManifest, TypeOK
  <2>4. Underway(run[p])  BY <2>1 DEF Underway, Tracked
  <2>5. \A r \in RunIds : Underway(r)' <=> Underway(r)  BY <2>1 DEF Underway
  <2>6. \A g \in Formats : files'[g] \in {files[g], run[p]}  BY <2>1 DEF TypeOK
  <2>7. ASSUME NEW r \in RunIds, ReadAbout(r)  PROVE r # run[p] /\ status'.manifest # check.manifest
    BY <2>1, <2>2, <2>4, <2>7 DEF ReadAbout
  <2>8. RequestKept'  BY <1>0, <2>5, <2>6, <2>7, RequestFrame DEF ReadAbout
  <2>. QED  BY <2>3, <2>8
<1>. QED  BY <1>1, <1>2, <1>3, <1>4, <1>5, <1>6, <1>7, StepKinds, <1>0

\* A file that does not match is damaged or no longer published; one that does was
\* there at the snapshot, or is a csv of a later run.
LEMMA CompareStep ==
  ASSUME HealthInv, UNCHANGED vars, NEW f \in Formats, CompareFile(f)
  PROVE  RequestKept'
<1>. USE DEF vars, localVars, runVars, reportVars
<1>1. /\ check # NoCheck /\ f \in check.left /\ check.manifest # NoManifest
      /\ check \in Requests /\ RequestKept /\ ReportKept
  BY DEF HealthInv, RequestKept, CompareFile
<1>2. /\ files' = files /\ status' = status /\ NoManifest' = NoManifest /\ Requests' = Requests
      /\ \A r \in RunIds : Underway(r)' <=> Underway(r)
  BY DEF NoManifest, Requests, Contents, Underway
<1>3. PICK r \in RunIds : check.manifest = [g \in Formats |-> r] /\ ~Underway(r)
  BY <1>1 DEF RequestKept
<1>4. status.manifest = check.manifest => files[f] \in {check.manifest[f], Damaged}
  BY <1>1 DEF ReportKept
<1>5. CASE /\ files[f] = check.manifest[f] \/ (f \in Unnamed /\ files[f] \in RunIds)
           /\ check' = [check EXCEPT !.left = @ \ {f}]
  <2>1. /\ check' \in Requests /\ check'.manifest = check.manifest
        /\ check'.left = check.left \ {f} /\ check'.invalid = check.invalid
        /\ check'.intact = check.intact
    BY <1>1, <1>5 DEF Requests
  <2>2. f \in check.intact \/ (f \in Unnamed /\ status.manifest # check.manifest)
    BY <1>1, <1>4, <1>5, ContentsAssumption DEF RequestKept
  <2>3. \A g \in Formats \ (check'.left \union check'.intact) :
          check'.invalid \/ (g \in Unnamed /\ status'.manifest # check'.manifest)
    BY <1>1, <1>2, <2>1, <2>2 DEF RequestKept
  <2>4. check' # NoCheck =>
          /\ \A g \in Formats : files'[g] = check'.manifest[g] => g \in check'.intact
          /\ check'.invalid =>
               status'.manifest # check'.manifest \/ \E g \in Formats : files'[g] = Damaged
    BY <1>1, <1>2, <2>1 DEF RequestKept
  <2>. QED  BY <1>1, <1>2, <1>3, <2>1, <2>3, <2>4 DEF RequestKept
<1>6. CASE files[f] # check.manifest[f] /\ check' = [check EXCEPT !.left = {}, !.invalid = TRUE]
  <2>1. /\ check' \in Requests /\ check'.manifest = check.manifest /\ check'.left = {}
        /\ check'.invalid /\ check'.intact = check.intact
    BY <1>1, <1>6 DEF Requests
  <2>2. status.manifest # check.manifest \/ files[f] = Damaged  BY <1>4, <1>6
  <2>. QED  BY <1>1, <1>2, <1>3, <2>1, <2>2 DEF RequestKept
<1>. QED  BY <1>5, <1>6 DEF CompareFile

-----------------------------------------------------------------------------
(* The theorems *)

\* The inductive invariant of runs and requests.
THEOREM HealthInvariant == HealthSpec => []HealthInv
<1>1. HealthInit => HealthInv
  <2>. SUFFICES ASSUME HealthInit  PROVE HealthInv
    OBVIOUS
  <2>1. TypeOK /\ RunsInv  BY InitInv DEF HealthInit
  <2>2. ReportKept /\ RequestKept
    BY DEF HealthInit, Init, ReportKept, RequestKept
  <2>. QED  BY <2>1, <2>2 DEF HealthInv, PublicationInv
<1>2. HealthInv /\ [HealthNext]_healthVars => HealthInv'
  <2>. SUFFICES ASSUME HealthInv, [HealthNext]_healthVars  PROVE HealthInv'
    OBVIOUS
  <2>0. TypeOK /\ RunsInv  BY DEF HealthInv, PublicationInv
  <2>1. [Next]_vars  BY DEF HealthNext, ReadDatabase, CompareFile, Respond, healthVars
  <2>2. TypeOK' /\ RunsInv'  BY <2>0, <2>1, NextType, NextInv DEF RunsInv
  <2>3. CASE Next /\ StillNew /\ UNCHANGED check
    BY <2>0, <2>2, <2>3, HealthStep DEF HealthInv, PublicationInv
  <2>4. CASE UNCHANGED vars
    <3>1. ReportKept'
      BY <2>4 DEF vars, localVars, runVars, reportVars, HealthInv, PublicationInv, ReportKept, NoManifest
    <3>2. \A r \in RunIds : Underway(r)' <=> Underway(r)
      BY <2>4 DEF vars, localVars, Underway
    <3>3. CASE UNCHANGED check
      BY <2>2, <2>4, <3>1, <3>2, <3>3
         DEF vars, runVars, reportVars, HealthInv, PublicationInv, RequestKept, NoManifest
    <3>4. CASE Respond  BY <2>2, <3>1, <3>4 DEF Respond, RequestKept, HealthInv, PublicationInv
    <3>5. CASE ReadDatabase
      <4>1. /\ check'.manifest = status.manifest /\ ~check'.invalid
            /\ check'.left = IF status.manifest = NoManifest THEN {} ELSE Formats
            /\ check'.intact = {f \in Formats : files[f] = status.manifest[f]}
        BY <3>5 DEF ReadDatabase
      <4>2. ASSUME status.manifest # NoManifest
            PROVE  /\ status.run \in RunIds /\ status.manifest = [f \in Formats |-> status.run]
                   /\ ~Underway(status.run)
        BY <4>2 DEF HealthInv, PublicationInv, ReportKept, RunsInv, PublishedWhole, ExportsOwn, Restated,
                    Underway, Tracked
      <4>3. check' \in Requests'
        BY <2>0, <3>5 DEF ReadDatabase, Verdict, Requests, TypeOK, Contents
      <4>4. /\ files' = files /\ status' = status /\ NoManifest' = NoManifest
            /\ \A r \in RunIds : Underway(r)' <=> Underway(r)
        BY <2>4, <3>2 DEF NoManifest, vars, reportVars
      <4>5. RequestKept'
        BY <4>1, <4>2, <4>3, <4>4 DEF RequestKept
      <4>. QED  BY <2>2, <3>1, <4>5 DEF HealthInv, PublicationInv
    <3>6. ASSUME NEW f \in Formats, CompareFile(f)  PROVE HealthInv'
      <4>1. RequestKept'  BY <2>4, <3>6, CompareStep
      <4>. QED  BY <2>2, <3>1, <4>1 DEF HealthInv, PublicationInv
    <3>. QED  BY <3>3, <3>4, <3>5, <3>6, <2>3 DEF HealthNext, healthVars
  <2>. QED  BY <2>3, <2>4 DEF HealthNext, ReadDatabase, CompareFile, Respond, healthVars
<1>. QED  BY <1>1, <1>2, PTL DEF HealthSpec

\* An answer that everything is well is right about the report at the snapshot,
\* although the files are compared afterwards, one by one, while runs come and go and
\* replace them (main.py:126).
THEOREM HealthyWasWholeAlways == HealthSpec => []HealthyWasWhole
<1>1. HealthInv => HealthyWasWhole
  <2>. SUFFICES ASSUME HealthInv, Answered, Answer = "healthy", check.manifest # NoManifest
                PROVE  /\ \E r \in RunIds : check.manifest = [f \in Formats |-> r]
                       /\ \A f \in Formats \ check.intact :
                            f \in Unnamed /\ status.manifest # check.manifest
    BY DEF HealthyWasWhole
  <2>1. check # NoCheck /\ check.left = {} /\ ~check.invalid  BY DEF Answered, Answer
  <2>. QED  BY <2>1 DEF HealthInv, RequestKept
<1>. QED  BY HealthInvariant, <1>1, PTL

\* An alarm of a request that found no failure is about a damaged file, or a run
\* has replaced the report since (main.py:126).
THEOREM AlarmHasReasonAlways == HealthSpec => []AlarmHasReason
<1>1. HealthInv => AlarmHasReason
  <2>. SUFFICES ASSUME HealthInv, Answered, check.verdict # "degraded", Answer = "degraded"
                PROVE  status.manifest # check.manifest \/ \E f \in Formats : files[f] = Damaged
    BY DEF AlarmHasReason
  <2>1. check # NoCheck /\ check.invalid  BY DEF Answered, Answer
  <2>. QED  BY <2>1 DEF HealthInv, RequestKept
<1>. QED  BY HealthInvariant, <1>1, PTL
=============================================================================
