---------------------------- MODULE ReportHealth ----------------------------
(***************************************************************************)
(* The answer of /health/reports about the date, src/api/main.py, while    *)
(* runs of ReportPublication go on.                                        *)
(*                                                                         *)
(* A request reads runs and publications in one repeatable-read snapshot.  *)
(* Afterwards, outside of it and without a lock, it compares one export    *)
(* file after the other with the manifest that it has read, up to the      *)
(* first that does not match.                                              *)
(*                                                                         *)
(* The date is the newest closed one as soon as its boundary is reached.   *)
(* Earlier dates are published and undamaged, the code's algorithm version *)
(* is the exports', and the archive does not lag.                          *)
(***************************************************************************)
EXTENDS ReportPublication

CONSTANTS
  NoCheck,
  Unnamed   \* formats whose files do not name the run that wrote them: csv

VARIABLE check  \* the request under way: what it has read and found so far

healthVars == <<vars, check>>

HealthInit == Init /\ check = NoCheck

\* Orphans have the status of failures; their error text is not looked at.
LatestFailed ==
  latest # NoRun
  /\ \/ runs[latest] \in {"failed", "orphaned"}
     \/ runs[latest] = "running" /\ latest \in old

\* A run that is not old may have started in the last three minutes.
MayBeActive == ledger > 0 /\ \E r \in RunIds \ old : runs[r] = "running"

MissingDate == ledger > 0 /\ status.run = NoRun

\* The answer if every published export is valid. One date that has not been
\* published counts as catching up.
Verdict(active) ==
  IF LatestFailed THEN "degraded"
  ELSE IF status.export # "pending" /\ ~MissingDate THEN "healthy"
  ELSE IF active \/ MissingDate THEN "processing"
  ELSE "degraded"

\* intact is a history of the moment: the files that were then those of the manifest.
ReadDatabase ==
  /\ check = NoCheck
  /\ \E active \in {FALSE, MayBeActive} :
       check' = [verdict |-> Verdict(active), manifest |-> status.manifest,
                 left |-> IF status.manifest = NoManifest THEN {} ELSE Formats,
                 invalid |-> FALSE,
                 intact |-> {f \in Formats : files[f] = status.manifest[f]}]
  /\ UNCHANGED vars

\* Wrong variant: the last file that is compared decides.
CompareFile_LastDecides(f) ==
  /\ check # NoCheck /\ f \in check.left
  /\ check' = [check EXCEPT !.left = @ \ {f}, !.invalid = files[f] # check.manifest[f]]
  /\ UNCHANGED vars

\* A csv may be equal to that of another run with the same figures. The code goes
\* through the formats in a fixed order; here it may be any.
CompareFile(f) ==
  /\ check # NoCheck /\ f \in check.left
  /\ \/ /\ files[f] = check.manifest[f] \/ (f \in Unnamed /\ files[f] \in RunIds)
        /\ check' = [check EXCEPT !.left = @ \ {f}]
     \/ /\ files[f] # check.manifest[f]
        /\ check' = [check EXCEPT !.left = {}, !.invalid = TRUE]
  /\ UNCHANGED vars

Answered == check # NoCheck /\ check.left = {}
Answer == IF check.invalid THEN "degraded" ELSE check.verdict

\* The request is answered.
Respond ==
  /\ Answered
  /\ check' = NoCheck
  /\ UNCHANGED vars

\* A run has a new uuid also as far as the request is concerned.
StillNew ==
  check # NoCheck /\ latest' # latest => \A f \in Formats : check.manifest[f] # latest'

HealthNext ==
  \/ Next /\ StillNew /\ UNCHANGED check
  \/ ReadDatabase
  \/ \E f \in Formats : CompareFile(f)
  \/ Respond

\* Nobody has to ask; a request that was made is answered.
HealthSpec ==
  /\ HealthInit /\ [][HealthNext]_healthVars
  /\ \A p \in Processes : WF_healthVars((CloseOrphans(p) \/ RunDay(p)) /\ UNCHANGED check)
  /\ \A p \in Schedulers : WF_healthVars(Schedule(p) /\ UNCHANGED check)
  /\ \A r \in RunIds : WF_healthVars(RunAges(r) /\ UNCHANGED check)
  /\ WF_healthVars(Respond \/ \E f \in Formats : CompareFile(f))

-----------------------------------------------------------------------------
(* Properties *)

\* A request that is answered that everything is well has not put a whole report
\* together from the files of different moments: at its snapshot each file was
\* there as published, although they are compared afterwards, one by one, while runs
\* replace them (main.py:126). Only a damaged csv can be missed, when a run with
\* the same figures has meanwhile written it again.
HealthyWasWhole ==
  Answered /\ Answer = "healthy" /\ check.manifest # NoManifest =>
    /\ \E r \in RunIds : check.manifest = [f \in Formats |-> r]
    /\ \A f \in Formats \ check.intact :
         f \in Unnamed /\ status.manifest # check.manifest

\* A request that has found no failure in the database reports one only for a
\* damaged file, or when its manifest is no longer the published one: a false
\* alarm needs a run to replace the report between its steps (main.py:126).
AlarmHasReason ==
  Answered /\ check.verdict # "degraded" /\ Answer = "degraded" =>
    status.manifest # check.manifest \/ \E f \in Formats : files[f] = Damaged

-----------------------------------------------------------------------------
(* Why the two hold: HealthInv is inductive. *)

Underway(r) == \E p \in Processes : phase[p] \in Tracked /\ run[p] = r

\* What is published is on disk unless it was damaged, and its run ended in success.
ReportKept ==
  /\ \A p \in Processes :
       /\ phase[p] \in {"aggregate", "replace"} => run[p] # status.run
       /\ phase[p] = "publish" => written[p] = Formats
  /\ status.manifest # NoManifest =>
       /\ status.export = "published" /\ runs[status.run] = "success"
       /\ \A f \in Formats : files[f] \in {status.manifest[f], Damaged}

Requests ==
  [verdict : {"healthy", "processing", "degraded"}, manifest : [Formats -> Contents],
   left : SUBSET Formats, invalid : BOOLEAN, intact : SUBSET Formats]

\* The run that a request has read about is over and writes no file again: a file
\* that is its work now has always been.  What does not match is damaged, or the
\* report has been withdrawn since.
RequestKept ==
  check # NoCheck =>
    /\ check \in Requests
    /\ check.manifest = NoManifest => check.left = {} /\ ~check.invalid
    /\ check.manifest # NoManifest =>
         /\ \E r \in RunIds : check.manifest = [f \in Formats |-> r] /\ ~Underway(r)
         /\ \A f \in Formats : files[f] = check.manifest[f] => f \in check.intact
         /\ \A f \in Formats \ (check.left \union check.intact) :
              check.invalid \/ (f \in Unnamed /\ status.manifest # check.manifest)
         /\ check.invalid =>
              status.manifest # check.manifest \/ \E f \in Formats : files[f] = Damaged

HealthInv == PublicationInv /\ ReportKept /\ RequestKept

-----------------------------------------------------------------------------
(* Liveness *)

\* A failure of the date's last run is all that a return of the inputs to those of
\* the published report leaves behind (reconcile.py:88).
FailureLeftBehind ==
  latest # NoRun /\ runs[latest] = "failed"
  /\ status.export = "published" /\ status.input = Current /\ ManifestMatches

\* Once costs are valid every request finds the report healthy from some time on,
\* whatever was interrupted or damaged before, unless a failure is left behind.
HealthRecovers ==
  Settled => <>[](Answered => Answer = "healthy" \/ FailureLeftBehind)
=============================================================================
