---------------------------- MODULE ArchiveAudit ----------------------------
(***************************************************************************)
(* The hourly audit of the archive beside the restorations it calls for,   *)
(* _check_archive_integrity of src/airflow/dags/data_quality_dag.py.       *)
(*                                                                         *)
(* Every batch has a row in dq_archive_verification with the fingerprint   *)
(* of a manifest and a time, written when the batch is committed, restored *)
(* or audited.  An audit compares with their manifests the objects of the  *)
(* batches whose manifest is not the one verified, and of those that were  *)
(* verified longest ago.  One bad batch makes it raise before it records   *)
(* the good ones, and the next audit starts with the same batches.         *)
(*                                                                         *)
(* The restorations of ArchiveRestore go on while an audit is under way:   *)
(* between the digests and the upsert a batch may get another manifest.    *)
(***************************************************************************)
EXTENDS ArchiveRestore, Sequences

SX == INSTANCE SequencesExt

CONSTANT SampleSize  \* batches of the rotating sample

\* Batches are their ids.
ASSUME AuditAssumption ==
  Batches \subseteq Nat /\ SampleSize \in 1 .. Cardinality(Batches)

VARIABLES
  verified,  \* the batches by verified_at, batch_id
  print,     \* the manifest that each was verified with, by its names
  audit,     \* the candidates of the audit under way
  reported   \* batches that the last audit refused, until they are restored

auditVars == <<verified, print, audit, reported>>
allVars == <<vars, auditVars>>

NoAudit == [b \in {} |-> NoBatch]

InOrder(S) == SX!SetToSortSeq(S, <)

\* The upsert with verified_at = now().
Stamped(S) ==
  LET Other(b) == b \notin S IN SelectSeq(verified, Other) \o InOrder(S)

-----------------------------------------------------------------------------
AuditInit ==
  /\ Init
  /\ verified = InOrder(Batches)
  /\ print = listed
  /\ audit = NoAudit /\ reported = {}

Changed == {b \in Batches : print[b] # listed[b]}

\* Wrong variant: the batches verified last.
Sample_Newest == {verified[i] : i \in (Len(verified) - SampleSize + 1) .. Len(verified)}

Sample == {verified[i] : i \in 1 .. SampleSize}

\* The ledger is read once, and the objects of the candidates are digested.
Compare ==
  /\ audit = NoAudit
  /\ audit' = [b \in Changed \union Sample |-> [names |-> listed[b], ok |-> Intact(b)]]
  /\ UNCHANGED <<vars, verified, print, reported>>

Failed == {b \in DOMAIN audit : ~audit[b].ok}

EndAudit ==
  /\ audit # NoAudit
  /\ IF Failed # {}
       THEN UNCHANGED <<verified, print>>
       ELSE /\ verified' = Stamped(DOMAIN audit)
            /\ print' = [b \in Batches |-> IF b \in DOMAIN audit THEN audit[b].names ELSE print[b]]
  /\ reported' = Failed
  /\ audit' = NoAudit
  /\ UNCHANGED vars

\* A restoration that succeeds records its manifest as verified.
Restored ==
  /\ Record
  /\ verified' = Stamped({job})
  /\ print' = [print EXCEPT ![job] = listed'[job]]
  /\ reported' = reported \ {job}
  /\ UNCHANGED audit

-----------------------------------------------------------------------------
Surroundings ==
  \/ \E b \in Batches : Damage(b) \/ Expire(b) \/ Begin(b)
  \/ Crash

ScriptStep ==
  \/ Restored
  \/ Script /\ ~Record /\ UNCHANGED auditVars

AuditStep == Compare \/ EndAudit

AuditNext ==
  \/ Surroundings /\ UNCHANGED auditVars
  \/ ScriptStep
  \/ AuditStep

\* The operator runs the script for every batch that an audit reports.
Respond(b) == b \in reported /\ Begin(b) /\ UNCHANGED auditVars

\* The hourly schedule keeps audits going, and a script that was started goes on.
AuditSpec ==
  /\ AuditInit /\ [][AuditNext]_allVars
  /\ WF_allVars(ScriptStep) /\ WF_allVars(AuditStep)
  /\ \A b \in Batches : SF_allVars(Respond(b))

-----------------------------------------------------------------------------
(* Properties *)

\* No failure of a restoration leaves a batch where running the script again
\* cannot repair it, and no damage escapes the audits: an operator who restores
\* what they report, and learns of nothing else, has every batch intact again and
\* again. All of them have to stay restorable, because one that is not keeps the
\* sample where it is (restore_archive_batch.py:168-173, data_quality_dag.py:81,111).
RestoredAtLast ==
  (\A b \in Batches : <>[](b \in retained \/ HasCopy(b))) =>
    \A b \in Batches : []<>Intact(b)
=============================================================================
