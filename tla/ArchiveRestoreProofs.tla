------------------------ MODULE ArchiveRestoreProofs ------------------------
(***************************************************************************)
(* Theorems about ArchiveRestore for any batches, dates and failures, also *)
(* beside the audits and the operator of ArchiveAudit.                     *)
(***************************************************************************)
EXTENDS ArchiveAudit, TLAPS

USE RestoreAssumption

-----------------------------------------------------------------------------
(* Objects *)

\* The dates of the good objects of two sets are those of their union.
LEMMA GoodUnion == \A S, T : Good(S \union T) = Good(S) \union Good(T)
BY DEF Good

LEMMA GoodMonotone == \A S, T : S \subseteq T => Good(S) \subseteq Good(T)
BY DEF Good

\* Fresh objects are good, one for each date.
LEMMA FreshGood ==
  ASSUME NEW n \in {"committed", "restored"}
  PROVE  Good(Fresh(n)) = Dates /\ Fresh(n) \subseteq Object
<1>1. Fresh(n) \subseteq Object  BY DEF Fresh, Object
<1>2. \A d \in Dates : [date |-> d, name |-> n, good |-> TRUE] \in Fresh(n)  BY DEF Fresh
<1>3. Dates \subseteq Good(Fresh(n))
  <2>. SUFFICES ASSUME NEW d \in Dates  PROVE d \in Good(Fresh(n))
    OBVIOUS
  <2>. DEFINE o == [date |-> d, name |-> n, good |-> TRUE]
  <2>1. o \in Fresh(n) /\ o.good /\ o.date = d  BY <1>2
  <2>. HIDE DEF o
  <2>. QED  BY <2>1 DEF Good
<1>4. Good(Fresh(n)) \subseteq Dates  BY DEF Good, Fresh
<1>. QED  BY <1>1, <1>3, <1>4

\* Whatever is under a prefix has one of the dates.
LEMMA GoodDates == \A S \in SUBSET Object : Good(S) \subseteq Dates
BY DEF Good, Object

-----------------------------------------------------------------------------
(* Types *)

\* Every step keeps the types.
LEMMA NextType ==
  ASSUME TypeOK, [Next]_vars
  PROVE  TypeOK'
<1>. USE DEF scriptVars, areaVars
<1>1. ASSUME NEW b \in Batches, Damage(b)  PROVE TypeOK'
  <2>1. PICK o \in root[b] :
          /\ \E S \in {{}, {[o EXCEPT !.good = FALSE]}} :
               root' = [root EXCEPT ![b] = (@ \ {o}) \union S]
          /\ harmed' = [harmed EXCEPT ![b] = @ \union {o.date}]
    BY <1>1 DEF Damage
  <2>2. o \in Object /\ [o EXCEPT !.good = FALSE] \in Object /\ o.date \in Dates
    <3>1. o \in Object  BY <2>1 DEF TypeOK
    <3>. QED  BY <3>1 DEF Object
  <2>3. root' \in [Batches -> SUBSET Object]  BY <2>1, <2>2 DEF TypeOK
  <2>4. harmed' \in [Batches -> SUBSET Dates]  BY <2>1, <2>2 DEF TypeOK
  <2>. QED  BY <1>1, <2>3, <2>4 DEF Damage, Trouble, TypeOK
<1>2. ASSUME NEW b \in Batches, Expire(b)  PROVE TypeOK'
  BY <1>2 DEF Expire, TypeOK
<1>3. ASSUME NEW b \in Batches, Begin(b)  PROVE TypeOK'
  BY <1>3 DEF Begin, TypeOK, Phases
<1>4. CASE Build
  BY <1>4, FreshGood DEF Build, TypeOK, Phases
<1>5. CASE MoveAside  BY <1>5 DEF MoveAside, TypeOK, Phases
<1>6. CASE MoveAsideFails  BY <1>6 DEF MoveAsideFails, Trouble, TypeOK, Phases
<1>7. CASE CopyIn  BY <1>7, FreshGood DEF CopyIn, TypeOK, Phases
<1>8. CASE MoveIn  BY <1>8 DEF MoveIn, TypeOK, Phases
<1>9. CASE MoveInFails  BY <1>9 DEF MoveInFails, Trouble, TypeOK, Phases
<1>10. CASE Record
  <2>1. Good(backup \union temp) \subseteq Dates  BY GoodDates DEF TypeOK
  <2>. QED  BY <1>10, <2>1 DEF Record, Quit, TypeOK, Phases
<1>11. CASE RecordFails  BY <1>11 DEF RecordFails, Trouble, TypeOK, Phases
<1>12. CASE Remove  BY <1>12 DEF Remove, TypeOK, Phases
<1>13. CASE MoveBack
  <2>1. Good(IF moved THEN Kept \ backup ELSE Kept) \subseteq Dates
    BY GoodDates DEF TypeOK, Kept
  <2>. QED  BY <1>13, <2>1 DEF MoveBack, Quit, TypeOK, Phases
<1>14. CASE UndoFails
  <2>1. left' \in [Batches -> SUBSET Dates]
    <3>1. \A S \in SUBSET Object : Good(S) \subseteq Dates  BY GoodDates
    <3>2. Kept \in SUBSET Object  BY DEF Kept, TypeOK
    <3>3. \A S \in SUBSET backup : (Kept \ backup) \union S \in SUBSET Object
      BY <3>2 DEF TypeOK
    <3>4. \E L \in SUBSET Dates : left' = [left EXCEPT ![job] = @ \union L]
      <4>1. CASE left' = [left EXCEPT ![job] = @ \union Good(Kept)]  BY <3>1, <3>2, <4>1
      <4>2. CASE \E S \in SUBSET backup :
                   left' = [left EXCEPT ![job] = @ \union Good((Kept \ backup) \union S)]
        BY <3>1, <3>3, <4>2
      <4>. QED  BY <1>14, <4>1, <4>2 DEF UndoFails
    <3>. QED  BY <3>4 DEF TypeOK
  <2>2. \E R \in SUBSET Object : root' = [root EXCEPT ![job] = R]
    BY <1>14 DEF UndoFails, TypeOK
  <2>3. root' \in [Batches -> SUBSET Object]  BY <2>2 DEF TypeOK
  <2>4. trouble' \in 0 .. MaxTrouble  BY <1>14 DEF UndoFails, Trouble, TypeOK
  <2>. QED  BY <1>14, <2>1, <2>3, <2>4 DEF UndoFails, Quit, TypeOK, Phases
<1>15. CASE Crash
  <2>1. Good(backup \union temp) \subseteq Dates  BY GoodDates DEF TypeOK
  <2>2. left' \in [Batches -> SUBSET Dates]  BY <1>15, <2>1 DEF Crash, TypeOK
  <2>3. trouble' \in 0 .. MaxTrouble  BY <1>15 DEF Crash, Trouble, TypeOK
  <2>. QED  BY <1>15, <2>2, <2>3 DEF Crash, Quit, TypeOK, Phases
<1>16. CASE UNCHANGED vars  BY <1>16 DEF vars, TypeOK
<1>. QED
  BY <1>1, <1>2, <1>3, <1>4, <1>5, <1>6, <1>7, <1>8, <1>9, <1>10, <1>11, <1>12, <1>13, <1>14,
     <1>15, <1>16 DEF Next, Script

-----------------------------------------------------------------------------
(* Copies *)

\* A batch has its exact copy for ever or never: a manifest is only replaced
\* by one of rebuilt objects.
LEMMA HasCopyStable ==
  ASSUME TypeOK, [Next]_vars, NEW b \in Batches
  PROVE  HasCopy(b)' <=> HasCopy(b)
<1>1. CASE listed' = listed  BY <1>1 DEF HasCopy
<1>2. CASE Record
  <2>1. CASE b = job  BY <1>2, <2>1 DEF Record, HasCopy, TypeOK
  <2>2. CASE b # job
    <3>1. listed'[b] = listed[b]  BY <1>2, <2>2 DEF Record, TypeOK
    <3>. QED  BY <3>1 DEF HasCopy
  <2>. QED  BY <2>1, <2>2
<1>. QED
  BY <1>1, <1>2
     DEF Next, Script, Damage, Expire, Begin, Build, MoveAside, CopyIn, MoveIn, Remove, MoveBack,
         MoveAsideFails, MoveInFails, RecordFails, UndoFails, Crash, vars

\* A step of the script concerns its batch only.
LEMMA OthersAlone ==
  ASSUME TypeOK, Script \/ Crash
  PROVE  /\ job \in Batches
         /\ \A b \in Batches \ {job} :
              root'[b] = root[b] /\ left'[b] = left[b] /\ harmed'[b] = harmed[b]
<1>1. job \in Batches
  BY DEF TypeOK, Script, Build, MoveAside, CopyIn, MoveIn, Record, Remove, MoveBack,
         MoveAsideFails, MoveInFails, RecordFails, UndoFails, Crash
<1>2. ASSUME NEW b \in Batches \ {job}
      PROVE  root'[b] = root[b] /\ left'[b] = left[b] /\ harmed'[b] = harmed[b]
  <2>1. root'[b] = root[b]
    BY <1>2 DEF TypeOK, Script, Build, MoveAside, CopyIn, MoveIn, Record, Remove, MoveBack,
                MoveAsideFails, MoveInFails, RecordFails, UndoFails, Crash
  <2>2. left'[b] = left[b]
    BY <1>2 DEF TypeOK, Script, Build, MoveAside, CopyIn, MoveIn, Record, Remove, MoveBack,
                MoveAsideFails, MoveInFails, RecordFails, UndoFails, Crash
  <2>3. harmed'[b] = harmed[b]
    BY <1>2 DEF TypeOK, Script, Build, MoveAside, CopyIn, MoveIn, Record, Remove, MoveBack,
                MoveAsideFails, MoveInFails, RecordFails, UndoFails, Crash
  <2>. QED  BY <2>1, <2>2, <2>3
<1>. QED  BY <1>1, <1>2

\* So it suffices to look at a batch that has no exact copy.
LEMMA ScriptSafe ==
  ASSUME TypeOK, CopySurvives, Script \/ Crash,
         ~HasCopy(job) => Dates \ harmed'[job] \subseteq left'[job] \union Good(root'[job])
                            \union (IF job' = job THEN Good(temp' \union backup') ELSE {})
  PROVE  CopySurvives'
<1>. SUFFICES ASSUME NEW b \in Batches  PROVE (Dates \ harmed[b] \subseteq Copies(b))'
  BY DEF CopySurvives
<1>1. HasCopy(b)' <=> HasCopy(b)  BY HasCopyStable DEF Next
<1>2. CASE HasCopy(b)  BY <1>1, <1>2 DEF Copies
<1>3. CASE ~HasCopy(b) /\ b = job
  <2>1. Good(root'[b]) \subseteq Good(root'[b] \union (IF job' = b THEN temp' \union backup' ELSE {}))
    BY GoodMonotone
  <2>2. job' = b => Good(temp' \union backup') \subseteq Good(root'[b] \union (temp' \union backup'))
    BY GoodMonotone
  <2>. QED  BY <1>3, <2>1, <2>2 DEF Copies
<1>4. CASE ~HasCopy(b) /\ b # job
  <2>1. Dates \ harmed[b] \subseteq left[b] \union Good(root[b])
    BY <1>4 DEF CopySurvives, Copies
  <2>2. root'[b] = root[b] /\ left'[b] = left[b] /\ harmed'[b] = harmed[b]
    BY <1>4, OthersAlone
  <2>3. Good(root'[b]) \subseteq Good(root'[b] \union (IF job' = b THEN temp' \union backup' ELSE {}))
    BY GoodMonotone
  <2>. QED  BY <2>1, <2>2, <2>3 DEF Copies
<1>. QED  BY <1>2, <1>3, <1>4

\* While an attempt goes on, one of the two whole sets of objects covers its batch.
LEMMA GoingOnInv ==
  ASSUME TypeOK, RestoreInv, Script, job' = job, phase' # "off", TypeOK', EitherWhole'
  PROVE  RestoreInv'
<1>1. job \in Batches  BY OthersAlone
<1>2. HasCopy(job)' <=> HasCopy(job)
  <2>. DEFINE b == job
  <2>1. \A c \in Batches : HasCopy(c)' <=> HasCopy(c)  BY HasCopyStable DEF Next
  <2>2. job \in LocalCopy /\ listed'[job] = "committed" <=> HasCopy(job)
    BY <1>1, <2>1 DEF HasCopy
  <2>. QED  BY <2>2 DEF HasCopy
<1>3. ASSUME ~HasCopy(job)
      PROVE  Dates \ harmed'[job] \subseteq
               left'[job] \union Good(root'[job]) \union Good(temp' \union backup')
  <2>1. Good(temp' \union backup') = Good(temp') \union Good(backup')  BY GoodUnion
  <2>2. Good(Fresh("restored")) = Dates  BY FreshGood
  <2>3. phase' \in Phases  BY DEF TypeOK
  <2>4. ~HasCopy(job)' /\ job' # NoBatch  BY <1>1, <1>2, <1>3
  <2>5. CASE phase' \in {"build", "aside"}
    BY <2>4, <2>5 DEF EitherWhole, Outside
  <2>6. CASE phase' \in {"in", "record"}
    BY <2>1, <2>4, <2>6 DEF EitherWhole, MovedAside
  <2>7. CASE phase' \in {"remove", "back"}
    BY <2>1, <2>2, <2>4, <2>7 DEF EitherWhole, MovedAside
  <2>. QED  BY <2>3, <2>5, <2>6, <2>7 DEF Phases
<1>4. CopySurvives'  BY <1>3, ScriptSafe DEF RestoreInv
<1>. QED  BY <1>4 DEF RestoreInv

\* An attempt that ends leaves its batch covered by what is under the batch's
\* prefix and under the prefixes that are left behind.
LEMMA EndInv ==
  ASSUME TypeOK, RestoreInv, Script \/ Crash, Quit,
         ~HasCopy(job) => Dates \ harmed'[job] \subseteq left'[job] \union Good(root'[job])
  PROVE  RestoreInv'
<1>1. CopySurvives'  BY ScriptSafe DEF RestoreInv
<1>2. EitherWhole'  BY DEF EitherWhole, Quit
<1>. QED  BY <1>1, <1>2 DEF RestoreInv

\* The steps that prepare the attempt.
LEMMA PrepareInv ==
  ASSUME TypeOK, RestoreInv, TypeOK', Build \/ MoveAside \/ MoveAsideFails
  PROVE  RestoreInv'
<1>1. Script /\ job' = job /\ phase' # "off" /\ listed' = listed /\ job \in Batches
  <2>1. Script  BY DEF Script
  <2>. QED  BY <2>1, OthersAlone DEF Build, MoveAside, MoveAsideFails
<1>2. HasCopy(job)' <=> HasCopy(job)  BY <1>1 DEF HasCopy
<1>3. EitherWhole'
  <2>. SUFFICES ASSUME ~HasCopy(job)
                PROVE  EitherWhole'
    BY <1>1, <1>2 DEF EitherWhole
  <2>1. CASE Build
    BY <1>1, <2>1 DEF Build, RestoreInv, EitherWhole, Outside
  <2>2. CASE MoveAside
    BY <1>1, <2>2 DEF MoveAside, RestoreInv, EitherWhole, Outside, MovedAside
  <2>3. CASE MoveAsideFails
    BY <1>1, <2>3 DEF MoveAsideFails, RestoreInv, EitherWhole, Outside, MovedAside
  <2>. QED  BY <2>1, <2>2, <2>3
<1>. QED  BY <1>1, <1>3, GoingOnInv

\* The steps that put the objects under the prefix of the batch, or fail to.
LEMMA PutInv ==
  ASSUME TypeOK, RestoreInv, TypeOK', CopyIn \/ MoveIn \/ MoveInFails \/ RecordFails \/ Remove
  PROVE  RestoreInv'
<1>1. Script /\ job' = job /\ phase' # "off" /\ listed' = listed /\ job \in Batches
  <2>1. Script  BY DEF Script
  <2>. QED  BY <2>1, OthersAlone DEF CopyIn, MoveIn, MoveInFails, RecordFails, Remove
<1>2. HasCopy(job)' <=> HasCopy(job)  BY <1>1 DEF HasCopy
<1>3. EitherWhole'
  <2>. SUFFICES ASSUME ~HasCopy(job)
                PROVE  EitherWhole'
    BY <1>1, <1>2 DEF EitherWhole
  <2>1. CASE CopyIn  BY <2>1 DEF CopyIn
  <2>2. CASE MoveIn
    BY <1>1, <2>2 DEF MoveIn, RestoreInv, EitherWhole, MovedAside, TypeOK
  <2>3. CASE MoveInFails
    BY <1>1, <2>3 DEF MoveInFails, RestoreInv, EitherWhole, MovedAside
  <2>4. CASE RecordFails
    BY <1>1, <2>4 DEF RecordFails, areaVars, RestoreInv, EitherWhole, MovedAside
  <2>5. CASE Remove
    BY <1>1, <2>5 DEF Remove, areaVars, RestoreInv, EitherWhole, MovedAside
  <2>. QED  BY <2>1, <2>2, <2>3, <2>4, <2>5
<1>. QED  BY <1>1, <1>3, GoingOnInv

\* A restoration that succeeds replaces what was there by whole objects.
LEMMA RecordInv ==
  ASSUME TypeOK, RestoreInv, Record
  PROVE  RestoreInv'
<1>1. Script /\ job \in Batches  BY OthersAlone DEF Script
<1>2. ~HasCopy(job) => Dates \ harmed'[job] \subseteq left'[job] \union Good(root'[job])
  <2>1. Good(Fresh("restored")) = Dates  BY FreshGood
  <2>. QED  BY <1>1, <2>1 DEF Record, RestoreInv, EitherWhole
<1>. QED  BY <1>1, <1>2, EndInv DEF Record

\* The backup is put back, and what stays under the attempt's prefixes is kept.
LEMMA UndoInv ==
  ASSUME TypeOK, RestoreInv, MoveBack \/ UndoFails
  PROVE  RestoreInv'
<1>1. Script /\ job \in Batches  BY OthersAlone DEF Script
<1>2. Quit /\ harmed' = harmed /\ phase \in {"remove", "back"}  BY DEF MoveBack, UndoFails
<1>3. ~HasCopy(job) => Dates \ harmed[job] \subseteq left[job] \union Good(Kept)
  <2>1. Good(Kept) = Good(backup) \union Good(temp)  BY GoodUnion DEF Kept
  <2>2. Good(Fresh("restored")) = Dates  BY FreshGood
  <2>. QED  BY <1>1, <1>2, <2>1, <2>2 DEF RestoreInv, EitherWhole, MovedAside
<1>4. left[job] \union Good(Kept) \subseteq left'[job] \union Good(root'[job])
  <2>1. CASE left' = [left EXCEPT ![job] = @ \union Good(Kept)]
    BY <1>1, <2>1 DEF TypeOK
  <2>2. CASE \E S : root' = [root EXCEPT ![job] = backup]
                     /\ left' = [left EXCEPT ![job] = @ \union Good((Kept \ backup) \union S)]
    <3>1. PICK S : root' = [root EXCEPT ![job] = backup]
                   /\ left' = [left EXCEPT ![job] = @ \union Good((Kept \ backup) \union S)]
      BY <2>2
    <3>2. root'[job] = backup /\ left'[job] = left[job] \union Good((Kept \ backup) \union S)
      BY <1>1, <3>1 DEF TypeOK
    <3>3. Kept = backup \union (Kept \ backup)  BY DEF Kept
    <3>4. Good(Kept) = Good(backup) \union Good(Kept \ backup)  BY <3>3, GoodUnion
    <3>5. Good(Kept \ backup) \subseteq Good((Kept \ backup) \union S)  BY GoodMonotone
    <3>. QED  BY <3>2, <3>4, <3>5
  <2>3. CASE MoveBack
    <3>1. CASE moved
      <4>1. left' = [left EXCEPT ![job] = @ \union Good((Kept \ backup) \union {})]
        BY <2>3, <3>1 DEF MoveBack
      <4>. QED  BY <2>2, <2>3, <3>1, <4>1 DEF MoveBack
    <3>2. CASE ~moved  BY <2>1, <2>3, <3>2 DEF MoveBack
    <3>. QED  BY <3>1, <3>2
  <2>4. CASE UndoFails  BY <2>1, <2>2, <2>4 DEF UndoFails
  <2>. QED  BY <2>3, <2>4
<1>. QED  BY <1>1, <1>2, <1>3, <1>4, EndInv

\* A script that dies leaves its prefixes as they are.
LEMMA CrashInv ==
  ASSUME TypeOK, RestoreInv, Crash
  PROVE  RestoreInv'
<1>1. job \in Batches  BY OthersAlone
<1>2. ~HasCopy(job) => Dates \ harmed[job] \subseteq left[job] \union Good(root[job])
                                                \union Good(temp \union backup)
  <2>1. Good(root[job] \union (temp \union backup)) = Good(root[job]) \union Good(temp \union backup)
    BY GoodUnion
  <2>. QED  BY <1>1, <2>1 DEF RestoreInv, CopySurvives, Copies
<1>3. left'[job] = left[job] \union Good(temp \union backup) /\ root'[job] = root[job]
      /\ harmed'[job] = harmed[job]
  <2>1. temp \union backup = backup \union temp  OBVIOUS
  <2>. QED  BY <1>1, <2>1 DEF Crash, TypeOK
<1>. QED  BY <1>1, <1>2, <1>3, EndInv DEF Crash


\* Damage is on record, and spares the batch that is being restored.
LEMMA DamageInv ==
  ASSUME TypeOK, RestoreInv, NEW b \in Batches, Damage(b)
  PROVE  RestoreInv'
<1>1. PICK o \in root[b] :
        /\ \E S \in {{}, {[o EXCEPT !.good = FALSE]}} :
             root' = [root EXCEPT ![b] = (@ \ {o}) \union S]
        /\ harmed' = [harmed EXCEPT ![b] = @ \union {o.date}]
  BY DEF Damage
<1>2. job # b /\ UNCHANGED <<listed, phase, job, temp, backup, left>>
  BY DEF Damage, scriptVars, areaVars
<1>3. \A c \in Batches \ {b} : root'[c] = root[c] /\ harmed'[c] = harmed[c]
  BY <1>1 DEF TypeOK
<1>4. Good(root[b]) \subseteq Good(root'[b]) \union {o.date} /\ harmed'[b] = harmed[b] \union {o.date}
  <2>1. root[b] \ {o} \subseteq root'[b]  BY <1>1 DEF TypeOK
  <2>2. Good(root[b]) \subseteq Good(root[b] \ {o}) \union {o.date}  BY DEF Good
  <2>3. Good(root[b] \ {o}) \subseteq Good(root'[b])  BY <2>1, GoodMonotone
  <2>4. harmed'[b] = harmed[b] \union {o.date}  BY <1>1 DEF TypeOK
  <2>. QED  BY <2>2, <2>3, <2>4
<1>5. CopySurvives'
  <2>. SUFFICES ASSUME NEW c \in Batches  PROVE (Dates \ harmed[c] \subseteq Copies(c))'
    BY DEF CopySurvives
  <2>1. Dates \ harmed[c] \subseteq Copies(c)  BY DEF RestoreInv, CopySurvives
  <2>2. HasCopy(c)' <=> HasCopy(c)  BY <1>2 DEF HasCopy
  <2>3. CASE c = b
    <3>1. job # c /\ job' # c  BY <1>2, <2>3
    <3>2. Good(root[c] \union {}) = Good(root[c]) /\ Good(root'[c] \union {}) = Good(root'[c])
      BY GoodUnion DEF Good
    <3>. QED  BY <1>2, <1>4, <2>1, <2>2, <2>3, <3>1, <3>2 DEF Copies
  <2>4. CASE c # b
    <3>1. root'[c] = root[c] /\ harmed'[c] = harmed[c]  BY <1>3, <2>4
    <3>2. Copies(c)' = Copies(c)
      <4>. DEFINE work == IF job = c THEN temp \union backup ELSE {}
      <4>1. work' = work  BY <1>2
      <4>. QED  BY <1>2, <2>2, <3>1, <4>1 DEF Copies
    <3>. QED  BY <2>1, <3>1, <3>2
  <2>. QED  BY <2>3, <2>4
<1>6. EitherWhole'
  <2>1. job # NoBatch => job \in Batches \ {b}  BY <1>2 DEF TypeOK
  <2>2. HasCopy(job)' <=> HasCopy(job)  BY <1>2 DEF HasCopy
  <2>. QED
    BY <1>2, <1>3, <2>1, <2>2 DEF RestoreInv, EitherWhole, Outside, MovedAside
<1>. QED  BY <1>5, <1>6 DEF RestoreInv

\* An attempt starts with empty prefixes, so that what covers the batch lies outside.
LEMMA BeginInv ==
  ASSUME TypeOK, RestoreInv, NEW b \in Batches, Begin(b)
  PROVE  RestoreInv'
<1>1. job = NoBatch /\ job' = b /\ temp = {} /\ backup = {}
      /\ UNCHANGED <<root, listed, temp, backup, left, harmed>>
  BY DEF Begin, TypeOK, areaVars
<1>2. \A c \in Batches : HasCopy(c)' <=> HasCopy(c)  BY <1>1 DEF HasCopy
<1>3. \A c \in Batches : Copies(c)' = Copies(c)
  <2>. SUFFICES ASSUME NEW c \in Batches  PROVE Copies(c)' = Copies(c)
    OBVIOUS
  <2>1. (IF job' = c THEN temp' \union backup' ELSE {}) = {}
        /\ (IF job = c THEN temp \union backup ELSE {}) = {}
    BY <1>1
  <2>. QED  BY <1>1, <1>2, <2>1 DEF Copies
<1>4. CopySurvives'  BY <1>1, <1>3 DEF RestoreInv, CopySurvives
<1>5. ~HasCopy(b) => Dates \ harmed[b] \subseteq Outside(b)
  <2>1. Good(root[b] \union {}) = Good(root[b])  BY GoodUnion DEF Good
  <2>. QED  BY <1>1, <2>1 DEF RestoreInv, CopySurvives, Copies, Outside
<1>6. EitherWhole'
  <2>1. CASE HasCopy(b)  BY <1>1, <1>2, <2>1 DEF EitherWhole
  <2>2. CASE ~HasCopy(b)
    <3>1. phase' = "build"  BY <2>2 DEF Begin
    <3>. QED  BY <1>1, <1>5, <2>2, <3>1 DEF EitherWhole, Outside
  <2>. QED  BY <2>1, <2>2
<1>. QED  BY <1>4, <1>6 DEF RestoreInv

\* Every step keeps the invariant.
LEMMA NextInv ==
  ASSUME TypeOK, RestoreInv, [Next]_vars
  PROVE  RestoreInv'
<1>1. TypeOK'  BY NextType
<1>2. CASE UNCHANGED <<root, listed, phase, job, temp, backup, left, harmed>>
  BY <1>2 DEF RestoreInv, CopySurvives, EitherWhole, Copies, Outside, MovedAside, HasCopy
<1>3. ASSUME NEW b \in Batches, Expire(b)  PROVE RestoreInv'
  BY <1>2, <1>3 DEF Expire, scriptVars, areaVars
<1>4. CASE Script
  BY <1>1, <1>4, PrepareInv, PutInv, RecordInv, UndoInv DEF Script
<1>5. CASE UNCHANGED vars  BY <1>2, <1>5 DEF vars, scriptVars, areaVars
<1>. QED  BY <1>3, <1>4, <1>5, DamageInv, BeginInv, CrashInv DEF Next

-----------------------------------------------------------------------------
(* The theorems *)

LEMMA InitInv == Init => TypeOK /\ RestoreInv
<1>. SUFFICES ASSUME Init  PROVE TypeOK /\ RestoreInv
  OBVIOUS
<1>1. Good(Fresh("committed")) = Dates /\ Fresh("committed") \subseteq Object  BY FreshGood
<1>2. TypeOK
  <2>1. root \in [Batches -> SUBSET Object]  BY <1>1 DEF Init
  <2>2. left \in [Batches -> SUBSET Dates] /\ harmed \in [Batches -> SUBSET Dates]
        /\ listed \in [Batches -> {"committed", "restored"}]
    BY DEF Init
  <2>3. phase \in Phases /\ phase = "off" /\ job = NoBatch  BY DEF Init, Phases
  <2>4. temp = {} /\ backup = {} /\ moved = FALSE  BY DEF Init
  <2>5. retained \subseteq Batches /\ trouble \in 0 .. MaxTrouble  BY DEF Init
  <2>. QED  BY <2>1, <2>2, <2>3, <2>4, <2>5 DEF TypeOK
<1>3. CopySurvives
  <2>. SUFFICES ASSUME NEW b \in Batches  PROVE Dates \subseteq Copies(b)
    BY DEF CopySurvives
  <2>1. Good(root[b]) = Dates  BY <1>1 DEF Init
  <2>2. Good(root[b]) \subseteq Good(root[b] \union (IF job = b THEN temp \union backup ELSE {}))
    BY GoodMonotone
  <2>. QED  BY <2>1, <2>2 DEF Copies
<1>4. EitherWhole  BY DEF Init, EitherWhole
<1>. QED  BY <1>2, <1>3, <1>4 DEF RestoreInv

\* The inductive invariant of the restoration script.
THEOREM RestoreInvariant == Spec => [](TypeOK /\ RestoreInv)
<1>1. TypeOK /\ RestoreInv /\ [Next]_vars => (TypeOK /\ RestoreInv)'
  BY NextType, NextInv
<1>. QED  BY InitInv, <1>1, PTL DEF Spec

\* The model's state has its types, and each attempt starts with prefixes and a
\* moved_old of its own.
THEOREM TypeCorrect == Spec => []TypeOK
BY RestoreInvariant, PTL

\* A restoration that fails, anywhere and however often, never destroys the last
\* copy of rows whose object was not damaged (restore).
THEOREM CopySurvivesAlways == Spec => []CopySurvives
<1>1. RestoreInv => CopySurvives  BY DEF RestoreInv
<1>. QED  BY RestoreInvariant, <1>1, PTL

\* Audits and the operator who answers them only choose when the script is run, and for
\* which batch (_check_archive_integrity).
THEOREM AuditRefinement == AuditSpec => Spec
<1>1. AuditInit => Init  BY DEF AuditInit
<1>2. [AuditNext]_allVars => [Next]_vars
  <2>1. Surroundings => Next  BY DEF Surroundings, Next
  <2>2. ScriptStep => Next  BY DEF ScriptStep, Restored, Script, Next
  <2>3. AuditStep => UNCHANGED vars  BY DEF AuditStep, Compare, EndAudit
  <2>. QED  BY <2>1, <2>2, <2>3 DEF AuditNext, allVars
<1>. QED  BY <1>1, <1>2, PTL DEF AuditSpec, Spec

\* Nor do restorations that audits call for destroy the last copy of a row.
THEOREM AuditedCopySurvives == AuditSpec => [](TypeOK /\ RestoreInv /\ CopySurvives)
BY AuditRefinement, RestoreInvariant, CopySurvivesAlways, PTL
=============================================================================
