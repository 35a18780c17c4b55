-------------------------- MODULE CheckpointRepair --------------------------
(***************************************************************************)
(* Progress of the raw archive consumer when shutdowns tear the metadata   *)
(* of its checkpoint, and src/scripts/repair_spark_checkpoints.py.         *)
(*                                                                         *)
(* A checkpoint directory holds an offset log, with the planned end of     *)
(* each batch, and a commit log, with an entry for each batch that is      *)
(* done.  RawArchive's start and end are what Spark reads from the newest  *)
(* entries of the two.  A shutdown can leave the newest files incomplete;  *)
(* Spark then fails on every start until the operator has moved the        *)
(* incomplete files away, one after the other.                             *)
(*                                                                         *)
(* Spark's logs are external.  They are taken to reach the disk in the     *)
(* order they are written, so that a shutdown spoils the newest ones.      *)
(* After a point in time, calm, nothing is interrupted any more.           *)
(***************************************************************************)
EXTENDS RawArchive, FiniteSetsExt, Functions

CONSTANTS
  p1,
  Torn,       \* content of an incomplete file
  MaxLost,    \* bound: files that were complete and are spoilt by one shutdown
  MaxSessions \* bound: sessions that PostgreSQL loses under their holder

ASSUME LogAssumption ==
  /\ MaxLost \in Nat /\ MaxSessions \in Nat
  /\ Torn \notin Positions /\ Torn # "done"

VARIABLES
  origin,     \* the position each checkpoint began at (sources/0/0)
  offsets,    \* offset log of each writer: planned end by batch number
  commits,    \* commit log of each writer
  sessions,   \* sessions lost so far
  calm        \* no more interruptions from now on

logVars == <<origin, offsets, commits>>
liveVars == <<vars, logVars, sessions, calm>>

NoSuspect == {}
EmptyLog == [n \in {} |-> Torn]

\* The batch that is planned or was the last to be, and the one after it.
Following(log) == IF DOMAIN log = {} THEN 0 ELSE Max(DOMAIN log) + 1
Newest(log) == Following(log) - 1

WithFile(log, n, x) == [m \in DOMAIN log \union {n} |-> IF m = n THEN x ELSE log[m]]

IsTorn(log, n) == n \in DOMAIN log /\ log[n] = Torn

\* Spark reads the newest file of each log when a query starts.
Legible(w) ==
  ~IsTorn(offsets[w], Newest(offsets[w])) /\ ~IsTorn(commits[w], Newest(commits[w]))

\* The position that a query resumes from: the planned range of the newest
\* offset entry, or its end when that batch has its commit entry.
ReadEnd(o, w) == IF DOMAIN o = {} THEN origin[w] ELSE o[Newest(o)]
ReadStart(o, c, w) ==
  IF Newest(o) \in DOMAIN c THEN ReadEnd(o, w)
  ELSE IF Newest(o) - 1 \in DOMAIN o THEN o[Newest(o) - 1] ELSE origin[w]

-----------------------------------------------------------------------------
LiveInit ==
  /\ Init /\ sessions = 0 /\ calm = FALSE
  /\ origin = [w \in Writers |-> [p \in Partitions |-> 0]]
  /\ offsets = [w \in Writers |-> EmptyLog]
  /\ commits = [w \in Writers |-> EmptyLog]

CalmDown ==
  /\ ~calm
  /\ calm' = TRUE
  /\ UNCHANGED <<vars, logVars, sessions>>

-----------------------------------------------------------------------------
(* The trigger loop and its logs *)

StartQuery(w) ==
  /\ Start(w)
  /\ phase[w] = "down" => Legible(w)
  /\ origin' = [origin EXCEPT ![w] = IF phase[w] = "fresh" THEN logLow ELSE @]
  /\ UNCHANGED <<offsets, commits>>

PlanBatch(w) ==
  /\ Plan(w)
  /\ offsets' = [offsets EXCEPT ![w] = WithFile(@, Following(@), end'[w])]
  /\ UNCHANGED <<origin, commits>>

\* Spark refuses to replace an entry of the commit log.
CommitBatch(w) ==
  /\ Newest(offsets[w]) \notin DOMAIN commits[w]
  /\ CommitCheckpoint(w)
  /\ commits' = [commits EXCEPT ![w] = WithFile(@, Newest(offsets[w]), "done")]
  /\ UNCHANGED <<origin, offsets>>

Running(w) ==
  /\ \/ StartQuery(w) \/ PlanBatch(w) \/ CommitBatch(w)
     \/ ProcessBatch(w) /\ UNCHANGED logVars
  /\ UNCHANGED <<sessions, calm>>

-----------------------------------------------------------------------------
(* Interruptions *)

\* The files in the order they are written; a batch's offsets precede its commit.
OffsetRank(n) == 2 * n
CommitRank(n) == 2 * n + 1
LastRank(o, c) == Max({OffsetRank(Newest(o)), CommitRank(Newest(c))})

SpoilFrom(log, Rank(_), r) == [n \in DOMAIN log |-> IF Rank(n) >= r THEN Torn ELSE log[n]]

\* The logs with the file that is being written, if there is one.
OffsetsBegun(w) ==
  IF phase[w] = "idle" /\ start[w] = end[w]
    THEN WithFile(offsets[w], Following(offsets[w]), Torn) ELSE offsets[w]
CommitsBegun(w) ==
  IF phase[w] = "done" THEN WithFile(commits[w], Newest(offsets[w]), Torn) ELSE commits[w]

\* A crash or a shutdown: the file that is being written may be incomplete, and
\* so may be files before it.
Shutdown(w) ==
  /\ Crash(w)
  /\ \/ UNCHANGED <<offsets, commits>>
     \/ \E lost \in 0 .. MaxLost :
          LET r == LastRank(OffsetsBegun(w), CommitsBegun(w)) + 1 - lost IN
          /\ offsets' = [offsets EXCEPT ![w] = SpoilFrom(OffsetsBegun(w), OffsetRank, r)]
          /\ commits' = [commits EXCEPT ![w] = SpoilFrom(CommitsBegun(w), CommitRank, r)]
  /\ UNCHANGED origin

LoseCheckpoint(w) ==
  /\ RecreateCheckpoint(w)
  /\ offsets' = [offsets EXCEPT ![w] = EmptyLog]
  /\ commits' = [commits EXCEPT ![w] = EmptyLog]
  /\ UNCHANGED origin

EndSession ==
  /\ sessions < MaxSessions
  /\ sessions' = sessions + 1
  /\ LoseSession
  /\ UNCHANGED logVars

Interrupted ==
  /\ ~calm
  /\ \/ EndSession
     \/ /\ \E w \in Writers : Shutdown(w) \/ LoseCheckpoint(w)
        /\ UNCHANGED sessions
  /\ UNCHANGED calm

-----------------------------------------------------------------------------
(* repair --apply, with the workers stopped *)

TornFiles(log) == {n \in DOMAIN log : log[n] = Torn}

\* Wrong variant: one file too many.
InvalidSuffix_OneMore(log) ==
  {n \in DOMAIN log : \E m \in TornFiles(log) : n >= m - 1}

\* invalid_suffix: from the first incomplete file on.
InvalidSuffix(log) == {n \in DOMAIN log : \E m \in TornFiles(log) : n >= m}

\* A complete file behind an incomplete one is refused, before anything is moved.
Refused(log) == \E m \in TornFiles(log), n \in DOMAIN log \ TornFiles(log) : n > m

Moved(log) == Restrict(log, DOMAIN log \ {Min(InvalidSuffix(log))})

\* Files are moved in the order of the plan: the offset log's, then the commit
\* log's. The script may stop between two files; the next one goes on.
Repair(w) ==
  LET o == IF InvalidSuffix(offsets[w]) # {} THEN Moved(offsets[w]) ELSE offsets[w]
      c == IF InvalidSuffix(offsets[w]) = {} THEN Moved(commits[w]) ELSE commits[w]
  IN  /\ phase[w] = "down"
      /\ InvalidSuffix(offsets[w]) \union InvalidSuffix(commits[w]) # {}
      /\ ~Refused(offsets[w]) /\ ~Refused(commits[w])
      /\ offsets' = [offsets EXCEPT ![w] = o]
      /\ commits' = [commits EXCEPT ![w] = c]
      /\ IF InvalidSuffix(o) \union InvalidSuffix(c) = {}
           THEN /\ start' = [start EXCEPT ![w] = ReadStart(o, c, w)]
                /\ end' = [end EXCEPT ![w] = ReadEnd(o, w)]
           ELSE UNCHANGED sparkVars
      /\ UNCHANGED <<origin, sessions, calm, kafkaVars, phase, lock, dbVars, storeVars, workVars>>

-----------------------------------------------------------------------------
LiveNext ==
  \/ CalmDown
  \/ Interrupted
  \/ Surroundings /\ UNCHANGED <<logVars, sessions, calm>>
  \/ \E w \in Writers : Running(w) \/ Repair(w)

\* The processing-time trigger and Docker's restart policy keep every writer
\* going, and the operator repairs a checkpoint that does not start. Nothing
\* obliges Kafka to receive rows or the clock to move.
Fairness == \A w \in Writers : WF_liveVars(Running(w)) /\ WF_liveVars(Repair(w))

LiveSpec == LiveInit /\ [][LiveNext]_liveVars /\ Fairness

-----------------------------------------------------------------------------
(* Properties *)

\* Once interruptions end, the ledger catches up with Kafka: every row received
\* until then and later is accounted for, wherever the last shutdown left ledger,
\* store and checkpoints, and although a writer may have lost its lock while it
\* worked (raw_job.py, repair_spark_checkpoints.py).
EventuallyArchived ==
  \A p \in Partitions :
    calm ~> (\A o \in Offsets : o < logEnd[p] => o \in Covered(p))

\* A checkpoint that Spark can read, repaired or not, makes the query resume at
\* the position RawArchive relies on, and no commit entry stands without the
\* plan of its batch, where it would refuse the batch that is planned anew
\* (repair_spark_checkpoints.py:61).
ResumesInPlace ==
  \A w \in Writers :
    phase[w] # "fresh" /\ Legible(w) =>
      /\ end[w] = ReadEnd(offsets[w], w)
      /\ start[w] = ReadStart(offsets[w], commits[w], w)
      /\ DOMAIN commits[w] \subseteq DOMAIN offsets[w]

-----------------------------------------------------------------------------
(* The inductive invariant behind ResumesInPlace *)

Whole(log) == DOMAIN log \ TornFiles(log)

\* The complete files of a log are its first ones. The incomplete ones that are
\* left follow one after the other, perhaps behind some that were moved away.
Orderly(log) ==
  /\ Following(log) \in Nat
  /\ \E n, t \in 0 .. Following(log) :
       /\ n <= t
       /\ Whole(log) = 0 .. n - 1
       /\ TornFiles(log) = t .. Following(log) - 1

\* A commit entry has its plan, and a plan follows a batch that is done.
Paired(w) ==
  /\ Whole(commits[w]) \subseteq Whole(offsets[w])
  /\ \A n \in Whole(offsets[w]) : n = 0 \/ n - 1 \in Whole(commits[w])

Upto(l, h) == \A p \in Partitions : l[p] <= h[p]
Before(w, n) == IF n = 0 THEN origin[w] ELSE offsets[w][n - 1]

\* Plans go forward from the position the checkpoint began at.
Ascending(w) ==
  \A n \in Whole(offsets[w]) :
    /\ offsets[w][n] \in Positions /\ offsets[w][n] # Before(w, n)
    /\ Upto(origin[w], offsets[w][n])
    /\ \A m \in Whole(offsets[w]) : m < n => Upto(offsets[w][m], offsets[w][n])

\* Where a repair can set a checkpoint back to, it has been.
NotAhead(w) ==
  phase[w] # "fresh" =>
    /\ Upto(origin[w], start[w])
    /\ \A n \in Whole(commits[w]) : Upto(offsets[w][n], start[w])

\* A query that runs has read its logs, and a batch in process_batch has rows.
RunsLegible(w) ==
  /\ phase[w] # "down" => TornFiles(offsets[w]) = {} /\ TornFiles(commits[w]) = {}
  /\ phase[w] = "fresh" => DOMAIN offsets[w] = {} /\ DOMAIN commits[w] = {}
  /\ phase[w] \in Busy \union {"done"} => start[w] # end[w]

LogOK(w) ==
  /\ Orderly(offsets[w]) /\ Orderly(commits[w])
  /\ Paired(w) /\ Ascending(w) /\ NotAhead(w) /\ RunsLegible(w)

LogTypeOK ==
  /\ origin \in [Writers -> Positions] /\ sessions \in 0 .. MaxSessions
  /\ DOMAIN offsets = Writers /\ DOMAIN commits = Writers

\* Also says what is left of RawArchive's invariants when sessions are lost.
RepairInv ==
  /\ DataOK /\ SessionInv
  /\ LogTypeOK /\ \A w \in Writers : LogOK(w)
  /\ ResumesInPlace

\* As long as no session has been lost, RawArchive's invariants hold beside
\* shutdowns that spoil the logs and repairs that set checkpoints back.
SessionsHeld == sessions = 0
HeldInv == SessionsHeld => OffsetInv /\ FilesInv /\ NoRowTwice

LiveInv == RepairInv /\ HeldInv
=============================================================================
