---------------------------- MODULE ServingMerge ----------------------------
(***************************************************************************)
(* The speed layer, src/streaming/speed_job.py and staged_sink.py.         *)
(*                                                                         *)
(* Two Spark queries read the topic from checkpoints of their own:         *)
(*   - the serving query dead-letters the rows validation rejects, stages  *)
(*     the others under a fresh run id and merges them into the serving    *)
(*     tables in one transaction (merge_staged);                           *)
(*   - the metrics query counts each event identity once per one-minute    *)
(*     window and upserts the windows its batch touched.                   *)
(* An event identity or a trip that turns out to be contested is taken out *)
(* of the serving tables again, and the windows it was counted in are      *)
(* recomputed and closed to the metrics query.                             *)
(*                                                                         *)
(* The serving query can stop between any two of its steps and repeats its *)
(* planned range; its checkpoint can be recreated.  Rows staged by a lost  *)
(* attempt carry a run id nobody reads again, so a crash empties stage.    *)
(* A restart of the metrics query repeats writes it has already made with  *)
(* the same values, which is a stuttering step here.                       *)
(*                                                                         *)
(* stream_conflicts has the key (batch_id, event_id, reason); rows with an *)
(* equal key are equal but for the key, so it is a set of such rows here.  *)
(***************************************************************************)
EXTENDS Integers, Sequences, FiniteSets

CONSTANTS
  Partitions,   \* partitions of the topic trip-events
  Events,       \* payloads the producers send
  Early,        \* payloads whose timestamp the simulated clock has yet to reach
  Vehicles,
  Home,         \* partition of each vehicle's key
  NoTrip,       \* the trip_id of an event that belongs to no trip
  Prior,        \* the event_id of a prior_trip_conflict row ('prior:...')
  NoRow,        \* no row of rt_vehicle_state for the vehicle
  NoTime,       \* idle_since IS NULL
  MaxRows,      \* bound: rows per partition
  Minute,       \* length of a window
  Day,          \* length of a date
  Delay,        \* watermark delay
  IdleAlert     \* IDLE_ALERT_MINUTES

Fields == {"id", "trip", "vehicle", "zone", "status", "ts", "fare", "done", "rest"}

\* Validated events: "rest" stands for the driver, the position and the trace,
\* which take part in the fingerprint only. A completion names its trip.
ASSUME EventsAssumption ==
  \A e \in Events :
    /\ DOMAIN e = Fields
    /\ e.id \in Nat /\ e.ts \in Nat /\ e.vehicle \in Vehicles
    /\ e.status \in {"idle", "enroute", "on_trip"}
    /\ e.done \in BOOLEAN /\ (e.done => e.trip # NoTrip)
ASSUME ServingAssumption ==
  /\ Early \subseteq Events /\ IsFiniteSet(Partitions)
  /\ Home \in [Vehicles -> Partitions]
  /\ Prior \notin Nat /\ NoTime \notin Nat
  /\ MaxRows \in Nat /\ Minute \in Nat \ {0} /\ Day \in Nat \ {0} /\ Delay \in Nat /\ IdleAlert \in Nat

VARIABLES
  topic,      \* rows of each partition
  reached,    \* has the clock reached the early payloads?
  phase,      \* where the serving query is in its batch
  start,      \* committed position of the serving query
  end,        \* end of its planned batch; = start when nothing is planned
  stage,      \* stream_serving_stage: rows of the running batch
  dead,       \* payloads of stream_dead_letters
  merged,     \* history: rows of the batches whose merge was committed
  keys,       \* stream_event_keys
  conflicts,  \* stream_conflicts
  contrib,    \* rt_zone_metric_events
  completed,  \* completed_trips
  state,      \* rt_vehicle_state
  alerted,    \* vehicles with an open row of rt_alerts
  metrics,    \* rt_zone_metrics: the events behind each window's numbers
  corrected,  \* windows with authoritative_corrected
  read,       \* position of the metrics query
  watermark,  \* its event time watermark
  counted,    \* events in its state store
  emit        \* windows its batch has yet to upsert

kafkaVars == <<topic, reached>>
positionVars == <<start, end>>
tableVars == <<merged, keys, conflicts, contrib, completed, state, alerted>>
windowVars == <<metrics, corrected>>
queryVars == <<read, watermark, counted, emit>>
vars == <<kafkaVars, phase, positionVars, stage, dead, tableVars, windowVars, queryVars>>

-----------------------------------------------------------------------------
(* Events and rows *)

Window(e) == <<e.ts \div Minute, e.zone>>
Windows == {Window(e) : e \in Events}
Signature(e) == <<e.vehicle, e.fare, e.ts, e.zone>>
CompletionRow(e) == [trip |-> e.trip, signature |-> Signature(e)]
DateOf(t) == t \div Day
ConflictRow(i, t, v, time) == [id |-> i, trip |-> t, vehicle |-> v, dt |-> DateOf(time)]

\* The order (event_ts, event_id).
Newer(e, f) == e.ts > f.ts \/ (e.ts = f.ts /\ e.id > f.id)
Newest(S) == CHOOSE e \in S : \A f \in S : ~Newer(f, e)

\* SQL's min and LEAST: NULL for no value.
Earliest(T) == IF T = {} THEN NoTime ELSE CHOOSE t \in T : \A u \in T : t <= u
LastTime(S) == CHOOSE t \in {e.ts : e \in S} : \A e \in S : e.ts <= t

EventsAt(R) == {topic[r[1]][r[2]] : r \in R}

\* Rows after position l up to position h of each partition.
RowsBetween(l, h) ==
  {r \in Partitions \X (1 .. MaxRows) : l[r[1]] < r[2] /\ r[2] <= h[r[1]]}

Origin == [p \in Partitions |-> 0]

\* Positions a batch that starts at l may be planned to end at.
Ends(l) ==
  {h \in [Partitions -> 0 .. MaxRows] :
     h # l /\ \A p \in Partitions : l[p] <= h[p] /\ h[p] <= Len(topic[p])}

Accepts(e) == e \notin Early \/ reached

-----------------------------------------------------------------------------
(* merge_staged: what one staged batch does to the serving tables *)

Staged == EventsAt(stage)
Trips == {e.trip : e \in Events} \ {NoTrip}

\* Wrong variants, here and below, replace the definition they are named after
\* to show that the properties notice.  Here: only this batch is compared.
ConflictIds_ThisBatch ==
  {e.id : e \in {x \in Staged : \E f \in Staged : f.id = x.id /\ f # x}}

\* Identities seen with another payload, or quarantined before.
ConflictIds ==
  {e.id : e \in {x \in Staged :
     \/ \E f \in Staged \union keys : f.id = x.id /\ f # x
     \/ \E c \in conflicts : c.id = x.id}}

\* Completions of trip t, staged or accepted before.
CompletionsOf(t) ==
  {c \in completed \union {CompletionRow(e) : e \in {x \in Staged : x.done}} : c.trip = t}

\* Wrong variant: trips quarantined earlier are not looked up.
BadTrips_NoHistory ==
  {t \in Trips :
     \/ \E e \in Staged, c \in CompletionsOf(t) :
          e.trip = t /\ e.done /\ c.signature # Signature(e)
     \/ \E e \in Staged \union keys : e.trip = t /\ e.id \in ConflictIds}

BadTrips ==
  {t \in Trips :
     \/ \E e \in Staged, c \in CompletionsOf(t) :
          e.trip = t /\ e.done /\ c.signature # Signature(e)
     \/ \E e \in Staged \union keys : e.trip = t /\ e.id \in ConflictIds
     \/ \E e \in Staged, c \in conflicts : e.trip = t /\ c.trip = t}

Discredited(e) == e.id \in ConflictIds \/ e.trip \in BadTrips

StagedConflicts ==
  {ConflictRow(e.id, e.trip, e.vehicle, e.ts) : e \in {x \in Staged : Discredited(x)}}

\* Wrong variant: what was accepted before is not recorded as contested.
NewConflicts_StagedOnly == StagedConflicts

NewConflicts ==
  StagedConflicts
  \union {ConflictRow(k.id, k.trip, k.vehicle, k.ts) : k \in {x \in keys : x.id \in ConflictIds}}
  \union {ConflictRow(Prior, c.trip, c.signature[1], c.signature[3]) :
            c \in {x \in completed : x.trip \in BadTrips}}

AffectedWindows == {Window(e) : e \in {x \in contrib \union Staged : Discredited(x)}}

\* Wrong variant: contested rows are recorded but not left out.
AcceptedEvents_NotFiltered == {e \in Staged : ~\E k \in keys : k.id = e.id}

\* DISTINCT ON (event_id): without conflicts an identity has one payload.
AcceptedEvents ==
  {e \in Staged : ~Discredited(e) /\ ~\E k \in keys : k.id = e.id}

NewContrib ==
  LET left == {e \in contrib : ~Discredited(e)}
  IN  left \union {e \in AcceptedEvents : \A f \in left : f.id # e.id}

NewCompleted ==
  LET left == {c \in completed : c.trip \notin BadTrips}
  IN  left \union {CompletionRow(e) : e \in
                    {x \in AcceptedEvents : x.done /\ \A c \in left : c.trip # x.trip}}

\* Wrong variant: only the contested identities are removed, not their trips.
Displayed_IdsOnly(v) ==
  IF state[v] # NoRow /\ state[v].event.id \in ConflictIds THEN NoRow ELSE state[v]

\* rt_vehicle_state without the rows that show a discredited observation.
Displayed(v) ==
  IF state[v] # NoRow /\ ( \/ state[v].event.id \in ConflictIds
                           \/ \E k \in keys : k.id = state[v].event.id /\ k.trip \in BadTrips)
    THEN NoRow ELSE state[v]

\* stage_state_candidates: the newest accepted event of each vehicle, and since
\* when the vehicle has been idle.
Observed(v) == {e \in AcceptedEvents : e.vehicle = v}

IdleSince(v) ==
  LET idle == {e.ts : e \in {x \in Observed(v) : x.status = "idle"}}
      busy == {e.ts : e \in {x \in Observed(v) : x.status # "idle"}}
      old == Displayed(v)
  IN  IF Newest(Observed(v)).status # "idle" THEN NoTime
      ELSE IF busy = {} /\ old # NoRow /\ old.event.status = "idle"
        THEN Earliest((idle \union {old.since}) \ {NoTime})
        ELSE Earliest({t \in idle : \A b \in busy : t > b})

Candidate(v) == [event |-> Newest(Observed(v)), since |-> IdleSince(v)]

\* Wrong variant: the upsert has no WHERE clause.
NewState_LastWins(v) == IF Observed(v) # {} THEN Candidate(v) ELSE Displayed(v)

NewState(v) ==
  IF Observed(v) # {}
     /\ (Displayed(v) = NoRow \/ Newer(Newest(Observed(v)), Displayed(v).event))
    THEN Candidate(v) ELSE Displayed(v)

\* Vehicles whose candidate has been idle for long at the batch's newest event.
Overdue ==
  {v \in Vehicles : Observed(v) # {} /\ Candidate(v).since # NoTime
     /\ LastTime(AcceptedEvents) - Candidate(v).since >= IdleAlert}

Moving == {v \in Vehicles : Observed(v) # {} /\ Candidate(v).event.status # "idle"}

-----------------------------------------------------------------------------
Init ==
  /\ topic = [p \in Partitions |-> <<>>] /\ reached = FALSE
  /\ phase = "idle" /\ start = Origin /\ end = Origin /\ stage = {}
  /\ dead = {} /\ merged = {}
  /\ keys = {} /\ conflicts = {} /\ contrib = {} /\ completed = {}
  /\ state = [v \in Vehicles |-> NoRow] /\ alerted = {}
  /\ metrics = [w \in Windows |-> {}] /\ corrected = {}
  /\ read = Origin /\ watermark = 0 /\ counted = {} /\ emit = {}

(* The surroundings *)

Produce(e) ==
  LET p == Home[e.vehicle] IN
  /\ Len(topic[p]) < MaxRows
  /\ topic' = [topic EXCEPT ![p] = Append(@, e)]
  /\ UNCHANGED <<reached, phase, positionVars, stage, dead, tableVars, windowVars, queryVars>>

ClockReaches ==
  /\ ~reached
  /\ reached' = TRUE
  /\ UNCHANGED <<topic, phase, positionVars, stage, dead, tableVars, windowVars, queryVars>>

-----------------------------------------------------------------------------
(* The serving query *)

Plan ==
  /\ phase = "idle" /\ start = end
  /\ end' \in Ends(start)
  /\ UNCHANGED <<kafkaVars, phase, start, stage, dead, tableVars, windowVars, queryVars>>

Batch == RowsBetween(start, end)
Rejected == {r \in Batch : ~Accepts(topic[r[1]][r[2]])}

\* The rows rejected in each partition are written in one transaction.
\* dead_letter_send swallows errors, and the first aborts the transaction: letters
\* are written for the partitions of P only, for whatever P, and nobody is told.
SendDeadLetters ==
  \E P \in SUBSET Partitions :
    dead' = dead \union EventsAt({r \in Rejected : r[1] \in P})

\* process_serving_batch up to the merge.
StageBatch ==
  /\ phase = "idle" /\ start # end
  /\ phase' = "staged"
  /\ SendDeadLetters
  /\ stage' = Batch \ Rejected
  /\ UNCHANGED <<kafkaVars, positionVars, tableVars, windowVars, queryVars>>

\* The process stops after the letters of some partitions, and is restarted.
StageFails ==
  /\ phase = "idle" /\ start # end
  /\ SendDeadLetters
  /\ UNCHANGED <<kafkaVars, phase, positionVars, stage, tableVars, windowVars, queryVars>>

Merge ==
  /\ phase = "staged"
  /\ phase' = "merged"
  /\ merged' = merged \union stage
  /\ conflicts' = conflicts \union NewConflicts
  /\ contrib' = NewContrib
  /\ metrics' = [w \in Windows |->
       IF w \in AffectedWindows THEN {e \in NewContrib : Window(e) = w} ELSE metrics[w]]
  /\ corrected' = corrected \union AffectedWindows
  /\ state' = [v \in Vehicles |-> NewState(v)]
  /\ completed' = NewCompleted
  /\ keys' = keys \union AcceptedEvents
  /\ alerted' = (alerted \union Overdue) \ Moving
  /\ stage' = {}
  /\ UNCHANGED <<kafkaVars, positionVars, dead, queryVars>>

\* Wrong variant: the checkpoint is committed first.
CommitCheckpoint_BeforeMerge ==
  /\ phase = "staged"
  /\ start' = end
  /\ UNCHANGED <<kafkaVars, phase, end, stage, dead, tableVars, windowVars, queryVars>>

CommitCheckpoint ==
  /\ phase = "merged"
  /\ phase' = "idle"
  /\ start' = end
  /\ UNCHANGED <<kafkaVars, end, stage, dead, tableVars, windowVars, queryVars>>

\* Docker restarts the process, which finds its planned range again.
Crash ==
  /\ phase # "idle"
  /\ phase' = "idle"
  /\ stage' = {}
  /\ UNCHANGED <<kafkaVars, positionVars, dead, tableVars, windowVars, queryVars>>

\* A restart with an empty checkpoint directory: startingOffsets = earliest.
RecreateCheckpoint ==
  /\ phase = "idle"
  /\ start' = Origin /\ end' = Origin
  /\ UNCHANGED <<kafkaVars, phase, stage, dead, tableVars, windowVars, queryVars>>

-----------------------------------------------------------------------------
(* The metrics query *)

Late(e) == e.ts < watermark

\* dropDuplicatesWithinWatermark still holds the identity.
Remembered(e) == \E c \in counted : c.id = e.id /\ c.ts + Delay >= watermark

\* One batch of Spark: the events of F are counted, the rest of B are dropped.
MetricsBatch ==
  /\ emit = {}
  /\ \E h \in Ends(read) :
       LET B == {e \in EventsAt(RowsBetween(read, h)) : Accepts(e)}
           fresh == {e \in B : ~Late(e) /\ ~Remembered(e)}
       IN  /\ \E F \in SUBSET fresh :
                /\ \A e \in fresh : Cardinality({f \in F : f.id = e.id}) = 1
                /\ counted' = counted \union F
                /\ emit' = {Window(e) : e \in F}
           /\ watermark' = IF B = {} \/ LastTime(B) - Delay < watermark
                             THEN watermark ELSE LastTime(B) - Delay
           /\ read' = h
  /\ UNCHANGED <<kafkaVars, phase, positionVars, stage, dead, tableVars, windowVars>>

\* Wrong variant: the upsert has no WHERE clause.
MetricsWrite_Always(w) ==
  /\ w \in emit
  /\ emit' = emit \ {w}
  /\ metrics' = [metrics EXCEPT ![w] = {e \in counted : Window(e) = w}]
  /\ UNCHANGED <<kafkaVars, phase, positionVars, stage, dead, tableVars, corrected,
                 read, watermark, counted>>

\* metrics_partition: a corrected window is left alone.
MetricsWrite(w) ==
  /\ w \in emit
  /\ emit' = emit \ {w}
  /\ metrics' = IF w \in corrected THEN metrics
                ELSE [metrics EXCEPT ![w] = {e \in counted : Window(e) = w}]
  /\ UNCHANGED <<kafkaVars, phase, positionVars, stage, dead, tableVars, corrected,
                 read, watermark, counted>>

-----------------------------------------------------------------------------
Surroundings == ClockReaches \/ \E e \in Events : Produce(e)

ServingQuery ==
  \/ Plan \/ StageBatch \/ StageFails \/ Merge \/ CommitCheckpoint
  \/ Crash \/ RecreateCheckpoint

MetricsQuery == MetricsBatch \/ \E w \in Windows : MetricsWrite(w)

Next == Surroundings \/ ServingQuery \/ MetricsQuery

Spec == Init /\ [][Next]_vars

\* The serving query alone: the metrics query changes rt_zone_metrics only.
ServingSpec == Init /\ [][Surroundings \/ ServingQuery]_vars

-----------------------------------------------------------------------------
(* Properties *)

Positions == [Partitions -> 0 .. MaxRows]
Rows == Partitions \X (1 .. MaxRows)

\* Type correctness, with the primary keys of the tables.
TypeOK ==
  /\ topic \in [Partitions -> Seq(Events)] /\ reached \in BOOLEAN
  /\ phase \in {"idle", "staged", "merged"}
  /\ start \in Positions /\ end \in Positions /\ read \in Positions
  /\ stage \subseteq Rows /\ dead \subseteq Events /\ merged \subseteq Rows
  /\ keys \subseteq Events /\ contrib \subseteq Events /\ counted \subseteq Events
  /\ \A e, f \in keys : e.id = f.id => e = f
  /\ \A e, f \in contrib : e.id = f.id => e = f
  /\ conflicts \subseteq [id : {e.id : e \in Events} \union {Prior}, trip : Trips \union {NoTrip},
                          vehicle : Vehicles, dt : {DateOf(e.ts) : e \in Events}]
  /\ completed \subseteq {CompletionRow(e) : e \in Events}
  /\ \A c, d \in completed : c.trip = d.trip => c = d
  /\ state \in [Vehicles -> {NoRow} \union
                  [event : Events, since : {e.ts : e \in Events} \union {NoTime}]]
  /\ alerted \subseteq Vehicles
  /\ metrics \in [Windows -> SUBSET Events]
  /\ corrected \subseteq Windows /\ emit \subseteq Windows
  /\ watermark \in Int

(* What the serving tables should hold, from the merged rows alone. *)

Served == EventsAt(merged)

ContestedIds == {e.id : e \in {x \in Served : \E f \in Served : f.id = x.id /\ f # x}}

ContestedTrips ==
  {t \in Trips :
     \/ \E e, f \in Served : /\ e.done /\ f.done /\ e.trip = t /\ f.trip = t
                             /\ Signature(e) # Signature(f)
     \/ \E e \in Served : e.trip = t /\ e.id \in ContestedIds}

Contested(e) == e.id \in ContestedIds \/ e.trip \in ContestedTrips
Uncontested == {e \in Served : ~Contested(e)}

\* However the rows were cut into batches, replayed or reordered across
\* partitions, rt_zone_metric_events holds exactly the uncontested events and
\* completed_trips exactly the uncontested completions (merge_staged).
TablesMatchReference ==
  /\ contrib = Uncontested
  /\ completed = {CompletionRow(e) : e \in {x \in Uncontested : x.done}}

\* No window goes on showing a discredited event: every window a contested event
\* falls in is corrected, and corrected windows count uncontested events only,
\* whatever the metrics query upserts before or after.
NoDiscreditedWindow ==
  /\ \A e \in Served : Contested(e) => Window(e) \in corrected
  /\ \A w \in corrected : metrics[w] \subseteq Uncontested

\* rt_vehicle_state never shows an observation that has been discredited.
StateUncontested ==
  \A v \in Vehicles : state[v] # NoRow =>
    state[v].event \in Uncontested /\ state[v].event.vehicle = v

\* A late or replayed batch never takes a vehicle back to an older observation,
\* unless the one it showed has been discredited.
StateNeverRegresses ==
  [][\A v \in Vehicles :
       state[v] # NoRow /\ state'[v] # NoRow /\ Newer(state[v].event, state'[v].event)
         => state[v].event \notin Uncontested']_vars

MayBeRejected(r) == topic[r[1]][r[2]] \in Early

\* No row is skipped but those that validation may reject, whatever crashes came
\* between staging, merge and checkpoint, and wherever recreated checkpoints begin
\* again.  That a rejected row has its letter is not promised: sink.py:27-42.
EveryRowHandled ==
  \A r \in RowsBetween(Origin, start) : r \in merged \/ MayBeRejected(r)

\* As documented: windows are backed by the per-event contributions, so that a
\* corrected window, too, shows all of them once both queries have caught up
\* (docs/FINAL_SCOPE.md:29).
CorrectedWindowsComplete ==
  /\ phase = "idle" /\ emit = {}
  /\ \A p \in Partitions : start[p] = Len(topic[p]) /\ read[p] = Len(topic[p])
  => \A w \in corrected : {e \in contrib : Window(e) = w} \subseteq metrics[w]

\* As documented: a vehicle that is idle for longer than the threshold has an
\* open alert (config/settings.yaml:64).
LongIdleAlerted ==
  \A v \in Vehicles :
    /\ state[v] # NoRow
    /\ state[v].since # NoTime
    /\ state[v].event.ts - state[v].since >= IdleAlert
    => v \in alerted

-----------------------------------------------------------------------------
(* Why the tables match: MergeInv is inductive. What a batch may ask about the *)
(* past is answered by keys and conflicts, although they do not hold each row. *)

Listed(i) == \E c \in conflicts : c.id = i
TripListed(t) == \E c \in conflicts : c.trip = t

KeysServed == keys \subseteq Served /\ \A e, f \in keys : e.id = f.id => e = f

\* An identity that was merged is remembered, accepted or not.
EventsKnown == \A e \in Served : (\E k \in keys : k.id = e.id) \/ Listed(e.id)

\* Only what is contested is listed ...
ConflictsSound ==
  \A c \in conflicts :
    /\ c.id # Prior => \E e \in Served : e.id = c.id /\ Contested(e)
    /\ c.trip \in Trips => c.trip \in ContestedTrips

\* ... and all of it.
ConflictsComplete ==
  /\ \A i \in ContestedIds : Listed(i)
  /\ \A t \in ContestedTrips : TripListed(t)

\* The row of stream_conflicts that names a payload itself.
RowOf(e) == ConflictRow(e.id, e.trip, e.vehicle, e.ts)

\* What is contested is listed under the date and the vehicle of each payload, so
\* that a report of one date meets it.
ConflictsDated ==
  /\ \A e \in Served : e \in keys \/ RowOf(e) \in conflicts
  /\ \A e \in Served : e.id \in ContestedIds => RowOf(e) \in conflicts
  /\ \A e \in Served : e.done /\ e.trip \in ContestedTrips =>
       RowOf(e) \in conflicts \/ ConflictRow(Prior, e.trip, e.vehicle, e.ts) \in conflicts

MergeInv ==
  /\ KeysServed /\ EventsKnown /\ ConflictsSound /\ ConflictsComplete /\ ConflictsDated
  /\ Uncontested \subseteq keys
  /\ TablesMatchReference
=============================================================================
