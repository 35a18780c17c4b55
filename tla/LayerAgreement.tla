--------------------------- MODULE LayerAgreement ---------------------------
(***************************************************************************)
(* The two layers of the platform over the same topic: the serving tables  *)
(* (ServingMerge) and the daily aggregation of the archive,                *)
(* src/batch/spark_reconcile.py, as src/batch/reconcile.py calls it.       *)
(*                                                                         *)
(* RawArchive shows that the archive takes the rows of a partition in      *)
(* order and each once, at a pace of its own; whether a row is acceptable  *)
(* it decides by its own reading of the clock.  The aggregation of a date  *)
(* sees the archived rows of the date and the stream_conflicts rows of the *)
(* date, nothing else: what the serving layer knows from other dates must  *)
(* reach it through those.                                                 *)
(***************************************************************************)
EXTENDS ServingMerge, TelemetryCoverage

CONSTANT Step  \* simulated time between two events of a vehicle

\* The producer sends on its ticks, and some in every date.
ASSUME StepAssumption == Step \in 1 .. Day /\ \A e \in Events : e.ts % Step = 0

IsEarly(r) == topic[r[1]][r[2]] \in Early

\* What the archive may hold: the rows up to a position of its own, without the
\* early ones that it met before the clock reached them.
Archives ==
  UNION {{RowsBetween(Origin, h) \ X :
            X \in {Y \in SUBSET {r \in RowsBetween(Origin, h) : IsEarly(r)} :
                     reached \/ Y = {r \in RowsBetween(Origin, h) : IsEarly(r)}}} :
         h \in Ends(Origin)}

-----------------------------------------------------------------------------
(* aggregate(paths, ..., blocked_event_ids, blocked_trip_ids) of a date d   *)
(* from an archive A                                                        *)

Dates == {DateOf(e.ts) : e \in Events}

\* verified_paths: the files under dt=d.
Archived(A, d) == {e \in EventsAt(A) : DateOf(e.ts) = d}

Blocking(d) == {c \in conflicts : c.dt = d}

BadIds(A, d) ==
  {e.id : e \in {x \in Archived(A, d) : \E f \in Archived(A, d) : f.id = x.id /\ f # x}}
  \union ({c.id : c \in Blocking(d)} \ {Prior})

Clean(A, d) == {e \in Archived(A, d) : e.id \notin BadIds(A, d)}

Completed(A, d) == {e \in Clean(A, d) : e.done}

\* Wrong variant: contested trips are looked for in the archive only.
DisputedTrips_ArchiveOnly(A, d) ==
  {e.trip : e \in {x \in Completed(A, d) :
     \E f \in Completed(A, d) : f.trip = x.trip /\ Signature(f) # Signature(x)}}

DisputedTrips(A, d) ==
  {e.trip : e \in {x \in Completed(A, d) :
     \E f \in Completed(A, d) : f.trip = x.trip /\ Signature(f) # Signature(x)}}
  \union ({c.trip : c \in Blocking(d)} \ {NoTrip})

\* The trips behind the report's counts and revenue.
DailyTrips(A, d) ==
  {CompletionRow(e) : e \in {x \in Completed(A, d) : x.trip \notin DisputedTrips(A, d)}}

\* Vehicles whose row says conflicting_events and has no profit.
Conflicting(A, d) ==
  {e.vehicle : e \in {x \in Archived(A, d) : x.id \in BadIds(A, d)}}
  \union {e.vehicle : e \in {x \in Completed(A, d) : x.trip \in DisputedTrips(A, d)}}
  \union {c.vehicle : c \in Blocking(d)}

At(e) == [tick |-> e.ts \div Step, zone |-> e.zone]
Telemetry(A, d, v) == {At(e) : e \in {x \in Clean(A, d) : x.vehicle = v}}

\* Wrong variant: a contested vehicle may be complete.
ReconciliationStatus_NotBlocked(A, d, v) ==
  IF ~Complete(Step, Day, d, Telemetry(A, d, v)) THEN "incomplete_telemetry" ELSE "complete"

\* The costs of the vehicle are known.
ReconciliationStatus(A, d, v) ==
  IF v \in Conflicting(A, d) THEN "conflicting_events"
  ELSE IF ~Complete(Step, Day, d, Telemetry(A, d, v)) THEN "incomplete_telemetry"
  ELSE "complete"

-----------------------------------------------------------------------------
(* Properties *)

\* As soon as the serving layer has merged the rows that are archived, the trips
\* a report counts are exactly the archived completions that completed_trips
\* holds, although the report sees the rows and conflicts of one date only.
LayersAgree ==
  \A A \in Archives : A \subseteq merged =>
    \A d \in Dates :
      DailyTrips(A, d) =
        {CompletionRow(e) : e \in {x \in Archived(A, d) : x.done}} \intersect completed

\* A vehicle never gets a profit for a date on which one of its observations has
\* a contested identity or completes a contested trip (batch/reconcile.py:123).
ContestedFlagged ==
  \A A \in Archives : A \subseteq merged =>
    \A e \in EventsAt(A) :
      e.id \in ContestedIds \/ (e.done /\ e.trip \in ContestedTrips)
        => e.vehicle \in Conflicting(A, DateOf(e.ts))

\* A report gives a vehicle a profit only if the archive has an observation of it at
\* every tick of the date, and calls its telemetry incomplete only if it has not. An
\* observation whose identity a merged row contests, even one of another date, does
\* not count. The rule itself looks at no ticks but at the first and the last
\* observation, the gaps and the count (batch/spark_reconcile.py:107-110, 122-125).
ProfitNeedsEveryTick ==
  \A A \in Archives : A \subseteq merged =>
    \A d \in Dates, v \in Vehicles :
      LET SeenAt(k) == \E e \in EventsAt(A) :
                         e.vehicle = v /\ e.ts = k * Step /\ e.id \notin ContestedIds
          All == \A k \in Ticks(Step, Day, d) : SeenAt(k)
      IN OnePlace(Telemetry(A, d, v)) =>
           /\ ReconciliationStatus(A, d, v) = "complete" => All
           /\ ReconciliationStatus(A, d, v) = "incomplete_telemetry" => ~All
=============================================================================
