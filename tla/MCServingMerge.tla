--------------------------- MODULE MCServingMerge ---------------------------
(* Small instances of ServingMerge and LayerAgreement for TLC. *)
EXTENDS LayerAgreement, TLC

CONSTANTS v1, v2, t1, p1, p2

Event(i, t, v, s, time, cents, d) ==
  [id |-> i, trip |-> t, vehicle |-> v, zone |-> "zone", status |-> s,
   ts |-> time, fare |-> cents, done |-> d, rest |-> 0]

\* Identities 1 and 2 have several payloads, one of which takes the event out of
\* its trip and may be of another date; the trip has completions on two dates,
\* with different fares.
Ride == Event(2, t1, v1, "on_trip", 1, 0, FALSE)
NextRide == Event(2, t1, v1, "on_trip", 2, 0, FALSE)
RideAlone == Event(2, NoTrip, v1, "on_trip", 1, 0, FALSE)
Completion == Event(1, t1, v1, "idle", 3, 7, TRUE)
Restated == Event(1, t1, v2, "idle", 2, 7, TRUE)
OtherFare == Event(3, t1, v1, "idle", 1, 9, TRUE)
Cruise == Event(5, NoTrip, v1, "enroute", 0, 0, FALSE)

OneVehicle == {NextRide, RideAlone, Completion, OtherFare}
OneWindow == {Ride, RideAlone, Cruise}
TwoVehicles == {Ride, Completion, Restated}
LateFare == {OtherFare}
LateRestated == {Restated}
NoEvent == {}

\* One vehicle that is idle, for long or not, and late news of it moving.
Idling == {Event(1, NoTrip, v1, "idle", 1, 0, FALSE),
           Event(2, NoTrip, v1, "idle", 6, 0, FALSE),
           Event(3, NoTrip, v1, "enroute", 0, 0, FALSE)}

OnePartition == [v \in Vehicles |-> p1]
TwoPartitions == (v1 :> p1) @@ (v2 :> p2)
=============================================================================
