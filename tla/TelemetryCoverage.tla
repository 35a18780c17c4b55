------------------------- MODULE TelemetryCoverage -------------------------
(***************************************************************************)
(* When a vehicle's telemetry of a date counts as complete: the rule of    *)
(* src/batch/spark_reconcile.py against the ticks at which                 *)
(* src/simulators/producer_stream.py sends.                                *)
(*                                                                         *)
(* The producer sends at multiples of a step of simulated time.  It skips  *)
(* the ticks it is too slow or not running for, and sends a tick again     *)
(* that a restart interrupted.  The rule looks at the first and the last   *)
(* observation, the largest gap and the count, and not at the ticks.       *)
(*                                                                         *)
(* Time starts at 0 (SIM_START) and is counted in a unit that divides step *)
(* and day.  An observation is a tick and a zone; the same ones sent again *)
(* are one.  Events that the demonstration scenarios send between ticks    *)
(* are left out.                                                           *)
(***************************************************************************)
EXTENDS Integers, FiniteSets

Start(length, day) == day * length
End(length, day) == (day + 1) * length

\* The ticks of a date: the producer's clock.
Ticks(step, length, day) ==
  {k \in 0 .. End(length, day) : Start(length, day) <= k * step /\ k * step < End(length, day)}

Ceiling(n, step) == (n + step - 1) \div step

\* Wrong variant: one missing observation is tolerated.
ExpectedObservations_OneLess(step, length, day) ==
  Ceiling(End(length, day), step) - Ceiling(Start(length, day), step) - 1

\* expected_observations
ExpectedObservations(step, length, day) ==
  Ceiling(End(length, day), step) - Ceiling(Start(length, day), step)

Complete(step, length, day, obs) ==
  /\ \E o \in obs : o.tick * step - Start(length, day) <= step
  /\ \E o \in obs : End(length, day) - o.tick * step <= step
  /\ \A o, last \in obs :
       o.tick < last.tick =>
         \E next \in obs : o.tick < next.tick /\ 2 * (next.tick - o.tick) * step <= 3 * step
  /\ Cardinality(obs) >= ExpectedObservations(step, length, day)

Seen(obs) == {o.tick : o \in obs}

\* A vehicle is in one place at a tick: the producer's zones are fixed.
OnePlace(obs) == \A o, q \in obs : o.tick = q.tick => o = q

Observation(step, length, day, Zones) == [tick : Ticks(step, length, day), zone : Zones]

-----------------------------------------------------------------------------
(* What the rule promises; TelemetryCoverageProofs proves both for every step, *)
(* length of a day and date                                                    *)

\* Telemetry is complete exactly if no tick of the date is missing, although the
\* rule never looks at the ticks and a date need not begin with one
\* (spark_reconcile.py:107-110).
ExactFor(step, length, day, Zones) ==
  \A obs \in SUBSET Observation(step, length, day, Zones) :
    OnePlace(obs) =>
      (Complete(step, length, day, obs) <=> Seen(obs) = Ticks(step, length, day))

\* A vehicle reported in two places at a tick can make up for one missing tick,
\* that of midnight, and for no other.
MaskedFor(step, length, day, Zones) ==
  \A obs \in SUBSET Observation(step, length, day, Zones) :
    Complete(step, length, day, obs) =>
      \A k \in Ticks(step, length, day) \ Seen(obs) : k * step = Start(length, day)
=============================================================================
