----------------------- MODULE LayerAgreementProofs -----------------------
(***************************************************************************)
(* The rule of daily telemetry for every step, length of a day and date;   *)
(* and from it, and the serving tables' invariant, that a daily report and *)
(* those tables agree, for any archive that is not ahead of them.          *)
(***************************************************************************)
EXTENDS LayerAgreement, ServingMergeProofs, FunctionTheorems, FiniteSetTheorems,
        WellFoundedInduction, TLAPS

-----------------------------------------------------------------------------
(* The rule of daily telemetry (TelemetryCoverage) *)

\* A nonempty set of naturals has a least element: that of the smallest interval
\* from 0 to an element.
LEMMA Least ==
  ASSUME NEW T \in SUBSET Nat, T # {}
  PROVE  \E m \in T : \A n \in T : m <= n
<1>. DEFINE Intervals == {0 .. n : n \in T}
<1>1. Intervals \subseteq FiniteSubsetsOf(Nat)
  <2>1. \A n \in T : IsFiniteSet(0 .. n)  BY FS_Interval
  <2>. QED  BY <2>1 DEF FiniteSubsetsOf
<1>2. Intervals # {}  OBVIOUS
<1>3. PICK I \in Intervals : \A J \in Intervals : ~(<<J, I>> \in StrictSubsetOrdering(Nat))
  <2>. HIDE DEF Intervals
  <2>. QED  BY <1>1, <1>2, FS_StrictSubsetOrderingWellFounded, WFMin
<1>4. PICK m \in T : I = 0 .. m  OBVIOUS
<1>5. ASSUME NEW n \in T, n < m  PROVE  FALSE
  <2>1. 0 .. n \subseteq 0 .. m /\ m \in 0 .. m /\ m \notin 0 .. n  BY <1>5
  <2>2. <<0 .. n, 0 .. m>> \in StrictSubsetOrdering(Nat)
    BY <2>1 DEF StrictSubsetOrdering
  <2>. QED  BY <1>3, <1>4, <2>2
<1>. QED  BY <1>5

\* Multiples of a step keep the order of their factors.
LEMMA Multiples ==
  ASSUME NEW step \in Nat \ {0}, NEW a \in Int, NEW b \in Int
  PROVE  /\ a <= b <=> a * step <= b * step
         /\ a < b <=> a * step < b * step
         /\ (a + 1) * step = a * step + step
<1>1. ASSUME NEW c \in Int, NEW d \in Int, c < d  PROVE  c * step < d * step
  BY <1>1, SMTT(30)
<1>2. (a + 1) * step = a * step + step  BY SMT
<1>. QED  BY <1>1, <1>2, SMT

\* If no step is larger than one and a half, no tick between two others is missing.
LEMMA NoGap ==
  ASSUME NEW step \in Nat \ {0}, NEW obs,
         \A o \in obs : o.tick \in Nat,
         \A o, last \in obs :
           o.tick < last.tick =>
             \E next \in obs : o.tick < next.tick /\ 2 * (next.tick - o.tick) * step <= 3 * step,
         NEW k \in Nat, NEW a \in obs, NEW b \in obs, a.tick < k, k < b.tick
  PROVE  k \in Seen(obs)
<1>. SUFFICES ASSUME k \notin Seen(obs) PROVE FALSE  OBVIOUS
<1>. DEFINE T == {n \in Nat : \E o \in obs : o.tick < k /\ n = k - o.tick}
<1>1. k - a.tick \in T  OBVIOUS
<1>2. PICK m \in T : \A n \in T : m <= n  BY <1>1, Least
<1>3. PICK o \in obs : o.tick < k /\ m = k - o.tick  OBVIOUS
<1>4. PICK next \in obs : o.tick < next.tick /\ 2 * (next.tick - o.tick) * step <= 3 * step
  <2>1. o.tick < b.tick  BY <1>3
  <2>. QED  BY <2>1
<1>5. next.tick = o.tick + 1
  <2>. DEFINE d == next.tick - o.tick
  <2>1. d \in Nat /\ d >= 1  BY <1>4
  <2>2. ~(2 * d >= 4)
    <3>1. 2 * d \in Int /\ 4 \in Int /\ 3 \in Int  BY <2>1
    <3>2. 2 * d >= 4 => 4 * step <= (2 * d) * step  BY <3>1, Multiples
    <3>3. 3 * step < 4 * step  BY SMT
    <3>. QED  BY <1>4, <2>1, <3>2, <3>3
  <2>. QED  BY <2>1, <2>2
<1>6. next.tick # k  BY DEF Seen
<1>7. k - next.tick \in T  BY <1>3, <1>5, <1>6
<1>. QED  BY <1>2, <1>3, <1>5, <1>7

\* At most the tick of midnight can be missing: what a reader of the report may
\* conclude from complete telemetry, wherever vehicles were seen at a tick.
THEOREM OnlyMidnightMasked ==
  ASSUME NEW step \in Nat \ {0}, NEW length \in Nat, NEW day \in Nat, NEW Zones
  PROVE  MaskedFor(step, length, day, Zones)
<1>. SUFFICES ASSUME NEW obs \in SUBSET Observation(step, length, day, Zones),
                     Complete(step, length, day, obs),
                     NEW k \in Ticks(step, length, day), k \notin Seen(obs)
              PROVE  k * step = Start(length, day)
  BY DEF MaskedFor
<1>1. \A o \in obs : o.tick \in Nat /\ o.tick \in Ticks(step, length, day)
  BY DEF Observation, Ticks, End
<1>2. k \in Nat /\ Start(length, day) \in Nat /\ End(length, day) \in Nat
  BY DEF Ticks, Start, End
<1>3. PICK a \in obs : a.tick * step - Start(length, day) <= step  BY DEF Complete
<1>4. PICK b \in obs : End(length, day) - b.tick * step <= step  BY DEF Complete
<1>5. k < b.tick
  <2>1. b.tick # k  BY DEF Seen
  <2>2. CASE b.tick < k
    <3>1. (b.tick + 1) * step <= k * step  BY <1>1, <1>2, <2>2, Multiples
    <3>2. b.tick * step + step <= k * step  BY <1>1, <3>1, Multiples
    <3>3. k * step < End(length, day)  BY DEF Ticks
    <3>. QED  BY <1>1, <1>2, <1>4, <3>2, <3>3, SMT
  <2>. QED  BY <1>1, <1>2, <2>1, <2>2
<1>6. ~(a.tick < k)
  BY <1>1, <1>2, <1>5, NoGap DEF Complete
<1>7. k + 1 <= a.tick
  <2>1. a.tick # k  BY DEF Seen
  <2>. QED  BY <1>1, <1>2, <1>6, <2>1
<1>8. k * step + step <= a.tick * step
  BY <1>1, <1>2, <1>7, Multiples
<1>9. Start(length, day) <= k * step  BY DEF Ticks
<1>. QED  BY <1>1, <1>2, <1>3, <1>8, <1>9, SMT

\* The ceiling of a quotient, among the multiples of the divisor.
LEMMA CeilingBound ==
  ASSUME NEW step \in Nat \ {0}, NEW n \in Nat, NEW k \in Int
  PROVE  /\ Ceiling(n, step) \in Nat
         /\ Ceiling(n, step) <= k <=> n <= k * step
<1>. DEFINE c == Ceiling(n, step)
<1>1. c \in Int /\ c * step <= n + step - 1 /\ n + step - 1 < c * step + step
  BY SMTT(30) DEF Ceiling
<1>2. c * step < n + step /\ n <= c * step  BY <1>1
<1>3. c \in Nat
  <2>1. CASE c <= -1
    <3>1. c * step <= (-1) * step  BY <1>1, <2>1, Multiples
    <3>. QED  BY <1>1, <3>1
  <2>. QED  BY <1>1, <2>1
<1>4. c <= k => n <= k * step
  BY <1>1, <1>2, Multiples
<1>5. ASSUME k < c  PROVE k * step < n
  <2>1. (k + 1) * step <= c * step  BY <1>1, <1>5, Multiples
  <2>2. k * step + step <= c * step  BY <2>1, Multiples
  <2>. QED  BY <1>1, <1>2, <2>2
<1>. QED  BY <1>1, <1>3, <1>4, <1>5

\* The ticks of a date are consecutive.
LEMMA TicksInterval ==
  ASSUME NEW step \in Nat \ {0}, NEW length \in Nat, NEW day \in Nat
  PROVE  /\ Start(length, day) \in Nat /\ End(length, day) = Start(length, day) + length
         /\ Ceiling(Start(length, day), step) <= Ceiling(End(length, day), step)
         /\ Ticks(step, length, day) =
              Ceiling(Start(length, day), step) .. (Ceiling(End(length, day), step) - 1)
<1>. DEFINE s == Start(length, day)
            e == End(length, day)
<1>1. s \in Nat /\ e = s + length  BY SMT DEF Start, End
<1>2. Ceiling(s, step) \in Nat /\ Ceiling(e, step) \in Nat  BY <1>1, CeilingBound
<1>3. Ceiling(s, step) <= Ceiling(e, step)
  <2>1. e <= Ceiling(e, step) * step  BY <1>1, <1>2, CeilingBound
  <2>2. s <= Ceiling(e, step) * step  BY <1>1, <1>2, <2>1
  <2>. QED  BY <1>1, <1>2, <2>2, CeilingBound
<1>4. ASSUME NEW k \in Int
      PROVE  k \in Ticks(step, length, day) <=> Ceiling(s, step) <= k /\ k < Ceiling(e, step)
  <2>1. Ceiling(s, step) <= k <=> s <= k * step  BY <1>1, CeilingBound
  <2>2. k < Ceiling(e, step) <=> k * step < e  BY <1>1, <1>2, CeilingBound
  <2>3. ASSUME Ceiling(s, step) <= k, k < Ceiling(e, step)  PROVE k \in 0 .. e
    <3>1. k \in Nat  BY <1>2, <2>3
    <3>2. k <= k * step  BY <3>1, SMT
    <3>. QED  BY <1>1, <2>2, <2>3, <3>1, <3>2
  <2>. QED  BY <2>1, <2>2, <2>3 DEF Ticks
<1>5. Ticks(step, length, day) \subseteq Int  BY <1>1 DEF Ticks
<1>6. Ticks(step, length, day) = Ceiling(s, step) .. (Ceiling(e, step) - 1)
  <2>1. \A k \in Int : k \in Ticks(step, length, day)
                        <=> k \in Ceiling(s, step) .. (Ceiling(e, step) - 1)
    BY <1>2, <1>4
  <2>2. Ceiling(s, step) .. (Ceiling(e, step) - 1) \subseteq Int  OBVIOUS
  <2>. QED  BY <1>5, <2>1, <2>2, Zenon
<1>. QED  BY <1>1, <1>3, <1>6

\* A date has as many ticks as observations are expected.
LEMMA TicksCounted ==
  ASSUME NEW step \in Nat \ {0}, NEW length \in Nat, NEW day \in Nat
  PROVE  /\ IsFiniteSet(Ticks(step, length, day))
         /\ Cardinality(Ticks(step, length, day)) = ExpectedObservations(step, length, day)
<1>. DEFINE a == Ceiling(Start(length, day), step)
            b == Ceiling(End(length, day), step)
<1>1. a \in Nat /\ b \in Nat /\ a <= b /\ Ticks(step, length, day) = a .. (b - 1)
  <2>1. Start(length, day) \in Nat /\ End(length, day) \in Nat  BY SMT DEF Start, End
  <2>2. a \in Nat /\ b \in Nat  BY <2>1, CeilingBound
  <2>. QED  BY <2>2, TicksInterval
<1>2. ExpectedObservations(step, length, day) = b - a  BY DEF ExpectedObservations
<1>. HIDE DEF a, b
<1>3. IsFiniteSet(a .. (b - 1))
      /\ Cardinality(a .. (b - 1)) = IF a > b - 1 THEN 0 ELSE (b - 1) - a + 1
  <2>1. a \in Int /\ b - 1 \in Int  BY <1>1
  <2>. QED  BY <2>1, FS_Interval
<1>. QED  BY <1>1, <1>2, <1>3

\* Vehicles in one place at a tick are seen as often as they are observed.
LEMMA OncePerTick ==
  ASSUME NEW step, NEW length, NEW day, NEW Zones, IsFiniteSet(Ticks(step, length, day)),
         NEW obs \in SUBSET Observation(step, length, day, Zones), OnePlace(obs)
  PROVE  /\ Cardinality(obs) <= Cardinality(Ticks(step, length, day))
         /\ Cardinality(obs) = Cardinality(Ticks(step, length, day))
              <=> Seen(obs) = Ticks(step, length, day)
<1>. DEFINE T == Ticks(step, length, day)
            f == [o \in obs |-> o.tick]
<1>1. f \in Injection(obs, T)
  BY DEF Injection, IsInjective, OnePlace, Observation
<1>2. f \in Surjection(obs, T) <=> Seen(obs) = T
  BY DEF Surjection, Seen, Observation
<1>. HIDE DEF f
<1>. QED  BY <1>1, <1>2, FS_Injection

\* The rule is exact for vehicles that are in one place at a tick, on days with
\* at least one tick.
THEOREM CompleteIsExact ==
  ASSUME NEW step \in Nat \ {0}, NEW length \in Nat, NEW day \in Nat, NEW Zones,
         step <= length
  PROVE  ExactFor(step, length, day, Zones)
<1>. SUFFICES ASSUME NEW obs \in SUBSET Observation(step, length, day, Zones), OnePlace(obs)
              PROVE  Complete(step, length, day, obs) <=> Seen(obs) = Ticks(step, length, day)
  BY DEF ExactFor
<1>. DEFINE T == Ticks(step, length, day)
            s == Start(length, day)
            e == End(length, day)
<1>1. IsFiniteSet(T) /\ Cardinality(T) = ExpectedObservations(step, length, day)
  BY TicksCounted
<1>2. Cardinality(obs) <= Cardinality(T) /\ (Cardinality(obs) = Cardinality(T) <=> Seen(obs) = T)
  BY <1>1, OncePerTick
<1>3. ASSUME Complete(step, length, day, obs)  PROVE Seen(obs) = T
  <2>1. Cardinality(obs) >= Cardinality(T)  BY <1>1, <1>3 DEF Complete
  <2>2. Cardinality(T) \in Nat  BY <1>1, FS_CardinalityType
  <2>3. Cardinality(obs) \in Nat
    <3>1. [o \in obs |-> o.tick] \in Injection(obs, T)
      BY DEF Injection, IsInjective, OnePlace, Observation
    <3>. QED  BY <1>1, <3>1, FS_Injection, FS_CardinalityType
  <2>. QED  BY <1>2, <2>1, <2>2, <2>3
<1>4. ASSUME Seen(obs) = T  PROVE Complete(step, length, day, obs)
  <2>1. s \in Nat /\ e = s + length /\ T = Ceiling(s, step) .. (Ceiling(e, step) - 1)
    BY TicksInterval
  <2>2. Ceiling(s, step) \in Nat /\ Ceiling(e, step) \in Nat  BY <2>1, CeilingBound
  <2>3. Ceiling(s, step) * step < s + step
    <3>1. ~(s <= (Ceiling(s, step) - 1) * step)  BY <2>1, <2>2, CeilingBound
    <3>2. Ceiling(s, step) * step = (Ceiling(s, step) - 1) * step + step
      <4>1. (Ceiling(s, step) - 1) \in Int /\ (Ceiling(s, step) - 1) + 1 = Ceiling(s, step)
        BY <2>2
      <4>. QED  BY <4>1, Multiples
    <3>3. (Ceiling(s, step) - 1) * step \in Int  BY <2>2
    <3>. QED  BY <2>1, <3>1, <3>2, <3>3
  <2>4. Ceiling(s, step) < Ceiling(e, step)
    <3>1. Ceiling(s, step) * step < e  BY <2>1, <2>2, <2>3
    <3>. QED  BY <2>1, <2>2, <3>1, CeilingBound
  <2>5. \E o \in obs : o.tick * step - s <= step
    <3>1. PICK o \in obs : o.tick = Ceiling(s, step)  BY <1>4, <2>1, <2>2, <2>4 DEF Seen
    <3>. QED  BY <2>1, <2>2, <2>3, <3>1
  <2>6. \E o \in obs : e - o.tick * step <= step
    <3>1. PICK o \in obs : o.tick = Ceiling(e, step) - 1  BY <1>4, <2>1, <2>2, <2>4 DEF Seen
    <3>2. e <= Ceiling(e, step) * step  BY <2>1, <2>2, CeilingBound
    <3>3. Ceiling(e, step) * step = o.tick * step + step
      <4>1. o.tick \in Int /\ o.tick + 1 = Ceiling(e, step)  BY <2>2, <3>1
      <4>. QED  BY <4>1, Multiples
    <3>4. o.tick * step \in Int  BY <2>2, <3>1
    <3>. QED  BY <2>1, <3>2, <3>3, <3>4
  <2>7. ASSUME NEW o \in obs, NEW last \in obs, o.tick < last.tick
        PROVE  \E next \in obs : o.tick < next.tick /\ 2 * (next.tick - o.tick) * step <= 3 * step
    <3>1. o.tick \in T /\ last.tick \in T  BY DEF Observation
    <3>2. o.tick + 1 \in T  BY <2>1, <2>2, <2>7, <3>1
    <3>3. PICK next \in obs : next.tick = o.tick + 1  BY <1>4, <3>2 DEF Seen
    <3>4. next.tick - o.tick = 1 /\ o.tick < next.tick  BY <2>1, <2>2, <3>1, <3>3
    <3>5. 2 * (next.tick - o.tick) * step <= 3 * step  BY <3>4
    <3>. QED  BY <3>4, <3>5
  <2>8. Cardinality(obs) >= ExpectedObservations(step, length, day)
    <3>1. Cardinality(T) \in Nat  BY <1>1, FS_CardinalityType
    <3>. QED  BY <1>1, <1>2, <1>4, <3>1
  <2>. QED  BY <2>5, <2>6, <2>7, <2>8 DEF Complete
<1>. QED  BY <1>3, <1>4

-----------------------------------------------------------------------------
(* The two layers *)

\* What a report of date d reads has been merged.
LEMMA ArchivedAre ==
  ASSUME RowsInv, NEW A, A \subseteq merged, NEW d
  PROVE  /\ EventsAt(A) \subseteq Served /\ Served \subseteq Events
         /\ \A e : e \in Archived(A, d) <=> e \in EventsAt(A) /\ DateOf(e.ts) = d
<1>1. EventsAt(A) \subseteq Served  BY DEF EventsAt, Served
<1>2. Served \subseteq Events  BY EventsAtType DEF Served, RowsInv
<1>. QED  BY <1>1, <1>2 DEF Archived

\* A conflict row that names a payload is a row of the payload's date.
LEMMA BlockingRows ==
  ASSUME NEW e, NEW d, DateOf(e.ts) = d
  PROVE  /\ RowOf(e) \in conflicts =>
              RowOf(e) \in Blocking(d) /\ RowOf(e).id = e.id /\ RowOf(e).trip = e.trip
                /\ RowOf(e).vehicle = e.vehicle
         /\ LET r == ConflictRow(Prior, e.trip, e.vehicle, e.ts)
            IN  r \in conflicts => r \in Blocking(d) /\ r.trip = e.trip /\ r.vehicle = e.vehicle
BY DEF RowOf, ConflictRow, Blocking

\* The report excludes every contested identity, and an identity that it excludes
\* is contested or belongs to a contested trip.
LEMMA BadIdsAre ==
  ASSUME RowsInv, MergeInv, NEW A, A \subseteq merged, NEW d, NEW e \in Archived(A, d)
  PROVE  /\ e.id \in ContestedIds => e.id \in BadIds(A, d)
         /\ e.id \in BadIds(A, d) => Contested(e)
<1>1. e \in Served /\ e \in Events /\ DateOf(e.ts) = d /\ Archived(A, d) \subseteq Served
  BY ArchivedAre
<1>2. e.id # Prior  BY <1>1, EventsAssumption, ServingAssumption
<1>3. ASSUME e.id \in ContestedIds  PROVE e.id \in BadIds(A, d)
  <2>1. RowOf(e) \in conflicts  BY <1>1, <1>3 DEF MergeInv, ConflictsDated
  <2>2. RowOf(e) \in Blocking(d) /\ RowOf(e).id = e.id  BY <1>1, <2>1, BlockingRows
  <2>. QED  BY <1>2, <2>2 DEF BadIds
<1>4. ASSUME e.id \in BadIds(A, d)  PROVE Contested(e)
  <2>1. CASE \E x, f \in Archived(A, d) : x.id = e.id /\ f.id = x.id /\ f # x
    BY <1>1, <2>1, ContestedIdsAre DEF Contested
  <2>2. CASE \E c \in conflicts : c.id = e.id
    <3>1. PICK x \in Served : x.id = e.id /\ Contested(x)
      BY <1>2, <2>2 DEF MergeInv, ConflictsSound
    <3>. QED  BY <1>1, <3>1, ContestedIdsAre DEF Contested
  <2>. QED  BY <1>4, <2>1, <2>2 DEF BadIds, Blocking
<1>. QED  BY <1>3, <1>4

\* The report excludes a completed trip exactly if the trip is contested.
LEMMA DisputedTripsAre ==
  ASSUME RowsInv, MergeInv, NEW A, A \subseteq merged, NEW d, NEW e \in Completed(A, d)
  PROVE  e.trip \in DisputedTrips(A, d) <=> e.trip \in ContestedTrips
<1>1. e \in Archived(A, d) /\ e.done /\ Completed(A, d) \subseteq Archived(A, d)
      /\ \A x \in Completed(A, d) : x.done
  BY DEF Completed, Clean
<1>2. e \in Served /\ e \in Events /\ DateOf(e.ts) = d /\ Archived(A, d) \subseteq Served
  BY <1>1, ArchivedAre
<1>3. e.trip \in Trips /\ e.trip # NoTrip  BY <1>1, <1>2, EventsAssumption DEF Trips
<1>4. ASSUME e.trip \in ContestedTrips  PROVE e.trip \in DisputedTrips(A, d)
  <2>1. RowOf(e) \in conflicts \/ ConflictRow(Prior, e.trip, e.vehicle, e.ts) \in conflicts
    BY <1>1, <1>2, <1>4 DEF MergeInv, ConflictsDated
  <2>2. \E c \in Blocking(d) : c.trip = e.trip  BY <1>2, <2>1, BlockingRows
  <2>. QED  BY <1>3, <2>2 DEF DisputedTrips
<1>5. ASSUME e.trip \in DisputedTrips(A, d)  PROVE e.trip \in ContestedTrips
  <2>1. CASE \E x, f \in Completed(A, d) :
               x.trip = e.trip /\ f.trip = e.trip /\ Signature(f) # Signature(x)
    BY <1>1, <1>2, <1>3, <2>1 DEF ContestedTrips
  <2>2. CASE \E c \in conflicts : c.trip = e.trip
    BY <1>3, <2>2 DEF MergeInv, ConflictsSound
  <2>. QED  BY <1>5, <2>1, <2>2 DEF DisputedTrips, Blocking
<1>. QED  BY <1>4, <1>5

\* A report counts an archived completion exactly if completed_trips holds it.
LEMMA Agree == RowsInv /\ MergeInv => LayersAgree
<1>. SUFFICES ASSUME RowsInv, MergeInv, NEW A \in Archives, A \subseteq merged, NEW d \in Dates
              PROVE  DailyTrips(A, d) =
                       {CompletionRow(e) : e \in {x \in Archived(A, d) : x.done}} \intersect completed
  BY DEF LayersAgree
<1>1. Archived(A, d) \subseteq Served /\ Served \subseteq Events  BY ArchivedAre
<1>2. completed = {CompletionRow(e) : e \in {x \in Uncontested : x.done}}
  BY DEF MergeInv, TablesMatchReference
<1>3. \A e : CompletionRow(e).trip = e.trip  BY DEF CompletionRow
<1>4. ASSUME NEW e \in Archived(A, d), e.done, e.id \notin BadIds(A, d),
             e.trip \notin DisputedTrips(A, d)
      PROVE  CompletionRow(e) \in completed
  <2>1. e \in Completed(A, d)  BY <1>4 DEF Completed, Clean
  <2>2. ~Contested(e)  BY <1>4, <2>1, BadIdsAre, DisputedTripsAre DEF Contested
  <2>. QED  BY <1>1, <1>2, <1>4, <2>2 DEF Uncontested
<1>5. ASSUME NEW e \in Archived(A, d), e.done, CompletionRow(e) \in completed
      PROVE  e.id \notin BadIds(A, d) /\ e.trip \notin DisputedTrips(A, d)
  <2>1. PICK x \in Uncontested : x.done /\ CompletionRow(e) = CompletionRow(x)  BY <1>2, <1>5
  <2>2. e.trip = x.trip /\ e.trip \notin ContestedTrips  BY <1>3, <2>1 DEF Uncontested, Contested
  <2>3. e.trip \in Trips  BY <1>1, <1>5, EventsAssumption DEF Trips
  <2>4. e.id \notin ContestedIds  BY <1>1, <2>2, <2>3 DEF ContestedTrips
  <2>5. e.id \notin BadIds(A, d)  BY <2>2, <2>4, BadIdsAre DEF Contested
  <2>6. e \in Completed(A, d)  BY <1>5, <2>5 DEF Completed, Clean
  <2>. QED  BY <2>2, <2>5, <2>6, DisputedTripsAre
<1>6. DailyTrips(A, d) = {CompletionRow(e) : e \in {x \in Archived(A, d) :
         x.done /\ x.id \notin BadIds(A, d) /\ x.trip \notin DisputedTrips(A, d)}}
  BY DEF DailyTrips, Completed, Clean
<1>. QED  BY <1>4, <1>5, <1>6

\* Contested observations flag their vehicle.
LEMMA Flagged == RowsInv /\ MergeInv => ContestedFlagged
<1>. SUFFICES ASSUME RowsInv, MergeInv, NEW A \in Archives, A \subseteq merged, NEW e \in EventsAt(A),
                     e.id \in ContestedIds \/ (e.done /\ e.trip \in ContestedTrips)
              PROVE  e.vehicle \in Conflicting(A, DateOf(e.ts))
  BY DEF ContestedFlagged
<1>1. e \in Served  BY ArchivedAre
<1>2. RowOf(e) \in conflicts \/ ConflictRow(Prior, e.trip, e.vehicle, e.ts) \in conflicts
  BY <1>1 DEF MergeInv, ConflictsDated
<1>3. \E c \in Blocking(DateOf(e.ts)) : c.vehicle = e.vehicle  BY <1>2, BlockingRows
<1>. QED  BY <1>3 DEF Conflicting

-----------------------------------------------------------------------------
(* Telemetry *)

\* The tick of a time that is a multiple of the step, and the date of a time.
LEMMA TickOf ==
  ASSUME NEW step \in Nat \ {0}, NEW t \in Nat
  PROVE  /\ t \div step \in Nat
         /\ t % step = 0 => (t \div step) * step = t
         /\ (t \div step) * step <= t /\ t < (t \div step + 1) * step
         /\ \A k \in Nat : t = k * step => t \div step = k
<1>1. t \div step \in Nat /\ t = (t \div step) * step + (t % step) /\ t % step \in 0 .. (step - 1)
  BY SMTT(30)
<1>2. (t \div step + 1) * step = (t \div step) * step + step  BY <1>1, SMTT(30)
<1>3. ASSUME NEW k \in Nat, t = k * step  PROVE t \div step = k
  <2>1. (t \div step) * step \in Int /\ k * step \in Int  BY <1>1
  <2>2. k * step < (t \div step + 1) * step  BY <1>1, <1>2, <1>3, <2>1
  <2>3. k < t \div step + 1  BY <1>1, <2>2, Multiples
  <2>4. t \div step <= k  BY <1>1, <1>3, <2>1, Multiples
  <2>. QED  BY <1>1, <2>3, <2>4
<1>. QED  BY <1>1, <1>2, <1>3

\* What a report sees of a vehicle are observations at ticks of its date.
LEMMA TelemetryAtTicks ==
  ASSUME RowsInv, NEW A, A \subseteq merged, NEW d \in Dates, NEW v
  PROVE  /\ d \in Nat
         /\ Telemetry(A, d, v) \in SUBSET Observation(Step, Day, d, {e.zone : e \in Events})
<1>1. Step \in Nat \ {0} /\ Day \in Nat \ {0} /\ \A e \in Events : e.ts \in Nat /\ e.ts % Step = 0
  BY StepAssumption, ServingAssumption, EventsAssumption
<1>2. d \in Nat  BY <1>1, TickOf DEF Dates, DateOf
<1>3. ASSUME NEW e \in Clean(A, d)
      PROVE  At(e) \in Observation(Step, Day, d, {x.zone : x \in Events})
  <2>1. e \in Events /\ DateOf(e.ts) = d  BY ArchivedAre DEF Clean
  <2>2. d * Day <= e.ts /\ e.ts < (d + 1) * Day  BY <1>1, <2>1, TickOf DEF DateOf
  <2>3. e.ts \div Step \in Nat /\ (e.ts \div Step) * Step = e.ts  BY <1>1, <2>1, TickOf
  <2>4. e.ts \div Step <= e.ts
    <3>1. (e.ts \div Step) * 1 <= (e.ts \div Step) * Step  BY <1>1, <2>3, SMTT(30)
    <3>. QED  BY <2>3, <3>1
  <2>5. (d + 1) * Day \in Int  BY <1>1, <1>2, SMT
  <2>6. e.ts \div Step \in 0 .. ((d + 1) * Day)  BY <1>1, <2>1, <2>2, <2>3, <2>4, <2>5
  <2>7. e.ts \div Step \in Ticks(Step, Day, d)  BY <2>2, <2>3, <2>6 DEF Ticks, Start, End
  <2>. QED  BY <2>1, <2>7 DEF At, Observation
<1>. QED  BY <1>2, <1>3 DEF Telemetry

\* A vehicle that is not flagged is complete exactly if it was seen, uncontested,
\* at every tick.
LEMMA Profit == RowsInv /\ MergeInv => ProfitNeedsEveryTick
<1>. SUFFICES ASSUME RowsInv, MergeInv, NEW A \in Archives, A \subseteq merged, NEW d \in Dates,
                     NEW v \in Vehicles, OnePlace(Telemetry(A, d, v)), v \notin Conflicting(A, d)
              PROVE  Complete(Step, Day, d, Telemetry(A, d, v)) <=>
                       \A k \in Ticks(Step, Day, d) :
                         \E e \in EventsAt(A) :
                           e.vehicle = v /\ e.ts = k * Step /\ e.id \notin ContestedIds
  BY DEF ProfitNeedsEveryTick, ReconciliationStatus
<1>. DEFINE obs == Telemetry(A, d, v)
<1>1. Step \in Nat \ {0} /\ Day \in Nat \ {0} /\ Step <= Day
      /\ \A e \in Events : e.ts \in Nat /\ e.ts % Step = 0
  BY StepAssumption, ServingAssumption, EventsAssumption
<1>2. d \in Nat /\ obs \in SUBSET Observation(Step, Day, d, {e.zone : e \in Events})
  BY TelemetryAtTicks
<1>3. Complete(Step, Day, d, obs) <=> Seen(obs) = Ticks(Step, Day, d)
  <2>1. ExactFor(Step, Day, d, {e.zone : e \in Events})  BY <1>1, <1>2, CompleteIsExact
  <2>. HIDE DEF obs
  <2>. QED  BY <1>2, <2>1 DEF ExactFor, obs
<1>4. Seen(obs) \subseteq Ticks(Step, Day, d)  BY <1>2 DEF Seen, Observation
<1>5. ASSUME NEW k \in Ticks(Step, Day, d)
      PROVE  k \in Seen(obs) <=>
               \E e \in EventsAt(A) : e.vehicle = v /\ e.ts = k * Step /\ e.id \notin ContestedIds
  <2>1. k \in Nat  BY <1>1, <1>2, SMT DEF Ticks, End
  <2>2. ASSUME k \in Seen(obs)
        PROVE \E e \in EventsAt(A) : e.vehicle = v /\ e.ts = k * Step /\ e.id \notin ContestedIds
    <3>1. PICK e \in Clean(A, d) : e.vehicle = v /\ e.ts \div Step = k
      BY <2>2 DEF Seen, Telemetry, At
    <3>2. e \in EventsAt(A) /\ e \in Events /\ e \in Archived(A, d) /\ e.id \notin BadIds(A, d)
      BY ArchivedAre DEF Clean
    <3>3. e.ts = k * Step  BY <1>1, <3>1, <3>2, TickOf
    <3>. QED  BY <3>1, <3>2, <3>3, BadIdsAre
  <2>3. ASSUME NEW e \in EventsAt(A), e.vehicle = v, e.ts = k * Step, e.id \notin ContestedIds
        PROVE  k \in Seen(obs)
    <3>1. e \in Events  BY ArchivedAre
    <3>2. DateOf(e.ts) = d
      <4>1. d * Day <= e.ts /\ e.ts < (d + 1) * Day  BY <2>3 DEF Ticks, Start, End
      <4>2. e.ts \in Nat /\ e.ts \div Day \in Nat /\ (e.ts \div Day) * Day <= e.ts
            /\ e.ts < (e.ts \div Day + 1) * Day
        BY <1>1, <3>1, TickOf
      <4>3. d < e.ts \div Day + 1 /\ e.ts \div Day < d + 1
        <5>1. d * Day \in Int /\ (d + 1) * Day \in Int /\ (e.ts \div Day) * Day \in Int
              /\ (e.ts \div Day + 1) * Day \in Int
          BY <1>1, <1>2, <4>2, SMT
        <5>2. d * Day < (e.ts \div Day + 1) * Day /\ (e.ts \div Day) * Day < (d + 1) * Day
          BY <4>1, <4>2, <5>1
        <5>. QED  BY <1>1, <1>2, <4>2, <5>2, Multiples
      <4>. QED  BY <1>2, <4>2, <4>3 DEF DateOf
    <3>3. e \in Archived(A, d)  BY <3>2, ArchivedAre
    <3>4. e.id \notin BadIds(A, d)  BY <2>3, <3>3 DEF Conflicting
    <3>5. e.ts \div Step = k  BY <1>1, <2>1, <2>3, <3>1, TickOf
    <3>6. At(e) \in obs /\ At(e).tick = k  BY <2>3, <3>3, <3>4, <3>5 DEF Clean, Telemetry, At
    <3>. QED  BY <3>6 DEF Seen
  <2>. QED  BY <2>2, <2>3
<1>. HIDE DEF obs
<1>6. Seen(obs) = Ticks(Step, Day, d) <=> \A k \in Ticks(Step, Day, d) : k \in Seen(obs)  BY <1>4
<1>. QED  BY <1>3, <1>5, <1>6 DEF obs

-----------------------------------------------------------------------------
(* The theorems *)

\* A daily report counts exactly the archived trips that completed_trips holds,
\* from the rows and conflicts of its date alone (reconcile.py and merge_staged).
THEOREM LayersAgreeAlways == Spec => []LayersAgree
BY Agree, MergeInvariant, PTL DEF HandledInv

\* An observation whose identity or trip is contested flags its vehicle in the
\* report of its date (reconcile.py:123).
THEOREM ContestedFlaggedAlways == Spec => []ContestedFlagged
BY Flagged, MergeInvariant, PTL DEF HandledInv

\* Only a vehicle that was seen, uncontested, at every tick of the date has a
\* profit (spark_reconcile.py:107-110, by CompleteIsExact).
THEOREM ProfitNeedsEveryTickAlways == Spec => []ProfitNeedsEveryTick
BY Profit, MergeInvariant, PTL DEF HandledInv
=============================================================================
