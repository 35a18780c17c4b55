------------------------- MODULE ServingMergeProofs -------------------------
(***************************************************************************)
(* Theorems about ServingMerge for any payloads, partitions and cuts of    *)
(* the topic into batches, crashes, replays and lost checkpoints.          *)
(***************************************************************************)
EXTENDS ServingMerge, FiniteSetTheorems, WellFoundedInduction, TLAPS

USE EventsAssumption, ServingAssumption

-----------------------------------------------------------------------------
(* Rows *)

\* Rows that the topic holds.
Valid == {r \in Rows : r[2] <= Len(topic[r[1]])}

RowsInv ==
  /\ topic \in [Partitions -> Seq(Events)]
  /\ phase \in {"idle", "staged", "merged"}
  /\ start \in Positions /\ end \in Positions
  /\ \A p \in Partitions : start[p] <= Len(topic[p]) /\ end[p] <= Len(topic[p])
  /\ stage \subseteq Valid /\ merged \subseteq Valid

\* Where the rows of the planned batch are.
BatchHandled ==
  \A r \in RowsBetween(start, end) :
    /\ phase = "staged" => r \in stage \/ MayBeRejected(r)
    /\ phase = "merged" => r \in merged \/ MayBeRejected(r)

HandledInv == RowsInv /\ BatchHandled /\ EveryRowHandled

\* Each row of the topic is an event.
LEMMA EventsAtType == ASSUME RowsInv, NEW R \in SUBSET Valid  PROVE EventsAt(R) \subseteq Events
<1>. SUFFICES ASSUME NEW r \in R  PROVE topic[r[1]][r[2]] \in Events
  BY DEF EventsAt
<1>1. r[1] \in Partitions /\ r[2] \in 1 .. Len(topic[r[1]])
  BY DEF Valid, Rows, RowsInv
<1>. QED  BY <1>1 DEF RowsInv

\* A row that is added changes no other.
LEMMA TopicGrows ==
  ASSUME RowsInv, NEW e \in Events, Produce(e)
  PROVE  /\ topic' \in [Partitions -> Seq(Events)]
         /\ \A r \in Valid : r \in Valid' /\ topic'[r[1]][r[2]] = topic[r[1]][r[2]]
         /\ \A p \in Partitions : Len(topic[p]) <= Len(topic'[p])
<1>. DEFINE q == Home[e.vehicle]
<1>1. q \in Partitions  OBVIOUS
<1>2. topic' = [topic EXCEPT ![q] = Append(topic[q], e)]  BY DEF Produce
<1>3. topic[q] \in Seq(Events) /\ Append(topic[q], e) \in Seq(Events)
      /\ Len(Append(topic[q], e)) = Len(topic[q]) + 1
      /\ \A i \in 1 .. Len(topic[q]) : Append(topic[q], e)[i] = topic[q][i]
  BY <1>1 DEF RowsInv
<1>. HIDE DEF q
<1>4. topic' \in [Partitions -> Seq(Events)]  BY <1>1, <1>2, <1>3 DEF RowsInv
<1>5. \A p \in Partitions : Len(topic[p]) \in Nat /\ Len(topic'[p]) \in Nat  BY <1>4 DEF RowsInv
<1>6. \A p \in Partitions : p # q => topic'[p] = topic[p]  BY <1>2 DEF RowsInv
<1>7. topic'[q] = Append(topic[q], e)  BY <1>1, <1>2 DEF RowsInv
<1>8. \A p \in Partitions : Len(topic[p]) <= Len(topic'[p])  BY <1>3, <1>5, <1>6, <1>7
<1>9. ASSUME NEW r \in Valid  PROVE r \in Valid' /\ topic'[r[1]][r[2]] = topic[r[1]][r[2]]
  <2>1. r \in Rows /\ r[1] \in Partitions /\ r[2] \in 1 .. Len(topic[r[1]])
    BY DEF Valid, Rows, RowsInv
  <2>2. r \in Valid'  BY <1>5, <1>8, <2>1 DEF Valid, Rows
  <2>. QED  BY <1>3, <1>6, <1>7, <2>1, <2>2
<1>. QED  BY <1>4, <1>8, <1>9

\* Below a position that the topic has reached there are rows.
LEMMA RangeValid ==
  ASSUME RowsInv, NEW l, NEW h \in Positions, \A p \in Partitions : h[p] <= Len(topic[p])
  PROVE  RowsBetween(l, h) \subseteq Valid
<1>. SUFFICES ASSUME NEW r \in RowsBetween(l, h)  PROVE r \in Valid
  OBVIOUS
<1>1. r \in Rows /\ r[1] \in Partitions /\ r[2] \in Nat /\ r[2] <= h[r[1]]
  BY DEF RowsBetween, Rows
<1>2. Len(topic[r[1]]) \in Nat /\ h[r[1]] \in Nat /\ h[r[1]] <= Len(topic[r[1]])
  BY <1>1 DEF RowsInv, Positions
<1>. QED  BY <1>1, <1>2 DEF Valid

\* Every step keeps the rows.
LEMMA NextRows ==
  ASSUME RowsInv, [Next]_vars
  PROVE  RowsInv'
<1>. USE DEF kafkaVars, positionVars, tableVars, windowVars, queryVars
<1>1. ASSUME NEW e \in Events, Produce(e)  PROVE RowsInv'
  <2>1. \A p \in Partitions : Len(topic[p]) \in Nat /\ Len(topic'[p]) \in Nat
    BY <1>1, TopicGrows DEF RowsInv
  <2>2. \A p \in Partitions : start[p] \in Nat /\ end[p] \in Nat  BY DEF RowsInv, Positions
  <2>3. stage \subseteq Valid' /\ merged \subseteq Valid'  BY <1>1, TopicGrows DEF RowsInv
  <2>. QED  BY <1>1, <2>1, <2>2, <2>3, TopicGrows DEF Produce, RowsInv
<1>2. CASE Plan
  BY <1>2 DEF Plan, Ends, RowsInv, Positions, Valid
<1>3. CASE StageBatch
  <2>1. Batch \subseteq Valid  BY RangeValid DEF Batch, RowsInv
  <2>. QED  BY <1>3, <2>1 DEF StageBatch, RowsInv, Valid
<1>4. CASE Merge  BY <1>4 DEF Merge, RowsInv, Valid
<1>5. CASE CommitCheckpoint  BY <1>5 DEF CommitCheckpoint, RowsInv, Valid
<1>6. CASE Crash  BY <1>6 DEF Crash, RowsInv, Valid
<1>7. CASE RecreateCheckpoint
  <2>1. Origin \in Positions /\ \A p \in Partitions : Origin[p] <= Len(topic[p])
    BY DEF Origin, Positions, RowsInv
  <2>. QED  BY <1>7, <2>1 DEF RecreateCheckpoint, RowsInv, Valid
<1>8. CASE UNCHANGED <<topic, phase, start, end, stage, merged>>
  BY <1>8 DEF RowsInv, Valid
<1>. QED
  BY <1>1, <1>2, <1>3, <1>4, <1>5, <1>6, <1>7, <1>8
     DEF Next, Surroundings, ServingQuery, MetricsQuery, ClockReaches, StageFails, MetricsBatch,
         MetricsWrite, vars

\* Rows up to the end of a batch were handled before, or belong to the batch.
LEMMA RangeSplit ==
  ASSUME start \in Positions, end \in Positions
  PROVE  RowsBetween(Origin, end) \subseteq RowsBetween(Origin, start) \union RowsBetween(start, end)
<1>. SUFFICES ASSUME NEW r \in RowsBetween(Origin, end), ~(r[2] <= start[r[1]])
              PROVE  r \in RowsBetween(start, end)
  BY DEF RowsBetween
<1>1. r \in Partitions \X (1 .. MaxRows) /\ r[2] <= end[r[1]]  BY DEF RowsBetween
<1>2. start[r[1]] \in Int /\ r[2] \in Int  BY <1>1 DEF Positions
<1>. QED  BY <1>1, <1>2 DEF RowsBetween

\* Every step keeps track of the rows of the batch.
LEMMA NextHandled ==
  ASSUME HandledInv, [Next]_vars
  PROVE  HandledInv'
<1>. USE DEF kafkaVars, positionVars, tableVars, windowVars, queryVars, HandledInv
<1>1. RowsInv'  BY NextRows
<1>0. ASSUME UNCHANGED topic  PROVE \A r : MayBeRejected(r)' <=> MayBeRejected(r)
  BY <1>0 DEF MayBeRejected
<1>2. CASE Plan  BY <1>0, <1>1, <1>2 DEF Plan, BatchHandled, EveryRowHandled
<1>3. CASE StageBatch
  <2>1. \A r \in Batch : r \in stage' \/ MayBeRejected(r)
    BY <1>3 DEF StageBatch, Rejected, Accepts, MayBeRejected
  <2>. QED  BY <1>0, <1>1, <1>3, <2>1 DEF StageBatch, Batch, BatchHandled, EveryRowHandled
<1>4. CASE StageFails  BY <1>0, <1>1, <1>4 DEF StageFails, BatchHandled, EveryRowHandled
<1>5. CASE Merge  BY <1>0, <1>1, <1>5 DEF Merge, BatchHandled, EveryRowHandled
<1>6. CASE CommitCheckpoint
  BY <1>0, <1>1, <1>6, RangeSplit DEF CommitCheckpoint, BatchHandled, EveryRowHandled, RowsInv
<1>7. CASE Crash  BY <1>0, <1>1, <1>7 DEF Crash, BatchHandled, EveryRowHandled
<1>8. CASE RecreateCheckpoint
  <2>1. RowsBetween(Origin, Origin) = {}
    <3>. SUFFICES ASSUME NEW r \in RowsBetween(Origin, Origin)  PROVE FALSE
      OBVIOUS
    <3>. QED  BY DEF RowsBetween, Origin
  <2>. QED  BY <1>1, <1>8, <2>1 DEF RecreateCheckpoint, BatchHandled, EveryRowHandled
<1>9. CASE UNCHANGED <<topic, phase, start, end, stage, merged>>
  BY <1>0, <1>1, <1>9 DEF BatchHandled, EveryRowHandled
<1>10. ASSUME NEW e \in Events, Produce(e)  PROVE HandledInv'
  <2>1. RowsBetween(start, end) \subseteq Valid /\ RowsBetween(Origin, start) \subseteq Valid
    BY RangeValid DEF RowsInv
  <2>2. \A r \in Valid : MayBeRejected(r)' <=> MayBeRejected(r)
    BY <1>10, TopicGrows DEF MayBeRejected
  <2>3. UNCHANGED <<phase, start, end, stage, merged>>  BY <1>10 DEF Produce
  <2>. QED  BY <1>1, <2>1, <2>2, <2>3 DEF BatchHandled, EveryRowHandled
<1>. QED
  BY <1>2, <1>3, <1>4, <1>5, <1>6, <1>7, <1>8, <1>9, <1>10
     DEF Next, Surroundings, ServingQuery, MetricsQuery, ClockReaches, Produce, MetricsBatch,
         MetricsWrite, vars

-----------------------------------------------------------------------------
(* What a batch finds out *)

\* The rows of a batch join those that were merged.
LEMMA MergedServed ==
  ASSUME RowsInv, Merge
  PROVE  Served' = Served \union Staged /\ Served \subseteq Events /\ Staged \subseteq Events
<1>1. Served \subseteq Events /\ Staged \subseteq Events
  BY EventsAtType DEF Served, Staged, RowsInv
<1>2. topic' = topic /\ merged' = merged \union stage  BY DEF Merge, kafkaVars
<1>. QED  BY <1>1, <1>2 DEF Served, Staged, EventsAt

\* Contested ids and trips, written out.
LEMMA ContestedIdsAre ==
  \A i : i \in ContestedIds <=> \E e, f \in Served : e.id = i /\ f.id = i /\ e # f
BY DEF ContestedIds

LEMMA ContestedIdsAreAfter ==
  \A i : i \in ContestedIds' <=> \E e, f \in Served' : e.id = i /\ f.id = i /\ e # f
BY DEF ContestedIds

LEMMA ConflictIdsAre ==
  \A i : i \in ConflictIds <=>
    \E e \in Staged : /\ e.id = i
                      /\ (\E f \in Staged \union keys : f.id = i /\ f # e) \/ Listed(i)
BY DEF ConflictIds, Listed

\* What is contested stays contested.
LEMMA ContestedGrows ==
  ASSUME Served \subseteq Served'
  PROVE  ContestedIds \subseteq ContestedIds' /\ ContestedTrips \subseteq ContestedTrips'
<1>1. ContestedIds \subseteq ContestedIds'  BY ContestedIdsAre, ContestedIdsAreAfter
<1>. QED  BY <1>1 DEF ContestedTrips

\* A batch discredits nothing that is not contested.
LEMMA DiscreditedSound ==
  ASSUME RowsInv, MergeInv, Merge
  PROVE  /\ \A e \in Served' : e.id \in ConflictIds => Contested(e)'
         /\ \A e \in Served' : e.id \in ConflictIds /\ e.trip \in Trips => e.trip \in ContestedTrips'
         /\ BadTrips \subseteq ContestedTrips'
         /\ \A e \in Served' : Discredited(e) => Contested(e)'
<1>1. Served' = Served \union Staged /\ keys \subseteq Served
  BY MergedServed DEF MergeInv, KeysServed
<1>2. ContestedIds \subseteq ContestedIds' /\ ContestedTrips \subseteq ContestedTrips'
  BY <1>1, ContestedGrows
<1>3. ASSUME NEW e \in Served', e.id \in ConflictIds  PROVE Contested(e)'
  <2>1. PICK g \in Staged :
          /\ g.id = e.id
          /\ (\E f \in Staged \union keys : f.id = e.id /\ f # g) \/ Listed(e.id)
    BY <1>3, ConflictIdsAre
  <2>2. CASE \E f \in Staged \union keys : f.id = e.id /\ f # g
    BY <1>1, <2>1, <2>2, ContestedIdsAreAfter DEF Contested
  <2>3. CASE Listed(e.id)
    <3>1. e.id # Prior  BY <1>1, MergedServed
    <3>2. PICK x \in Served : x.id = e.id /\ Contested(x)
      BY <2>3, <3>1 DEF Listed, MergeInv, ConflictsSound
    <3>3. CASE x = e  BY <1>2, <3>2, <3>3 DEF Contested
    <3>4. CASE x # e  BY <1>1, <3>2, <3>4, ContestedIdsAreAfter DEF Contested
    <3>. QED  BY <3>3, <3>4
  <2>. QED  BY <2>1, <2>2, <2>3
<1>4. ASSUME NEW e \in Served', e.id \in ConflictIds, e.trip \in Trips
      PROVE  e.trip \in ContestedTrips'
  BY <1>3, <1>4 DEF Contested, ContestedTrips
<1>5. ASSUME NEW t \in BadTrips  PROVE t \in ContestedTrips'
  <2>. t \in Trips  BY DEF BadTrips
  <2>1. CASE \E e \in Staged, c \in CompletionsOf(t) :
               e.trip = t /\ e.done /\ c.signature # Signature(e)
    <3>1. PICK e \in Staged, c \in CompletionsOf(t) :
            e.trip = t /\ e.done /\ c.signature # Signature(e)
      BY <2>1
    <3>2. PICK f \in Served' : f.done /\ c = CompletionRow(f)
      <4>1. CASE c \in completed
        <5>1. completed = {CompletionRow(x) : x \in {y \in Uncontested : y.done}}
          BY DEF MergeInv, TablesMatchReference
        <5>. QED  BY <1>1, <4>1, <5>1 DEF Uncontested
      <4>2. CASE c \notin completed  BY <1>1, <4>2 DEF CompletionsOf
      <4>. QED  BY <4>1, <4>2
    <3>3. f.trip = t /\ Signature(f) # Signature(e)
      BY <3>1, <3>2 DEF CompletionsOf, CompletionRow
    <3>4. e \in Served'  BY <1>1
    <3>. QED  BY <3>1, <3>2, <3>3, <3>4 DEF ContestedTrips
  <2>2. CASE \E e \in Staged \union keys : e.trip = t /\ e.id \in ConflictIds
    BY <1>1, <1>4, <2>2
  <2>3. CASE \E e \in Staged, c \in conflicts : e.trip = t /\ c.trip = t
    BY <1>2, <2>3 DEF MergeInv, ConflictsSound
  <2>. QED  BY <2>1, <2>2, <2>3 DEF BadTrips
<1>6. ASSUME NEW e \in Served', Discredited(e)  PROVE Contested(e)'
  BY <1>3, <1>5, <1>6 DEF Discredited, Contested
<1>. QED  BY <1>3, <1>4, <1>5, <1>6

\* A batch discredits every staged or accepted event that is contested now.
LEMMA DiscreditedComplete ==
  ASSUME RowsInv, MergeInv, Merge
  PROVE  /\ \A e \in Staged : e.id \in ContestedIds' => e.id \in ConflictIds
         /\ \A t \in ContestedTrips' : t \in BadTrips \/ t \in ContestedTrips
         /\ \A e \in Staged \union contrib : Contested(e)' => Discredited(e)
<1>1. Served' = Served \union Staged /\ keys \subseteq Served
      /\ (\A e, f \in keys : e.id = f.id => e = f)
  BY MergedServed DEF MergeInv, KeysServed
<1>2. \A e \in Served : (\E k \in keys : k.id = e.id) \/ Listed(e.id)
  BY DEF MergeInv, EventsKnown
<1>3. (\A i \in ContestedIds : Listed(i)) /\ (\A t \in ContestedTrips : TripListed(t))
  BY DEF MergeInv, ConflictsComplete
<1>4. ASSUME NEW e \in Staged, e.id \in ContestedIds'  PROVE e.id \in ConflictIds
  <2>1. PICK f \in Served' : f.id = e.id /\ f # e  BY <1>4, ContestedIdsAreAfter
  <2>2. CASE f \in Staged  BY <2>1, <2>2, ConflictIdsAre
  <2>3. CASE f \in Served
    <3>1. CASE Listed(e.id)  BY <3>1, ConflictIdsAre
    <3>2. CASE ~Listed(e.id)
      <4>1. PICK k \in keys : k.id = e.id  BY <1>2, <2>1, <2>3, <3>2
      <4>2. CASE k # e  BY <4>1, <4>2, ConflictIdsAre
      <4>3. CASE k = e  BY <1>1, <1>3, <2>1, <2>3, <3>2, <4>3, ContestedIdsAre
      <4>. QED  BY <4>2, <4>3
    <3>. QED  BY <3>1, <3>2
  <2>. QED  BY <1>1, <2>1, <2>2, <2>3
<1>5. ASSUME NEW g \in Served, g.id \in ContestedIds', g.id \notin ContestedIds, ~Listed(g.id)
      PROVE  g \in keys /\ g.id \in ConflictIds
  <2>1. PICK k \in keys : k.id = g.id  BY <1>2, <1>5
  <2>2. k = g  BY <1>1, <1>5, <2>1, ContestedIdsAre
  <2>3. PICK f \in Served' : f.id = g.id /\ f # g  BY <1>5, ContestedIdsAreAfter
  <2>4. f \in Staged  BY <1>1, <1>5, <2>3, ContestedIdsAre
  <2>. QED  BY <2>1, <2>2, <2>3, <2>4, ConflictIdsAre
<1>6. ASSUME NEW g \in Served, g.id \notin ContestedIds, Listed(g.id), g.trip \in Trips
      PROVE  g.trip \in ContestedTrips
  <2>1. g.id # Prior  BY MergedServed
  <2>2. PICK x \in Served : x.id = g.id /\ Contested(x)
    BY <1>6, <2>1 DEF Listed, MergeInv, ConflictsSound
  <2>3. x = g  BY <1>6, <2>2, ContestedIdsAre
  <2>. QED  BY <1>6, <2>2, <2>3 DEF Contested
<1>8. ASSUME NEW t \in ContestedTrips', t \notin ContestedTrips  PROVE t \in BadTrips
  <2>. t \in Trips  BY DEF ContestedTrips
  <2>1. ASSUME NEW a \in Served', NEW b \in Served', a.done, b.done, a.trip = t, b.trip = t,
               Signature(a) # Signature(b), a \in Staged
        PROVE  t \in BadTrips
    <3>1. CASE b \in Staged
      <4>1. CompletionRow(b) \in CompletionsOf(t) /\ CompletionRow(b).signature = Signature(b)
        BY <2>1, <3>1 DEF CompletionsOf, CompletionRow
      <4>. QED  BY <2>1, <4>1 DEF BadTrips
    <3>2. CASE b \in Served /\ Contested(b)
      <4>1. b.id \in ContestedIds  BY <1>8, <2>1, <3>2 DEF Contested
      <4>. QED  BY <1>8, <2>1, <3>2, <4>1 DEF ContestedTrips
    <3>3. CASE b \in Served /\ ~Contested(b)
      <4>1. CompletionRow(b) \in completed
        BY <2>1, <3>3 DEF MergeInv, TablesMatchReference, Uncontested
      <4>2. CompletionRow(b) \in CompletionsOf(t) /\ CompletionRow(b).signature = Signature(b)
        BY <2>1, <4>1 DEF CompletionsOf, CompletionRow
      <4>. QED  BY <2>1, <4>2 DEF BadTrips
    <3>. QED  BY <1>1, <3>1, <3>2, <3>3
  <2>2. CASE \E a, b \in Served' : /\ a.done /\ b.done /\ a.trip = t /\ b.trip = t
                                  /\ Signature(a) # Signature(b)
    <3>1. PICK a \in Served', b \in Served' : /\ a.done /\ b.done /\ a.trip = t /\ b.trip = t
                                            /\ Signature(a) # Signature(b)
      BY <2>2
    <3>2. CASE a \in Staged  BY <2>1, <3>1, <3>2
    <3>3. CASE b \in Staged  BY <2>1, <3>1, <3>3
    <3>4. CASE a \in Served /\ b \in Served  BY <1>8, <3>1, <3>4 DEF ContestedTrips
    <3>. QED  BY <1>1, <3>2, <3>3, <3>4
  <2>3. CASE \E g \in Served' : g.trip = t /\ g.id \in ContestedIds'
    <3>1. PICK g \in Served' : g.trip = t /\ g.id \in ContestedIds'  BY <2>3
    <3>2. CASE g \in Staged  BY <1>4, <3>1, <3>2 DEF BadTrips
    <3>3. CASE g \in Served
      <4>1. g.id \notin ContestedIds  BY <1>8, <3>1, <3>3 DEF ContestedTrips
      <4>2. ~Listed(g.id)  BY <1>6, <1>8, <3>1, <3>3, <4>1
      <4>3. g \in keys /\ g.id \in ConflictIds  BY <1>5, <3>1, <3>3, <4>1, <4>2
      <4>. QED  BY <3>1, <4>3 DEF BadTrips
    <3>. QED  BY <1>1, <3>1, <3>2, <3>3
  <2>. QED  BY <1>8, <2>2, <2>3 DEF ContestedTrips
<1>9. ASSUME NEW e \in Staged \union contrib, Contested(e)'  PROVE Discredited(e)
  <2>1. CASE e \in Staged
    <3>1. CASE e.id \in ContestedIds'  BY <1>4, <2>1, <3>1 DEF Discredited
    <3>2. CASE e.trip \in ContestedTrips
      <4>1. TripListed(e.trip) /\ e.trip \in Trips  BY <1>3, <3>2 DEF ContestedTrips
      <4>. QED  BY <2>1, <4>1 DEF Discredited, BadTrips, TripListed
    <3>3. CASE e.trip \in ContestedTrips' /\ e.trip \notin ContestedTrips
      BY <1>8, <3>3 DEF Discredited
    <3>. QED  BY <1>9, <3>1, <3>2, <3>3 DEF Contested
  <2>2. CASE e \in contrib
    <3>1. e \in Served /\ e \in keys /\ e.id \notin ContestedIds /\ e.trip \notin ContestedTrips
      BY <2>2 DEF MergeInv, TablesMatchReference, Uncontested, Contested
    <3>2. CASE e.id \in ContestedIds'
      <4>1. PICK f \in Served' : f.id = e.id /\ f # e  BY <3>2, ContestedIdsAreAfter
      <4>2. f \in Staged  BY <1>1, <3>1, <4>1, ContestedIdsAre
      <4>. QED  BY <3>1, <4>1, <4>2, ConflictIdsAre DEF Discredited
    <3>3. CASE e.trip \in ContestedTrips'  BY <1>8, <3>1, <3>3 DEF Discredited
    <3>. QED  BY <1>9, <3>2, <3>3 DEF Contested
  <2>. QED  BY <2>1, <2>2
<1>. QED  BY <1>4, <1>8, <1>9

-----------------------------------------------------------------------------
(* What it leaves behind *)

\* Every discredited trip, and every discredited staged event, is listed.
LEMMA NewlyListed ==
  ASSUME RowsInv, MergeInv, Merge
  PROVE  /\ conflicts \subseteq conflicts'
         /\ \A e \in Staged : Discredited(e) => Listed(e.id)'
         /\ \A t \in BadTrips : TripListed(t)'
<1>1. conflicts' = conflicts \union NewConflicts  BY DEF Merge
<1>2. ASSUME NEW e \in Staged, Discredited(e)
      PROVE  ConflictRow(e.id, e.trip, e.vehicle, e.ts) \in conflicts'
  BY <1>1, <1>2 DEF NewConflicts, StagedConflicts
<1>3. ASSUME NEW k \in keys, k.id \in ConflictIds
      PROVE  ConflictRow(k.id, k.trip, k.vehicle, k.ts) \in conflicts'
  BY <1>1, <1>3 DEF NewConflicts
<1>4. \A i, t, v, time : ConflictRow(i, t, v, time).id = i /\ ConflictRow(i, t, v, time).trip = t
  BY DEF ConflictRow
<1>5. ASSUME NEW e \in Staged, Discredited(e)  PROVE Listed(e.id)' /\ TripListed(e.trip)'
  BY <1>2, <1>4, <1>5 DEF Listed, TripListed
<1>6. ASSUME NEW k \in keys, k.id \in ConflictIds  PROVE TripListed(k.trip)'
  BY <1>3, <1>4, <1>6 DEF TripListed
<1>7. ASSUME NEW t \in BadTrips  PROVE TripListed(t)'
  <2>1. CASE \E e \in Staged : e.trip = t  BY <1>5, <2>1 DEF Discredited
  <2>2. CASE \E k \in keys : k.trip = t /\ k.id \in ConflictIds  BY <1>6, <2>2
  <2>. QED  BY <2>1, <2>2 DEF BadTrips
<1>. QED  BY <1>1, <1>5, <1>7

\* The keys still answer for the merged rows.
LEMMA MergeKeys ==
  ASSUME RowsInv, MergeInv, Merge
  PROVE  KeysServed' /\ EventsKnown' /\ Uncontested' \subseteq keys'
<1>1. Served' = Served \union Staged /\ keys \subseteq Served
      /\ (\A e, f \in keys : e.id = f.id => e = f)
  BY MergedServed DEF MergeInv, KeysServed
<1>2. keys' = keys \union AcceptedEvents  BY DEF Merge
<1>3. \A e \in AcceptedEvents : e \in Staged /\ ~Discredited(e) /\ \A k \in keys : k.id # e.id
  BY DEF AcceptedEvents
<1>4. \A e, f \in AcceptedEvents : e.id = f.id => e = f
  BY <1>3, ConflictIdsAre DEF Discredited
<1>5. KeysServed'  BY <1>1, <1>2, <1>3, <1>4 DEF KeysServed
<1>6. EventsKnown'
  <2>. SUFFICES ASSUME NEW e \in Served'
                PROVE  (\E k \in keys' : k.id = e.id) \/ Listed(e.id)'
    BY DEF EventsKnown
  <2>1. CASE e \in Served
    BY <1>2, <2>1, NewlyListed DEF MergeInv, EventsKnown, Listed
  <2>2. CASE e \in Staged /\ Discredited(e)  BY <2>2, NewlyListed
  <2>3. CASE e \in Staged /\ ~Discredited(e)  BY <1>2, <2>3 DEF AcceptedEvents
  <2>. QED  BY <1>1, <2>1, <2>2, <2>3
<1>7. ASSUME NEW e \in Uncontested'  PROVE e \in keys'
  <2>1. e \in Served' /\ ~Contested(e)'  BY <1>7 DEF Uncontested
  <2>2. CASE e \in Served
    <3>1. ~Contested(e)  BY <1>1, <2>1, ContestedGrows DEF Contested
    <3>. QED  BY <1>2, <2>2, <3>1 DEF MergeInv, Uncontested
  <2>3. CASE e \in Staged
    <3>1. ~Discredited(e)  BY <2>1, DiscreditedSound
    <3>2. CASE \E k \in keys : k.id = e.id
      <4>1. PICK k \in keys : k.id = e.id  BY <3>2
      <4>2. k = e  BY <1>1, <2>1, <4>1, ContestedIdsAreAfter DEF Contested
      <4>. QED  BY <1>2, <4>2
    <3>3. CASE ~\E k \in keys : k.id = e.id  BY <1>2, <2>3, <3>1, <3>3 DEF AcceptedEvents
    <3>. QED  BY <3>2, <3>3
  <2>. QED  BY <1>1, <2>1, <2>2, <2>3
<1>. QED  BY <1>5, <1>6, <1>7

\* The conflicts are still those of the merged rows, and all of them.
LEMMA MergeConflicts ==
  ASSUME RowsInv, MergeInv, Merge
  PROVE  ConflictsSound' /\ ConflictsComplete'
<1>1. Served' = Served \union Staged /\ Served \subseteq Events /\ Staged \subseteq Events
      /\ keys \subseteq Served
  BY MergedServed DEF MergeInv, KeysServed
<1>2. ContestedIds \subseteq ContestedIds' /\ ContestedTrips \subseteq ContestedTrips'
  BY <1>1, ContestedGrows
<1>3. ConflictsSound'
  <2>. SUFFICES ASSUME NEW c \in conflicts'
                PROVE  /\ c.id # Prior => \E e \in Served' : e.id = c.id /\ Contested(e)'
                       /\ c.trip \in Trips => c.trip \in ContestedTrips'
    BY DEF ConflictsSound
  <2>1. CASE c \in conflicts
    BY <1>1, <1>2, <2>1 DEF MergeInv, ConflictsSound, Contested
  <2>2. CASE \E e \in Staged : Discredited(e) /\ c = ConflictRow(e.id, e.trip, e.vehicle, e.ts)
    <3>1. PICK e \in Staged : Discredited(e) /\ c = ConflictRow(e.id, e.trip, e.vehicle, e.ts)
      BY <2>2
    <3>2. c.id = e.id /\ c.trip = e.trip  BY <3>1 DEF ConflictRow
    <3>3. Contested(e)'  BY <1>1, <3>1, DiscreditedSound
    <3>4. e.trip \in Trips => e.trip \in ContestedTrips'
      BY <1>1, <3>1, DiscreditedSound DEF Discredited
    <3>. QED  BY <1>1, <3>2, <3>3, <3>4
  <2>3. CASE \E k \in keys : k.id \in ConflictIds /\ c = ConflictRow(k.id, k.trip, k.vehicle, k.ts)
    <3>1. PICK k \in keys : k.id \in ConflictIds /\ c = ConflictRow(k.id, k.trip, k.vehicle, k.ts)
      BY <2>3
    <3>2. c.id = k.id /\ c.trip = k.trip  BY <3>1 DEF ConflictRow
    <3>. QED  BY <1>1, <3>1, <3>2, DiscreditedSound
  <2>4. CASE \E d \in completed : d.trip \in BadTrips
               /\ c = ConflictRow(Prior, d.trip, d.signature[1], d.signature[3])
    <3>1. c.id = Prior /\ c.trip \in BadTrips  BY <2>4 DEF ConflictRow
    <3>. QED  BY <3>1, DiscreditedSound
  <2>5. conflicts' = conflicts \union NewConflicts  BY DEF Merge
  <2>. QED  BY <2>1, <2>2, <2>3, <2>4, <2>5 DEF NewConflicts, StagedConflicts
<1>4. ASSUME NEW i \in ContestedIds'  PROVE Listed(i)'
  <2>1. CASE i \in ContestedIds
    BY <2>1, NewlyListed DEF MergeInv, ConflictsComplete, Listed
  <2>2. CASE i \notin ContestedIds
    <3>1. PICK e \in Served', f \in Served' : e.id = i /\ f.id = i /\ e # f
      BY <1>4, ContestedIdsAreAfter
    <3>2. e \in Staged \/ f \in Staged  BY <1>1, <2>2, <3>1, ContestedIdsAre
    <3>3. PICK g \in Staged : g.id = i  BY <3>1, <3>2
    <3>4. Discredited(g)  BY <1>4, <3>3, DiscreditedComplete DEF Discredited
    <3>. QED  BY <3>3, <3>4, NewlyListed
  <2>. QED  BY <2>1, <2>2
<1>5. ASSUME NEW t \in ContestedTrips'  PROVE TripListed(t)'
  <2>1. CASE t \in ContestedTrips
    BY <2>1, NewlyListed DEF MergeInv, ConflictsComplete, TripListed
  <2>2. CASE t \in BadTrips  BY <2>2, NewlyListed
  <2>. QED  BY <1>5, <2>1, <2>2, DiscreditedComplete
<1>. QED  BY <1>3, <1>4, <1>5 DEF ConflictsComplete

\* Each payload that is contested now is listed as itself.
LEMMA MergeDated ==
  ASSUME RowsInv, MergeInv, Merge
  PROVE  ConflictsDated'
<1>1. Served' = Served \union Staged /\ Served \subseteq Events /\ Staged \subseteq Events
      /\ keys \subseteq Served /\ (\A e, f \in keys : e.id = f.id => e = f)
  BY MergedServed DEF MergeInv, KeysServed
<1>2. conflicts' = conflicts \union NewConflicts /\ keys' = keys \union AcceptedEvents
  BY DEF Merge
<1>3. \A e \in Served : e \in keys \/ RowOf(e) \in conflicts
  BY DEF MergeInv, ConflictsDated
<1>4. \A e \in Staged : Discredited(e) => RowOf(e) \in conflicts'
  BY <1>2 DEF NewConflicts, StagedConflicts, RowOf
<1>5. \A k \in keys : k.id \in ConflictIds => RowOf(k) \in conflicts'
  BY <1>2 DEF NewConflicts, RowOf
<1>7. ASSUME NEW e \in Served'  PROVE e \in keys' \/ RowOf(e) \in conflicts'
  <2>1. CASE e \in Served  BY <1>2, <1>3, <2>1
  <2>2. CASE e \in Staged /\ ~Discredited(e)
    <3>1. CASE \E k \in keys : k.id = e.id
      BY <1>2, <2>2, <3>1, ConflictIdsAre DEF Discredited
    <3>2. CASE ~\E k \in keys : k.id = e.id  BY <1>2, <2>2, <3>2 DEF AcceptedEvents
    <3>. QED  BY <3>1, <3>2
  <2>. QED  BY <1>1, <1>4, <2>1, <2>2
<1>8. ASSUME NEW e \in Served', e.id \in ContestedIds'  PROVE RowOf(e) \in conflicts'
  <2>1. CASE e \in Staged
    BY <1>4, <1>8, <2>1, DiscreditedComplete DEF Discredited
  <2>2. CASE RowOf(e) \in conflicts  BY <1>2, <2>2
  <2>3. CASE e \in keys /\ RowOf(e) \notin conflicts
    <3>1. e.id \notin ContestedIds  BY <1>1, <2>3 DEF MergeInv, ConflictsDated
    <3>2. PICK f \in Served' : f.id = e.id /\ f # e  BY <1>8, ContestedIdsAreAfter
    <3>3. f \in Staged  BY <1>1, <2>3, <3>1, <3>2, ContestedIdsAre
    <3>. QED  BY <1>5, <2>3, <3>2, <3>3, ConflictIdsAre
  <2>. QED  BY <1>1, <1>3, <2>1, <2>2, <2>3
<1>9. ASSUME NEW e \in Served', e.done, e.trip \in ContestedTrips'
      PROVE  RowOf(e) \in conflicts' \/ ConflictRow(Prior, e.trip, e.vehicle, e.ts) \in conflicts'
  <2>1. CASE e \in Staged
    <3>1. CASE e.id \in ContestedIds'  BY <1>8, <3>1
    <3>2. CASE Contested(e)'  BY <1>4, <2>1, <3>2, DiscreditedComplete
    <3>. QED  BY <1>9, <3>2 DEF Contested
  <2>2. CASE e \in Served /\ e.trip \in ContestedTrips
    BY <1>2, <1>9, <2>2 DEF MergeInv, ConflictsDated
  <2>3. CASE e \in Served /\ e.trip \notin ContestedTrips /\ e.id \in ContestedIds
    BY <1>1, <1>8, <2>3, ContestedGrows
  <2>4. CASE e \in Served /\ ~Contested(e)
    <3>1. e.trip \in BadTrips  BY <1>9, <2>4, DiscreditedComplete DEF Contested
    <3>2. CompletionRow(e) \in completed
      BY <1>9, <2>4 DEF MergeInv, TablesMatchReference, Uncontested
    <3>3. CompletionRow(e).trip = e.trip /\ CompletionRow(e).signature[1] = e.vehicle
          /\ CompletionRow(e).signature[3] = e.ts
      BY DEF CompletionRow, Signature
    <3>. QED  BY <1>2, <3>1, <3>2, <3>3 DEF NewConflicts
  <2>. QED  BY <1>1, <2>1, <2>2, <2>3, <2>4 DEF Contested
<1>. QED  BY <1>7, <1>8, <1>9 DEF ConflictsDated

\* The tables hold what the merged rows say they should.
LEMMA MergeTables ==
  ASSUME RowsInv, MergeInv, Merge
  PROVE  TablesMatchReference'
<1>1. Served' = Served \union Staged /\ keys \subseteq Served /\ Uncontested \subseteq keys
      /\ contrib = Uncontested
      /\ completed = {CompletionRow(e) : e \in {x \in Uncontested : x.done}}
  BY MergedServed DEF MergeInv, KeysServed, TablesMatchReference
<1>2. ContestedIds \subseteq ContestedIds' /\ ContestedTrips \subseteq ContestedTrips'
  BY <1>1, ContestedGrows
<1>3. Served \subseteq Events /\ Staged \subseteq Events  BY MergedServed
<1>4. \A e \in AcceptedEvents : e \in Staged /\ e \in Uncontested'
  BY <1>1, DiscreditedComplete DEF AcceptedEvents, Uncontested
<1>5. \A e \in contrib : ~Discredited(e) => e \in Uncontested'
  BY <1>1, DiscreditedComplete DEF Uncontested
<1>6. \A e \in Uncontested' : ~Discredited(e)  BY DiscreditedSound DEF Uncontested
<1>7. \A e \in Uncontested' : e \in contrib \/ (e \in AcceptedEvents /\ e \notin Served)
  <2>. SUFFICES ASSUME NEW e \in Uncontested', e \notin contrib
                PROVE  e \in AcceptedEvents /\ e \notin Served
    OBVIOUS
  <2>1. e \in Served' /\ ~Contested(e)'  BY DEF Uncontested
  <2>2. e \notin Served  BY <1>1, <1>2, <2>1 DEF Uncontested, Contested
  <2>3. \A k \in keys : k.id # e.id
    BY <1>1, <2>1, <2>2, ContestedIdsAreAfter DEF Contested
  <2>. QED  BY <1>1, <1>6, <2>1, <2>2, <2>3 DEF AcceptedEvents
<1>8. contrib' = Uncontested'
  <2>. DEFINE left == {e \in contrib : ~Discredited(e)}
  <2>1. contrib' = left \union {e \in AcceptedEvents : \A f \in left : f.id # e.id}
    BY DEF Merge, NewContrib
  <2>2. ASSUME NEW e \in Uncontested', e \notin left
        PROVE  e \in AcceptedEvents /\ \A f \in left : f.id # e.id
    <3>1. e \in AcceptedEvents /\ e \notin Served  BY <1>6, <1>7, <2>2
    <3>2. ASSUME NEW f \in left, f.id = e.id  PROVE FALSE
      <4>1. f \in Served /\ f \in Served' /\ e \in Served' /\ e.id \notin ContestedIds'
        BY <1>1 DEF Uncontested, Contested
      <4>. QED  BY <3>1, <3>2, <4>1, ContestedIdsAreAfter
    <3>. QED  BY <3>1, <3>2
  <2>3. left \subseteq Uncontested'  BY <1>5
  <2>. HIDE DEF left
  <2>. QED  BY <1>4, <2>1, <2>2, <2>3
<1>9. completed' = {CompletionRow(e) : e \in {x \in Uncontested' : x.done}}
  <2>. DEFINE left == {c \in completed : c.trip \notin BadTrips}
              reference == {CompletionRow(e) : e \in {x \in Uncontested' : x.done}}
  <2>1. completed' = left \union {CompletionRow(e) : e \in
                       {x \in AcceptedEvents : x.done /\ \A c \in left : c.trip # x.trip}}
    BY DEF Merge, NewCompleted
  <2>2. \A e : CompletionRow(e).trip = e.trip /\ CompletionRow(e).signature = Signature(e)
    BY DEF CompletionRow
  <2>3. \A e \in Served' : e.done => e.trip \in Trips
    <3>1. Served' \subseteq Events  BY <1>1, <1>3
    <3>. QED  BY <3>1 DEF Trips
  <2>4. ASSUME NEW e \in Uncontested, e.done, e.trip \notin BadTrips  PROVE e \in Uncontested'
    <3>1. e \in Served /\ e \in keys /\ e \in contrib  BY <1>1 DEF Uncontested
    <3>2. e.trip \in Trips  BY <1>1, <2>3, <2>4, <3>1
    <3>3. e.id \notin ConflictIds  BY <2>4, <3>1, <3>2 DEF BadTrips
    <3>4. ~Discredited(e)  BY <2>4, <3>3 DEF Discredited
    <3>. QED  BY <1>5, <3>1, <3>4
  <2>5. ASSUME NEW c \in left  PROVE c \in reference
    <3>1. PICK e \in Uncontested : e.done /\ c = CompletionRow(e)  BY <1>1
    <3>2. e.trip \notin BadTrips  BY <2>2, <3>1
    <3>. QED  BY <2>4, <3>1, <3>2
  <2>6. ASSUME NEW e \in Uncontested', e.done, CompletionRow(e) \notin left
        PROVE  e \in AcceptedEvents /\ \A c \in left : c.trip # e.trip
    <3>1. e \in Served' /\ ~Contested(e)'  BY DEF Uncontested
    <3>2. e.trip \notin BadTrips  BY <3>1, DiscreditedSound DEF Contested
    <3>3. e \in AcceptedEvents  BY <1>1, <1>7, <2>2, <2>6, <3>2
    <3>4. ASSUME NEW c \in left, c.trip = e.trip  PROVE FALSE
      <4>1. PICK f \in Uncontested : f.done /\ c = CompletionRow(f)  BY <1>1
      <4>2. f \in Served' /\ f.trip = e.trip  BY <1>1, <2>2, <3>4, <4>1 DEF Uncontested
      <4>3. e.trip \in Trips  BY <2>3, <2>6, <3>1
      <4>4. Signature(f) = Signature(e)
        BY <2>6, <3>1, <4>1, <4>2, <4>3 DEF Contested, ContestedTrips
      <4>5. CompletionRow(f) = CompletionRow(e)  BY <4>2, <4>4 DEF CompletionRow
      <4>. QED  BY <2>6, <4>1, <4>5
    <3>. QED  BY <3>3, <3>4
  <2>. HIDE DEF left
  <2>7. completed' \subseteq reference  BY <1>4, <2>1, <2>5
  <2>8. reference \subseteq completed'  BY <2>1, <2>6
  <2>. QED  BY <2>7, <2>8
<1>. QED  BY <1>8, <1>9 DEF TablesMatchReference

\* While nothing is merged, the same events are contested.
LEMMA SameReference ==
  ASSUME Served' = Served
  PROVE  /\ ContestedIds' = ContestedIds /\ ContestedTrips' = ContestedTrips
         /\ \A e : Contested(e)' <=> Contested(e)
         /\ Uncontested' = Uncontested
<1>1. ContestedIds' = ContestedIds  BY DEF ContestedIds
<1>2. ContestedTrips' = ContestedTrips  BY <1>1 DEF ContestedTrips
<1>3. \A e : Contested(e)' <=> Contested(e)  BY <1>1, <1>2 DEF Contested
<1>4. Uncontested' = Uncontested  BY <1>3 DEF Uncontested
<1>. QED  BY <1>1, <1>2, <1>3, <1>4

\* Only a merge changes what has been merged.
LEMMA OnlyMergeServes ==
  ASSUME RowsInv, [Next]_vars
  PROVE  Merge \/ (Served' = Served /\ UNCHANGED <<keys, conflicts, contrib, completed>>)
<1>. USE DEF kafkaVars, positionVars, tableVars, windowVars, queryVars
<1>1. ASSUME NEW e \in Events, Produce(e)
      PROVE  Served' = Served /\ UNCHANGED <<keys, conflicts, contrib, completed>>
  <2>1. \A r \in merged : topic'[r[1]][r[2]] = topic[r[1]][r[2]]
    BY <1>1, TopicGrows DEF RowsInv
  <2>2. UNCHANGED <<merged, keys, conflicts, contrib, completed>>  BY <1>1 DEF Produce
  <2>. QED  BY <2>1, <2>2 DEF Served, EventsAt
<1>2. CASE UNCHANGED <<topic, merged, keys, conflicts, contrib, completed>>
  BY <1>2 DEF Served, EventsAt
<1>. QED
  BY <1>1, <1>2
     DEF Next, Surroundings, ServingQuery, MetricsQuery, ClockReaches, Plan, StageBatch, StageFails,
         CommitCheckpoint, Crash, RecreateCheckpoint, MetricsBatch, MetricsWrite, vars

\* Every step keeps the invariant.
LEMMA NextMerge ==
  ASSUME RowsInv, MergeInv, [Next]_vars
  PROVE  MergeInv'
<1>1. CASE Merge
  BY <1>1, MergeKeys, MergeConflicts, MergeDated, MergeTables DEF MergeInv
<1>2. CASE Served' = Served /\ UNCHANGED <<keys, conflicts, contrib, completed>>
  <2>1. (\A i : Listed(i)' <=> Listed(i)) /\ (\A t : TripListed(t)' <=> TripListed(t))
    BY <1>2 DEF Listed, TripListed
  <2>2. KeysServed' /\ EventsKnown'  BY <1>2, <2>1 DEF MergeInv, KeysServed, EventsKnown
  <2>3. ConflictsSound' /\ ConflictsComplete'
    BY <1>2, <2>1, SameReference DEF MergeInv, ConflictsSound, ConflictsComplete
  <2>5. ConflictsDated'  BY <1>2, SameReference DEF MergeInv, ConflictsDated
  <2>4. TablesMatchReference' /\ Uncontested' \subseteq keys'
    BY <1>2, SameReference DEF MergeInv, TablesMatchReference
  <2>. QED  BY <2>2, <2>3, <2>4, <2>5 DEF MergeInv
<1>. QED  BY <1>1, <1>2, OnlyMergeServes

-----------------------------------------------------------------------------
(* Order *)

\* (event_ts, event_id) is a strict order.
LEMMA NewerOrder ==
  ASSUME NEW e \in Events, NEW f \in Events
  PROVE  /\ ~Newer(e, e)
         /\ Newer(e, f) => ~Newer(f, e)
         /\ \A g \in Events : Newer(e, f) /\ Newer(f, g) => Newer(e, g)
BY DEF Newer

\* Finitely many events have a newest one.
LEMMA NewestExists ==
  ASSUME NEW S, S \subseteq Events, IsFiniteSet(S), S # {}
  PROVE  Newest(S) \in S /\ \A f \in S : ~Newer(f, Newest(S))
<1>. DEFINE above == [e \in S |-> {f \in S : Newer(f, e)}]
            Family == {above[e] : e \in S}
<1>1. Family \subseteq FiniteSubsetsOf(S)
  <2>1. \A e \in S : above[e] \in SUBSET S  OBVIOUS
  <2>2. \A T \in SUBSET S : IsFiniteSet(T)  BY FS_Subset
  <2>. HIDE DEF above
  <2>. QED  BY <2>1, <2>2 DEF FiniteSubsetsOf
<1>2. Family # {}
  <2>1. PICK e : e \in S  OBVIOUS
  <2>2. above[e] \in Family  BY <2>1 DEF Family
  <2>. HIDE DEF above, Family
  <2>. QED  BY <2>2
<1>3. PICK A \in Family : \A B \in Family : ~(<<B, A>> \in StrictSubsetOrdering(S))
  <2>. HIDE DEF Family
  <2>. QED  BY <1>1, <1>2, FS_StrictSubsetOrderingWellFounded, WFMin
<1>4. PICK e \in S : A = above[e]  OBVIOUS
<1>5. ASSUME NEW f \in S, Newer(f, e)  PROVE FALSE
  <2>1. above[f] \subseteq above[e]  BY <1>5, NewerOrder
  <2>2. f \in above[e] /\ f \notin above[f]  BY <1>5, NewerOrder
  <2>3. above[f] \in SUBSET S /\ above[e] \in SUBSET S /\ above[f] \in Family  OBVIOUS
  <2>. HIDE DEF above, Family
  <2>4. <<above[f], above[e]>> \in StrictSubsetOrdering(S)
    BY <2>1, <2>2, <2>3 DEF StrictSubsetOrdering
  <2>. QED  BY <1>3, <1>4, <2>3, <2>4
<1>. QED  BY <1>5 DEF Newest

\* Finitely many rows hold finitely many events.
LEMMA EventsFinite ==
  ASSUME NEW R \in SUBSET Rows
  PROVE  IsFiniteSet(EventsAt(R))
<1>1. IsFiniteSet(Rows)
  <2>1. IsFiniteSet(Partitions) /\ 1 \in Int /\ MaxRows \in Int  BY ServingAssumption
  <2>2. IsFiniteSet(1 .. MaxRows)  BY <2>1, FS_Interval
  <2>. QED  BY <2>1, <2>2, FS_Product DEF Rows
<1>2. IsFiniteSet(R)  BY <1>1, FS_Subset
<1>. DEFINE f == [r \in R |-> topic[r[1]][r[2]]]
<1>3. f \in Surjection(R, EventsAt(R))  BY DEF Surjection, EventsAt
<1>. QED  BY <1>2, <1>3, FS_Surjection

-----------------------------------------------------------------------------
(* Windows *)

WindowsInv ==
  /\ metrics = [w \in Windows |-> metrics[w]] /\ corrected \subseteq Windows
  /\ \A w \in Windows : \A e \in metrics[w] : Window(e) = w
  /\ NoDiscreditedWindow

\* A merge corrects the windows of what it discredits.
LEMMA MergeWindows ==
  ASSUME RowsInv, MergeInv, WindowsInv, Merge
  PROVE  WindowsInv'
<1>1. Served' = Served \union Staged /\ Served \subseteq Events /\ Staged \subseteq Events
      /\ contrib = Uncontested
  BY MergedServed DEF MergeInv, TablesMatchReference
<1>2. contrib' = Uncontested' /\ contrib' = NewContrib
  BY MergeTables DEF TablesMatchReference, Merge
<1>3. \A e \in contrib \union Staged : Discredited(e) => Window(e) \in AffectedWindows
  BY DEF AffectedWindows
<1>4. AffectedWindows \subseteq Windows
  BY <1>1 DEF AffectedWindows, Windows, Uncontested
<1>5. metrics' = [w \in Windows |->
         IF w \in AffectedWindows THEN {e \in NewContrib : Window(e) = w} ELSE metrics[w]]
      /\ corrected' = corrected \union AffectedWindows
  BY DEF Merge
<1>6. metrics' = [w \in Windows |-> metrics'[w]] /\ corrected' \subseteq Windows
      /\ \A w \in Windows : \A e \in metrics'[w] : Window(e) = w
  BY <1>4, <1>5 DEF WindowsInv
<1>7. ASSUME NEW e \in Served', Contested(e)'  PROVE Window(e) \in corrected'
  <2>1. CASE e \in Served /\ Contested(e)
    BY <1>5, <2>1 DEF WindowsInv, NoDiscreditedWindow
  <2>2. CASE e \in contrib \union Staged
    BY <1>3, <1>5, <1>7, <2>2, DiscreditedComplete
  <2>. QED  BY <1>1, <2>1, <2>2 DEF Uncontested
<1>8. ASSUME NEW w \in corrected', NEW e \in metrics'[w]  PROVE e \in Uncontested'
  <2>1. CASE w \in AffectedWindows  BY <1>2, <1>4, <1>5, <1>8, <2>1
  <2>2. CASE w \notin AffectedWindows
    <3>1. w \in corrected /\ w \in Windows /\ e \in metrics[w]
      BY <1>5, <1>8, <2>2 DEF WindowsInv
    <3>2. e \in contrib /\ Window(e) = w
      BY <1>1, <3>1 DEF WindowsInv, NoDiscreditedWindow
    <3>3. ~Discredited(e)  BY <1>3, <2>2, <3>2
    <3>4. ~Contested(e)'  BY <3>2, <3>3, DiscreditedComplete
    <3>. QED  BY <1>1, <3>2, <3>4 DEF Uncontested
  <2>. QED  BY <2>1, <2>2
<1>. QED  BY <1>6, <1>7, <1>8 DEF WindowsInv, NoDiscreditedWindow

\* The metrics query leaves corrected windows alone.
LEMMA NextWindows ==
  ASSUME RowsInv, MergeInv, WindowsInv, [Next]_vars
  PROVE  WindowsInv'
<1>. USE DEF kafkaVars, positionVars, tableVars, windowVars, queryVars
<1>1. CASE Merge  BY <1>1, MergeWindows
<1>2. CASE Served' = Served /\ UNCHANGED windowVars
  BY <1>2, SameReference DEF WindowsInv, NoDiscreditedWindow
<1>3. ASSUME NEW w \in Windows, MetricsWrite(w)  PROVE WindowsInv'
  <2>1. Served' = Served /\ corrected' = corrected
    BY <1>3 DEF MetricsWrite, Served, EventsAt
  <2>2. \A e : Contested(e)' <=> Contested(e)  BY <2>1, SameReference
  <2>3. Uncontested' = Uncontested  BY <2>1, SameReference
  <2>4. CASE w \in corrected
    BY <1>3, <2>1, <2>2, <2>3, <2>4 DEF MetricsWrite, WindowsInv, NoDiscreditedWindow
  <2>5. CASE w \notin corrected
    <3>1. metrics' = [metrics EXCEPT ![w] = {e \in counted : Window(e) = w}]
      BY <1>3, <2>5 DEF MetricsWrite
    <3>2. metrics' = [x \in Windows |-> metrics'[x]]  BY <3>1 DEF WindowsInv
    <3>3. \A x \in Windows \ {w} : metrics'[x] = metrics[x]  BY <3>1 DEF WindowsInv
    <3>4. metrics'[w] = {e \in counted : Window(e) = w}  BY <3>1 DEF WindowsInv
    <3>. QED  BY <2>1, <2>2, <2>3, <2>5, <3>2, <3>3, <3>4 DEF WindowsInv, NoDiscreditedWindow
  <2>. QED  BY <2>4, <2>5
<1>4. Merge \/ (\E w \in Windows : MetricsWrite(w)) \/ (Served' = Served /\ UNCHANGED windowVars)
  BY OnlyMergeServes
     DEF Next, Surroundings, ServingQuery, MetricsQuery, ClockReaches, Produce, Plan, StageBatch,
         StageFails, CommitCheckpoint, Crash, RecreateCheckpoint, MetricsBatch, vars
<1>. QED  BY <1>1, <1>2, <1>3, <1>4

-----------------------------------------------------------------------------
(* Vehicles *)

\* The state of a vehicle is dropped exactly if it shows a discredited event.
LEMMA DisplayedIs ==
  ASSUME RowsInv, MergeInv, StateUncontested, Merge, NEW v \in Vehicles, state[v] # NoRow
  PROVE  /\ state[v].event \in Uncontested' => Displayed(v) = state[v]
         /\ state[v].event \notin Uncontested' => Displayed(v) = NoRow
<1>. DEFINE e == state[v].event
<1>1. e \in Uncontested  BY DEF StateUncontested
<1>. HIDE DEF e
<1>2. e \in contrib /\ e \in keys /\ e \in Served'
  BY <1>1, MergedServed DEF MergeInv, TablesMatchReference, Uncontested
<1>3. \A k \in keys : k.id = e.id => k = e  BY <1>2 DEF MergeInv, KeysServed
<1>4. e \in Uncontested' <=> ~Discredited(e)
  BY <1>2, DiscreditedSound, DiscreditedComplete DEF Uncontested
<1>5. Displayed(v) = IF e.id \in ConflictIds \/ (\E k \in keys : k.id = e.id /\ k.trip \in BadTrips)
                       THEN NoRow ELSE state[v]
  BY DEF Displayed, e
<1>. QED  BY <1>2, <1>3, <1>4, <1>5 DEF Discredited, e

\* A candidate is one of the accepted events of its vehicle.
LEMMA CandidateIs ==
  ASSUME RowsInv, MergeInv, Merge, NEW v \in Vehicles, Observed(v) # {}
  PROVE  /\ Newest(Observed(v)) \in Uncontested' /\ Newest(Observed(v)) \in Events
         /\ Newest(Observed(v)).vehicle = v
<1>1. Observed(v) \subseteq Staged /\ Observed(v) \subseteq AcceptedEvents
      /\ \A e \in Observed(v) : e.vehicle = v
  BY DEF Observed, AcceptedEvents
<1>2. Staged \subseteq Events /\ Served' = Served \union Staged  BY MergedServed
<1>3. IsFiniteSet(Staged)  BY EventsFinite DEF Staged, RowsInv, Valid
<1>4. IsFiniteSet(Observed(v))  BY <1>1, <1>3, FS_Subset
<1>5. Newest(Observed(v)) \in Observed(v)  BY <1>1, <1>2, <1>4, NewestExists
<1>6. \A e \in AcceptedEvents : e \in Uncontested'
  BY <1>2, DiscreditedComplete DEF AcceptedEvents, Uncontested
<1>. QED  BY <1>1, <1>2, <1>5, <1>6

\* After a merge no vehicle shows a discredited observation.
LEMMA MergeState ==
  ASSUME RowsInv, MergeInv, StateUncontested, Merge
  PROVE  StateUncontested'
<1>. SUFFICES ASSUME NEW v \in Vehicles, state'[v] # NoRow
              PROVE  state'[v].event \in Uncontested' /\ state'[v].event.vehicle = v
  BY DEF StateUncontested
<1>1. state'[v] = NewState(v)  BY DEF Merge
<1>2. CASE NewState(v) = Displayed(v)
  <2>1. Displayed(v) = state[v] /\ state[v] # NoRow  BY <1>1, <1>2 DEF Displayed
  <2>2. state[v].event \in Uncontested'  BY <1>1, <1>2, <2>1, DisplayedIs
  <2>. QED  BY <1>1, <1>2, <2>1, <2>2 DEF StateUncontested
<1>3. CASE Observed(v) # {} /\ NewState(v) = Candidate(v)
  BY <1>1, <1>3, CandidateIs DEF Candidate
<1>. QED  BY <1>2, <1>3 DEF NewState

\* Every step keeps the invariant.
LEMMA NextState ==
  ASSUME RowsInv, MergeInv, StateUncontested, [Next]_vars
  PROVE  StateUncontested'
<1>. USE DEF kafkaVars, positionVars, tableVars, windowVars, queryVars
<1>1. CASE Merge  BY <1>1, MergeState
<1>2. CASE Served' = Served /\ state' = state
  BY <1>2, SameReference DEF StateUncontested
<1>3. Merge \/ (Served' = Served /\ state' = state)
  BY OnlyMergeServes
     DEF Next, Surroundings, ServingQuery, MetricsQuery, ClockReaches, Produce, Plan, StageBatch,
         StageFails, CommitCheckpoint, Crash, RecreateCheckpoint, MetricsBatch, MetricsWrite, vars
<1>. QED  BY <1>1, <1>2, <1>3

\* Unless what it showed is discredited, a vehicle only goes forward.
LEMMA NextForward ==
  ASSUME RowsInv, MergeInv, StateUncontested, [Next]_vars, NEW v \in Vehicles,
         state[v] # NoRow, state'[v] # NoRow, Newer(state[v].event, state'[v].event)
  PROVE  state[v].event \notin Uncontested'
<1>. USE DEF kafkaVars, positionVars, tableVars, windowVars, queryVars
<1>1. state[v].event \in Events
  <2>1. Served \subseteq Events  BY EventsAtType DEF Served, RowsInv
  <2>. QED  BY <2>1 DEF StateUncontested, Uncontested
<1>2. CASE state' = state  BY <1>1, <1>2, NewerOrder
<1>3. CASE Merge
  <2>. SUFFICES ASSUME state[v].event \in Uncontested'  PROVE FALSE
    OBVIOUS
  <2>1. Displayed(v) = state[v]  BY <1>3, DisplayedIs
  <2>2. state'[v] = NewState(v)  BY <1>3 DEF Merge
  <2>3. CASE NewState(v) = Displayed(v)  BY <1>1, <2>1, <2>2, <2>3, NewerOrder
  <2>4. CASE NewState(v) # Displayed(v)
    <3>1. Observed(v) # {} /\ NewState(v) = Candidate(v)
          /\ Newer(Newest(Observed(v)), state[v].event)
      BY <2>1, <2>4 DEF NewState
    <3>2. Newest(Observed(v)) \in Events  BY <1>3, <3>1, CandidateIs
    <3>3. state'[v].event = Newest(Observed(v))  BY <2>2, <3>1 DEF Candidate
    <3>. QED  BY <1>1, <3>1, <3>2, <3>3, NewerOrder
  <2>. QED  BY <2>3, <2>4
<1>. QED
  BY <1>2, <1>3
     DEF Next, Surroundings, ServingQuery, MetricsQuery, ClockReaches, Produce, Plan, StageBatch,
         StageFails, CommitCheckpoint, Crash, RecreateCheckpoint, MetricsBatch, MetricsWrite, vars

-----------------------------------------------------------------------------
(* Types *)

Times == {e.ts : e \in Events}
StateRows == {NoRow} \union [event : Events, since : Times \union {NoTime}]

\* What TypeOK says and the other invariants do not.
TypedInv ==
  /\ reached \in BOOLEAN /\ read \in Positions /\ dead \subseteq Events
  /\ conflicts \subseteq [id : {e.id : e \in Events} \union {Prior}, trip : Trips \union {NoTrip},
                          vehicle : Vehicles, dt : {DateOf(e.ts) : e \in Events}]
  /\ state \in [Vehicles -> StateRows] /\ alerted \subseteq Vehicles
  /\ metrics \in [Windows -> SUBSET Events]
  /\ counted \subseteq Events /\ emit \subseteq Windows /\ watermark \in Int

\* min() of times is one of them.
LEMMA EarliestIs ==
  ASSUME NEW T \in SUBSET Nat, T # {}
  PROVE  Earliest(T) \in T
<1>. DEFINE Intervals == {0 .. t : t \in T}
<1>1. Intervals \subseteq FiniteSubsetsOf(Nat)
  <2>1. \A t \in T : IsFiniteSet(0 .. t)  BY FS_Interval
  <2>. QED  BY <2>1 DEF FiniteSubsetsOf
<1>2. PICK I \in Intervals : \A J \in Intervals : ~(<<J, I>> \in StrictSubsetOrdering(Nat))
  <2>1. PICK t : t \in T  OBVIOUS
  <2>2. 0 .. t \in Intervals  BY <2>1
  <2>3. Intervals # {}  BY <2>2
  <2>. HIDE DEF Intervals
  <2>. QED  BY <1>1, <2>3, FS_StrictSubsetOrderingWellFounded, WFMin
<1>3. PICK m \in T : I = 0 .. m  OBVIOUS
<1>4. ASSUME NEW t \in T, t < m  PROVE FALSE
  <2>1. 0 .. t \subseteq 0 .. m /\ m \in 0 .. m /\ m \notin 0 .. t  BY <1>4
  <2>2. <<0 .. t, 0 .. m>> \in StrictSubsetOrdering(Nat)  BY <2>1 DEF StrictSubsetOrdering
  <2>. QED  BY <1>2, <1>3, <2>2
<1>5. \A t \in T : m <= t  BY <1>4
<1>. QED  BY <1>5 DEF Earliest

\* So is max() of the times of finitely many events.
LEMMA LastTimeIs ==
  ASSUME NEW S, S \subseteq Events, IsFiniteSet(S), S # {}
  PROVE  LastTime(S) \in Int
<1>1. Newest(S) \in S /\ \A f \in S : ~Newer(f, Newest(S))  BY NewestExists
<1>2. \A f \in S : f.ts <= Newest(S).ts  BY <1>1 DEF Newer
<1>3. LastTime(S) \in {e.ts : e \in S}  BY <1>1, <1>2 DEF LastTime
<1>. QED  BY <1>3

\* The upserted row of a vehicle.
LEMMA NewStateType ==
  ASSUME RowsInv, MergeInv, TypedInv, Merge, NEW v \in Vehicles
  PROVE  NewState(v) \in StateRows
<1>1. Displayed(v) \in StateRows
  <2>1. state[v] \in StateRows  BY DEF TypedInv
  <2>2. Displayed(v) \in {NoRow, state[v]}  BY DEF Displayed
  <2>3. NoRow \in StateRows  BY DEF StateRows
  <2>. QED  BY <2>1, <2>2, <2>3
<1>2. CASE NewState(v) = Displayed(v)  BY <1>1, <1>2
<1>3. CASE Observed(v) # {} /\ NewState(v) = Candidate(v)
  <2>1. Newest(Observed(v)) \in Events  BY <1>3, CandidateIs
  <2>2. \A e \in Observed(v) : e.ts \in Times
    BY MergedServed DEF Observed, AcceptedEvents, Times
  <2>3. Times \subseteq Nat  BY DEF Times
  <2>. DEFINE idle == {e.ts : e \in {x \in Observed(v) : x.status = "idle"}}
              busy == {e.ts : e \in {x \in Observed(v) : x.status # "idle"}}
              old == Displayed(v)
              latest == {t \in idle : \A b \in busy : t > b}
              all == (idle \union {old.since}) \ {NoTime}
  <2>4. idle \subseteq Times  BY <2>2
  <2>5. Earliest(latest) \in Times \union {NoTime}
    <3>1. latest \subseteq Times  BY <2>4
    <3>. HIDE DEF latest
    <3>. QED  BY <2>3, <3>1, EarliestIs DEF Earliest
  <2>6. old # NoRow => Earliest(all) \in Times \union {NoTime}
    <3>. SUFFICES ASSUME old # NoRow  PROVE Earliest(all) \in Times \union {NoTime}
      OBVIOUS
    <3>1. old.since \in Times \union {NoTime}  BY <1>1 DEF StateRows
    <3>2. all \subseteq Times  BY <2>4, <3>1
    <3>. HIDE DEF all
    <3>. QED  BY <2>3, <3>2, EarliestIs DEF Earliest
  <2>7. IdleSince(v) \in {NoTime, Earliest(latest)} \/ (old # NoRow /\ IdleSince(v) = Earliest(all))
    BY DEF IdleSince
  <2>8. IdleSince(v) \in Times \union {NoTime}  BY <2>5, <2>6, <2>7
  <2>. HIDE DEF latest, all, old, idle, busy
  <2>. QED  BY <1>3, <2>1, <2>8 DEF Candidate, StateRows
<1>. QED  BY <1>2, <1>3 DEF NewState

\* What a merge adds to stream_conflicts.
LEMMA NewConflictsType ==
  ASSUME RowsInv, MergeInv, Merge
  PROVE  NewConflicts \subseteq
           [id : {e.id : e \in Events} \union {Prior}, trip : Trips \union {NoTrip},
            vehicle : Vehicles, dt : {DateOf(e.ts) : e \in Events}]
<1>. DEFINE Rs == [id : {e.id : e \in Events} \union {Prior}, trip : Trips \union {NoTrip},
                    vehicle : Vehicles, dt : {DateOf(e.ts) : e \in Events}]
<1>1. Served \subseteq Events /\ Staged \subseteq Events  BY MergedServed
<1>2. keys \subseteq Events  BY <1>1 DEF MergeInv, KeysServed
<1>3. ASSUME NEW e \in Events
      PROVE  ConflictRow(e.id, e.trip, e.vehicle, e.ts) \in Rs
  <2>1. e.trip \in Trips \union {NoTrip}  BY DEF Trips
  <2>2. e.vehicle \in Vehicles  OBVIOUS
  <2>. QED  BY <2>1, <2>2 DEF ConflictRow
<1>4. ASSUME NEW c \in completed, c.trip \in BadTrips
      PROVE  ConflictRow(Prior, c.trip, c.signature[1], c.signature[3]) \in Rs
  <2>1. PICK e \in Uncontested : c = CompletionRow(e)
    BY DEF MergeInv, TablesMatchReference
  <2>2. e \in Events  BY <1>1 DEF Uncontested
  <2>3. c.signature[1] = e.vehicle /\ c.signature[3] = e.ts
    BY <2>1 DEF CompletionRow, Signature
  <2>4. c.trip \in Trips  BY <1>4 DEF BadTrips
  <2>5. e.vehicle \in Vehicles  BY <2>2
  <2>. QED  BY <2>2, <2>3, <2>4, <2>5 DEF ConflictRow
<1>. HIDE DEF Rs
<1>5. StagedConflicts \subseteq Rs  BY <1>1, <1>3 DEF StagedConflicts
<1>6. {ConflictRow(k.id, k.trip, k.vehicle, k.ts) : k \in {x \in keys : x.id \in ConflictIds}} \subseteq Rs
  BY <1>2, <1>3
<1>7. {ConflictRow(Prior, c.trip, c.signature[1], c.signature[3]) :
         c \in {x \in completed : x.trip \in BadTrips}} \subseteq Rs
  BY <1>4
<1>8. NewConflicts \subseteq Rs  BY <1>5, <1>6, <1>7 DEF NewConflicts
<1>. QED  BY <1>8 DEF Rs

\* The metrics query keeps the types.
LEMMA MetricsType ==
  ASSUME RowsInv, TypedInv, MetricsQuery
  PROVE  TypedInv'
<1>. USE DEF kafkaVars, positionVars, tableVars
<1>1. CASE MetricsBatch
  <2>. DEFINE B(h) == {e \in EventsAt(RowsBetween(read, h)) : Accepts(e)}
              Last(h) == LastTime(B(h))
  <2>1. PICK h \in Ends(read) :
          /\ \E F \in SUBSET B(h) : counted' = counted \union F /\ emit' = {Window(e) : e \in F}
          /\ watermark' = watermark \/ (B(h) # {} /\ watermark' = Last(h) - Delay)
          /\ read' = h
    BY <1>1 DEF MetricsBatch
  <2>2. h \in Positions /\ \A p \in Partitions : h[p] <= Len(topic[p])
    BY DEF Ends, Positions
  <2>3. RowsBetween(read, h) \subseteq Valid  BY <2>2, RangeValid
  <2>4. B(h) \subseteq Events  BY <2>3, EventsAtType
  <2>5. IsFiniteSet(B(h))
    <3>1. IsFiniteSet(EventsAt(RowsBetween(read, h)))
      BY <2>3, EventsFinite DEF Valid
    <3>. QED  BY <3>1, FS_Subset
  <2>6. B(h) # {} => Last(h) \in Int  BY <2>4, <2>5, LastTimeIs
  <2>. HIDE DEF B, Last
  <2>7. watermark' \in Int  BY <2>1, <2>6 DEF TypedInv
  <2>8. counted' \subseteq Events /\ emit' \subseteq Windows
    BY <2>1, <2>4 DEF TypedInv, Windows
  <2>9. UNCHANGED <<reached, dead, conflicts, state, alerted, metrics>>
    BY <1>1 DEF MetricsBatch, windowVars
  <2>. QED  BY <2>1, <2>2, <2>7, <2>8, <2>9 DEF TypedInv
<1>2. ASSUME NEW w \in Windows, MetricsWrite(w)  PROVE TypedInv'
  <2>1. {e \in counted : Window(e) = w} \in SUBSET Events  BY DEF TypedInv
  <2>2. metrics' \in [Windows -> SUBSET Events]
    BY <1>2, <2>1 DEF MetricsWrite, TypedInv
  <2>. QED  BY <1>2, <2>2 DEF MetricsWrite, TypedInv
<1>. QED  BY <1>1, <1>2 DEF MetricsQuery

\* Every step keeps the types.
LEMMA NextTyped ==
  ASSUME RowsInv, MergeInv, TypedInv, [Next]_vars
  PROVE  TypedInv'
<1>. USE DEF kafkaVars, positionVars, tableVars, windowVars, queryVars
<1>1. CASE Merge
  <2>1. Served' = Served \union Staged /\ Served \subseteq Events /\ Staged \subseteq Events
        /\ contrib = Uncontested
    BY <1>1, MergedServed DEF MergeInv, TablesMatchReference
  <2>2. state' \in [Vehicles -> StateRows]  BY <1>1, NewStateType DEF Merge
  <2>3. NewContrib \subseteq Events
    BY <2>1 DEF NewContrib, AcceptedEvents, Uncontested
  <2>4. metrics' \in [Windows -> SUBSET Events]
    BY <1>1, <2>3 DEF Merge, TypedInv
  <2>5. alerted' \subseteq Vehicles  BY <1>1 DEF Merge, Overdue, TypedInv
  <2>6. conflicts' = conflicts \union NewConflicts
        /\ UNCHANGED <<reached, read, dead, counted, emit, watermark>>
    BY <1>1 DEF Merge
  <2>7. Trips' = Trips  BY DEF Trips
  <2>. QED  BY <1>1, <2>2, <2>4, <2>5, <2>6, <2>7, NewConflictsType DEF TypedInv
<1>2. CASE MetricsQuery  BY <1>2, MetricsType
<1>3. CASE StageBatch \/ StageFails
  <2>1. Rejected \subseteq Valid  BY RangeValid DEF Rejected, Batch, RowsInv
  <2>2. \A P \in SUBSET Partitions : EventsAt({r \in Rejected : r[1] \in P}) \subseteq Events
    BY <2>1, EventsAtType
  <2>3. dead' \subseteq Events
    BY <1>3, <2>2 DEF StageBatch, StageFails, SendDeadLetters, TypedInv
  <2>. QED  BY <1>3, <2>3 DEF StageBatch, StageFails, TypedInv
<1>4. CASE Surroundings \/ Plan \/ CommitCheckpoint \/ Crash \/ RecreateCheckpoint \/ UNCHANGED vars
  BY <1>4 DEF Surroundings, ClockReaches, Produce, Plan, CommitCheckpoint, Crash, RecreateCheckpoint,
              vars, TypedInv
<1>. QED  BY <1>1, <1>2, <1>3, <1>4 DEF Next, ServingQuery

-----------------------------------------------------------------------------
(* The theorems *)

ServingInv == HandledInv /\ MergeInv /\ WindowsInv /\ StateUncontested

\* Nothing is produced or merged at the start.
LEMMA InitInv == Init => ServingInv
<1>. SUFFICES ASSUME Init  PROVE ServingInv
  OBVIOUS
<1>1. topic = [p \in Partitions |-> <<>>] /\ merged = {} /\ stage = {} /\ phase = "idle"
      /\ start = Origin /\ end = Origin /\ keys = {} /\ conflicts = {} /\ contrib = {} /\ completed = {}
  BY DEF Init
<1>2. RowsInv
  <2>1. <<>> \in Seq(Events) /\ Len(<<>>) = 0  OBVIOUS
  <2>2. topic \in [Partitions -> Seq(Events)] /\ \A p \in Partitions : Len(topic[p]) = 0
    BY <1>1, <2>1
  <2>3. Origin \in Positions /\ \A p \in Partitions : Origin[p] = 0  BY DEF Origin, Positions
  <2>. QED  BY <1>1, <2>2, <2>3 DEF RowsInv
<1>3. RowsBetween(Origin, Origin) = {}
  <2>. SUFFICES ASSUME NEW r \in RowsBetween(Origin, Origin)  PROVE FALSE
    OBVIOUS
  <2>. QED  BY DEF RowsBetween, Origin
<1>4. HandledInv  BY <1>1, <1>2, <1>3 DEF HandledInv, BatchHandled, EveryRowHandled
<1>5. Served = {}  BY <1>1 DEF Served, EventsAt
<1>6. ContestedIds = {} /\ ContestedTrips = {} /\ Uncontested = {}
  <2>1. ContestedIds = {}  BY <1>5 DEF ContestedIds
  <2>2. ContestedTrips = {}  BY <1>5 DEF ContestedTrips
  <2>. QED  BY <1>5, <2>1, <2>2 DEF Uncontested
<1>7. MergeInv
  BY <1>1, <1>5, <1>6 DEF MergeInv, KeysServed, EventsKnown, ConflictsSound, ConflictsComplete,
                          ConflictsDated, TablesMatchReference
<1>8. WindowsInv  BY <1>5 DEF Init, WindowsInv, NoDiscreditedWindow
<1>9. StateUncontested  BY DEF Init, StateUncontested
<1>. QED  BY <1>4, <1>7, <1>8, <1>9 DEF ServingInv

\* The inductive invariant of the serving tables: keys and conflicts, which do not
\* hold every row, answer every question merge_staged asks about the past, and the
\* windows and vehicles it corrects stay free of discredited events.
THEOREM MergeInvariant == Spec => [](HandledInv /\ MergeInv /\ WindowsInv /\ StateUncontested)
<1>1. ServingInv /\ [Next]_vars => ServingInv'
  BY NextHandled, NextMerge, NextWindows, NextState DEF ServingInv, HandledInv
<1>. QED  BY InitInv, <1>1, PTL DEF Spec, ServingInv

\* The serving query alone takes steps of the whole system only.
LEMMA ServingAlone == ServingSpec => Spec
<1>1. [Surroundings \/ ServingQuery]_vars => [Next]_vars  BY DEF Next
<1>. QED  BY <1>1, PTL DEF ServingSpec, Spec

\* Types and primary keys of the tables: one payload per event identity, one
\* completion per trip (sql/002, merge_staged).
THEOREM TypeCorrect == Spec => []TypeOK
<1>1. Init => TypedInv
  <2>. SUFFICES ASSUME Init  PROVE TypedInv
    OBVIOUS
  <2>1. Origin \in Positions  BY DEF Origin, Positions
  <2>2. NoRow \in StateRows  BY DEF StateRows
  <2>3. state \in [Vehicles -> StateRows]  BY <2>2 DEF Init
  <2>4. metrics \in [Windows -> SUBSET Events]  BY DEF Init
  <2>5. reached \in BOOLEAN  BY DEF Init
  <2>6. read \in Positions /\ watermark \in Int  BY <2>1 DEF Init
  <2>7. /\ dead \subseteq Events /\ alerted \subseteq Vehicles
        /\ counted \subseteq Events /\ emit \subseteq Windows
    BY DEF Init
  <2>8. conflicts = {}  BY DEF Init
  <2>. QED  BY <2>3, <2>4, <2>5, <2>6, <2>7, <2>8 DEF TypedInv
<1>2. ServingInv /\ TypedInv /\ [Next]_vars => TypedInv'
  BY NextTyped DEF ServingInv, HandledInv
<1>3. ServingInv /\ TypedInv => TypeOK
  <2>. SUFFICES ASSUME RowsInv, MergeInv, WindowsInv, TypedInv  PROVE TypeOK
    BY DEF ServingInv, HandledInv
  <2>1. Served \subseteq Events  BY EventsAtType DEF Served, RowsInv
  <2>2. keys \subseteq Events /\ \A e, f \in keys : e.id = f.id => e = f
    BY <2>1 DEF MergeInv, KeysServed
  <2>3. contrib = Uncontested /\ completed = {CompletionRow(e) : e \in {x \in Uncontested : x.done}}
    BY DEF MergeInv, TablesMatchReference
  <2>4. contrib \subseteq Events /\ \A e, f \in contrib : e.id = f.id => e = f
    BY <2>1, <2>3 DEF Uncontested, Contested, ContestedIds
  <2>5. completed \subseteq {CompletionRow(e) : e \in Events}  BY <2>1, <2>3 DEF Uncontested
  <2>6. ASSUME NEW c \in completed, NEW d \in completed, c.trip = d.trip  PROVE c = d
    <3>1. PICK e \in Uncontested : e.done /\ c = CompletionRow(e)  BY <2>3
    <3>2. PICK f \in Uncontested : f.done /\ d = CompletionRow(f)  BY <2>3
    <3>3. e.trip = f.trip /\ e \in Served /\ f \in Served /\ e.trip \notin ContestedTrips
      BY <2>6, <3>1, <3>2 DEF CompletionRow, Uncontested, Contested
    <3>4. e.trip \in Trips  BY <2>1, <3>1, <3>3 DEF Trips
    <3>5. Signature(e) = Signature(f)  BY <3>1, <3>2, <3>3, <3>4 DEF ContestedTrips
    <3>. QED  BY <3>1, <3>2, <3>3, <3>5 DEF CompletionRow
  <2>7. stage \subseteq Rows /\ merged \subseteq Rows  BY DEF RowsInv, Valid
  <2>. QED
    BY <2>2, <2>4, <2>5, <2>6, <2>7 DEF TypeOK, TypedInv, RowsInv, WindowsInv, StateRows, Times
<1>4. (HandledInv /\ MergeInv /\ WindowsInv /\ StateUncontested) => ServingInv  BY DEF ServingInv
<1>. QED  BY MergeInvariant, <1>1, <1>2, <1>3, <1>4, PTL DEF Spec

\* rt_zone_metric_events and completed_trips are a function of the set of merged
\* rows: no order, cut into batches, crash or replay shows in them (merge_staged).
THEOREM TablesMatchReferenceAlways == Spec => []TablesMatchReference
<1>1. MergeInv => TablesMatchReference  BY DEF MergeInv
<1>. QED  BY MergeInvariant, <1>1, PTL

\* Each row below the committed position was merged, or is one that validation may
\* reject, whatever crashes came between staging, merge and checkpoint and wherever
\* a recreated checkpoint begins again (process_serving_batch).
THEOREM EveryRowHandledAlways == Spec => []EveryRowHandled
<1>1. HandledInv => EveryRowHandled  BY DEF HandledInv
<1>. QED  BY MergeInvariant, <1>1, PTL

\* No window goes on counting a discredited event, whatever the metrics query
\* upserts before or after the correction (merge_staged against write_metrics).
THEOREM NoDiscreditedWindowAlways == Spec => []NoDiscreditedWindow
<1>1. WindowsInv => NoDiscreditedWindow  BY DEF WindowsInv
<1>. QED  BY MergeInvariant, <1>1, PTL

\* No vehicle shows a discredited observation (rt_vehicle_state in merge_staged).
THEOREM StateUncontestedAlways == Spec => []StateUncontested
BY MergeInvariant, PTL

\* Unless what it showed is discredited, a vehicle never goes back to an older
\* observation, however late or often a batch is merged.
THEOREM StateGoesForward == Spec => StateNeverRegresses
<1>. DEFINE Forward ==
       \A v \in Vehicles :
         state[v] # NoRow /\ state'[v] # NoRow /\ Newer(state[v].event, state'[v].event)
           => state[v].event \notin Uncontested'
<1>1. ServingInv /\ [Next]_vars => [Forward]_vars
  BY NextForward DEF ServingInv, HandledInv
<1>2. (HandledInv /\ MergeInv /\ WindowsInv /\ StateUncontested) => ServingInv  BY DEF ServingInv
<1>. HIDE DEF Forward
<1>3. Spec => [][Forward]_vars  BY MergeInvariant, <1>1, <1>2, PTL DEF Spec
<1>. QED  BY <1>3 DEF StateNeverRegresses, Forward
=============================================================================
