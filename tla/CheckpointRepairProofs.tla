----------------------- MODULE CheckpointRepairProofs -----------------------
(***************************************************************************)
(* Theorems about torn checkpoint files, their repair and lost sessions,   *)
(* for every number of writers, lost files and sessions.                   *)
(***************************************************************************)
EXTENDS CheckpointRepair, RawArchiveProofs, FiniteSetTheorems

-----------------------------------------------------------------------------
(* Logs *)

\* max() and min() of a set that has them.
LEMMA MaxIs ==
  ASSUME NEW S \in SUBSET Int, NEW m \in S, \A x \in S : x <= m
  PROVE  Max(S) = m
<1>1. \A y \in S : m >= y  OBVIOUS
<1>2. Max(S) \in S /\ \A y \in S : Max(S) >= y
  BY <1>1 DEF Max
<1>3. Max(S) \in Int /\ m \in Int /\ Max(S) >= m /\ Max(S) <= m  BY <1>2
<1>. QED  BY <1>3

LEMMA MinIs ==
  ASSUME NEW S \in SUBSET Int, NEW m \in S, \A x \in S : m <= x
  PROVE  Min(S) = m
<1>1. \A y \in S : m <= y  OBVIOUS
<1>2. Min(S) \in S /\ \A y \in S : Min(S) <= y
  BY <1>1 DEF Min
<1>3. Min(S) \in Int /\ m \in Int /\ Min(S) >= m /\ Min(S) <= m  BY <1>2
<1>. QED  BY <1>3

\* The batch number after those of a log whose files are numbered from 0.
LEMMA FollowingIs ==
  ASSUME NEW log, NEW f \in Nat, DOMAIN log \subseteq 0 .. f - 1, f = 0 \/ f - 1 \in DOMAIN log
  PROVE  Following(log) = f
<1>1. CASE f = 0
  <2>1. \A i \in DOMAIN log : FALSE
    <3>1. \A i \in 0 .. f - 1 : FALSE  BY <1>1
    <3>. QED  BY <3>1
  <2>2. DOMAIN log = {}  BY <2>1
  <2>. QED  BY <1>1, <2>2 DEF Following
<1>2. CASE f # 0
  <2>1. Max(DOMAIN log) = f - 1
    <3>1. DOMAIN log \in SUBSET Int /\ f - 1 \in DOMAIN log  BY <1>2
    <3>. QED  BY <3>1, MaxIs
  <2>. QED  BY <1>2, <2>1 DEF Following
<1>. QED  BY <1>1, <1>2

\* A log of n complete files, and incomplete ones from t on up to f.
LEMMA OrderlyIs ==
  ASSUME NEW log, NEW n \in Nat, NEW t \in Nat, NEW f \in Nat, n <= t, t <= f, t = f => n = f,
         Whole(log) = 0 .. n - 1, TornFiles(log) = t .. f - 1
  PROVE  Orderly(log) /\ Following(log) = f
<1>1. DOMAIN log = (0 .. n - 1) \union (t .. f - 1)  BY DEF Whole, TornFiles
<1>2. DOMAIN log \subseteq 0 .. f - 1 /\ (f = 0 \/ f - 1 \in DOMAIN log)
  BY <1>1
<1>3. Following(log) = f  BY <1>2, FollowingIs
<1>. QED  BY <1>3 DEF Orderly

\* Without incomplete files a log is numbered without a gap.
LEMMA WholeLog ==
  ASSUME NEW log, Orderly(log), TornFiles(log) = {}
  PROVE  /\ Following(log) \in Nat /\ Whole(log) = DOMAIN log
         /\ DOMAIN log = 0 .. Following(log) - 1 /\ Newest(log) = Following(log) - 1
<1>1. Following(log) \in Nat  BY DEF Orderly
<1>2. PICK n \in 0 .. Following(log), t \in 0 .. Following(log) :
        n <= t /\ Whole(log) = 0 .. n - 1 /\ TornFiles(log) = t .. Following(log) - 1
  BY DEF Orderly
<1>3. Whole(log) = DOMAIN log  BY DEF Whole
<1>4. Following(log) = n
  <2>1. DOMAIN log = 0 .. n - 1 /\ n \in Nat  BY <1>1, <1>2, <1>3
  <2>. QED  BY <2>1, FollowingIs
<1>. QED  BY <1>1, <1>2, <1>3, <1>4 DEF Newest

\* Spark finds out: the newest file is incomplete if any is.
LEMMA LegibleLog ==
  ASSUME NEW log, Orderly(log), ~IsTorn(log, Newest(log))
  PROVE  TornFiles(log) = {}
<1>1. Following(log) \in Nat  BY DEF Orderly
<1>2. PICK t \in 0 .. Following(log) : TornFiles(log) = t .. Following(log) - 1
  BY DEF Orderly
<1>3. Newest(log) \notin TornFiles(log)  BY DEF IsTorn, TornFiles
<1>4. t <= Following(log) - 1 => Newest(log) \in TornFiles(log)
  BY <1>1, <1>2 DEF Newest
<1>. QED  BY <1>1, <1>2, <1>3, <1>4

\* What a repair takes away are the incomplete files.
LEMMA SuffixIs ==
  ASSUME NEW log, Orderly(log)
  PROVE  InvalidSuffix(log) = TornFiles(log)
<1>1. Following(log) \in Nat  BY DEF Orderly
<1>2. PICK n \in 0 .. Following(log), t \in 0 .. Following(log) :
        n <= t /\ Whole(log) = 0 .. n - 1 /\ TornFiles(log) = t .. Following(log) - 1
  BY DEF Orderly
<1>3. ASSUME NEW i \in DOMAIN log, NEW m \in TornFiles(log), i >= m  PROVE i \in TornFiles(log)
  BY <1>1, <1>2, <1>3 DEF Whole
<1>4. \A m \in TornFiles(log) : m >= m /\ m \in DOMAIN log
  <2>1. TornFiles(log) \subseteq Int  BY <1>2
  <2>. QED  BY <2>1 DEF TornFiles
<1>. QED  BY <1>3, <1>4 DEF InvalidSuffix

\* No complete file lies behind an incomplete one, so that a repair is not refused.
LEMMA NeverRefused ==
  ASSUME NEW log, Orderly(log)
  PROVE  ~Refused(log)
<1>1. Following(log) \in Nat  BY DEF Orderly
<1>2. PICK n \in 0 .. Following(log), t \in 0 .. Following(log) :
        n <= t /\ Whole(log) = 0 .. n - 1 /\ TornFiles(log) = t .. Following(log) - 1
  BY DEF Orderly
<1>. QED  BY <1>1, <1>2 DEF Refused, Whole

\* It takes the first of them and leaves the complete files as they are.
LEMMA MovedIs ==
  ASSUME NEW log, Orderly(log), TornFiles(log) # {}
  PROVE  /\ Orderly(Moved(log)) /\ Whole(Moved(log)) = Whole(log)
         /\ \A i \in Whole(log) : Moved(log)[i] = log[i]
<1>1. Following(log) \in Nat  BY DEF Orderly
<1>2. PICK n \in 0 .. Following(log), t \in 0 .. Following(log) :
        n <= t /\ Whole(log) = 0 .. n - 1 /\ TornFiles(log) = t .. Following(log) - 1
  BY DEF Orderly
<1>3. t < Following(log)  BY <1>1, <1>2
<1>4. Min(InvalidSuffix(log)) = t
  <2>1. InvalidSuffix(log) \in SUBSET Int /\ t \in InvalidSuffix(log)
        /\ \A x \in InvalidSuffix(log) : t <= x
    BY <1>1, <1>2, <1>3, SuffixIs
  <2>. QED  BY <2>1, MinIs
<1>5. /\ DOMAIN Moved(log) = DOMAIN log \ {t}
      /\ \A i \in DOMAIN log \ {t} : Moved(log)[i] = log[i]
  BY <1>4 DEF Moved, Restrict
<1>6. TornFiles(Moved(log)) = TornFiles(log) \ {t}  BY <1>5 DEF TornFiles
<1>7. TornFiles(Moved(log)) = t + 1 .. Following(log) - 1
  BY <1>1, <1>2, <1>6
<1>8. Whole(Moved(log)) = Whole(log)
  <2>1. t \in TornFiles(log)  BY <1>1, <1>2, <1>3
  <2>. QED  BY <1>5, <1>6, <2>1 DEF Whole
<1>9. \A i \in Whole(log) : Moved(log)[i] = log[i]
  BY <1>5, <1>8 DEF Whole
<1>10. CASE t + 1 < Following(log)
  BY <1>1, <1>2, <1>3, <1>7, <1>8, <1>9, <1>10, OrderlyIs
<1>11. CASE t + 1 = Following(log)
  <2>1. TornFiles(Moved(log)) = n .. n - 1 /\ n \in Nat  BY <1>1, <1>2, <1>7, <1>11
  <2>. QED  BY <1>1, <1>2, <1>8, <1>9, <2>1, OrderlyIs
<1>. QED  BY <1>1, <1>2, <1>3, <1>10, <1>11

\* A shutdown finds a log as it is or with one more file that was begun, and spoils
\* the newest files, those from number k on.
Begun(log, b) == b = log \/ b = WithFile(log, Following(log), Torn)
Spoilt(b, k) == [i \in DOMAIN b |-> IF i >= k THEN Torn ELSE b[i]]

LEMMA BegunIs ==
  ASSUME NEW log, NEW b, Orderly(log), TornFiles(log) = {}, Begun(log, b)
  PROVE  \E f \in {Following(log), Following(log) + 1} :
           /\ f \in Nat /\ DOMAIN b = 0 .. f - 1 /\ Newest(b) = f - 1
           /\ \A i \in DOMAIN log : b[i] = log[i]
           /\ f = Following(log) + 1 => b[Following(log)] = Torn
<1>. DEFINE n == Following(log)
<1>1. n \in Nat /\ DOMAIN log = 0 .. n - 1 /\ Newest(log) = n - 1  BY WholeLog
<1>. HIDE DEF n
<1>2. CASE b = log  BY <1>1, <1>2 DEF n
<1>3. CASE b = WithFile(log, n, Torn)
  <2>. DEFINE f == n + 1
  <2>1. /\ f \in {n, n + 1} /\ f \in Nat /\ f - 1 = n /\ (0 .. n - 1) \union {n} = 0 .. f - 1
        /\ \A i \in 0 .. n - 1 : i # n
    BY <1>1
  <2>. HIDE DEF f
  <2>2. /\ DOMAIN b = 0 .. f - 1 /\ b[n] = Torn
        /\ \A i \in DOMAIN log : b[i] = log[i]
    BY <1>1, <1>3, <2>1 DEF WithFile
  <2>3. Newest(b) = f - 1
    <3>1. f - 1 \in DOMAIN b  BY <1>1, <2>1, <2>2
    <3>. QED  BY <2>1, <2>2, <3>1, FollowingIs DEF Newest
  <2>4. \E g \in {n, n + 1} :
          /\ g \in Nat /\ DOMAIN b = 0 .. g - 1 /\ Newest(b) = g - 1
          /\ \A i \in DOMAIN log : b[i] = log[i]
          /\ g = n + 1 => b[n] = Torn
    BY <2>1, <2>2, <2>3
  <2>. QED  BY <2>4 DEF n
<1>. QED  BY <1>2, <1>3 DEF Begun, n

LEMMA SpoiltIs ==
  ASSUME NEW log, NEW b, NEW k \in Int, Orderly(log), TornFiles(log) = {}, Begun(log, b)
  PROVE  /\ Orderly(Spoilt(b, k))
         /\ Whole(Spoilt(b, k)) = {i \in DOMAIN log : i < k}
         /\ \A i \in Whole(Spoilt(b, k)) : Spoilt(b, k)[i] = log[i]
         /\ TornFiles(Spoilt(b, k)) = {} => DOMAIN Spoilt(b, k) = DOMAIN log
<1>. DEFINE n == Following(log)
            c == IF k < 0 THEN 0 ELSE IF k > n THEN n ELSE k
            new == Spoilt(b, k)
<1>1. /\ n \in Nat /\ DOMAIN log = 0 .. n - 1
      /\ \A i \in DOMAIN log : log[i] # Torn
  BY WholeLog DEF TornFiles
<1>. HIDE DEF n
<1>2. c \in 0 .. n /\ \A i \in 0 .. n - 1 : i < c <=> i < k
  BY <1>1
<1>3. PICK f \in {n, n + 1} :
        /\ DOMAIN b = 0 .. f - 1
        /\ \A i \in DOMAIN log : b[i] = log[i]
        /\ f = n + 1 => b[n] = Torn
  BY BegunIs DEF n
<1>4. DOMAIN new = DOMAIN b /\ \A i \in DOMAIN b : new[i] = IF i >= k THEN Torn ELSE b[i]
  BY DEF Spoilt
<1>5. \A i \in DOMAIN new : new[i] = Torn <=> i >= c
  BY <1>1, <1>2, <1>3, <1>4
<1>. HIDE DEF c, new
<1>6. TornFiles(new) = c .. f - 1 /\ Whole(new) = 0 .. c - 1
  BY <1>1, <1>2, <1>3, <1>4, <1>5 DEF TornFiles, Whole
<1>7. Orderly(new)  BY <1>1, <1>2, <1>3, <1>6, OrderlyIs
<1>8. Whole(new) = {i \in DOMAIN log : i < k}
  <2>1. \A i \in 0 .. c - 1 : i \in 0 .. n - 1 /\ i < k
    <3>1. \A i \in 0 .. c - 1 : i \in 0 .. n - 1 /\ i < c  BY <1>1, <1>2
    <3>. QED  BY <1>2, <3>1
  <2>2. \A i \in 0 .. n - 1 : i < k => i \in 0 .. c - 1  BY <1>1, <1>2
  <2>. QED  BY <1>1, <1>6, <2>1, <2>2
<1>9. \A i \in Whole(new) : new[i] = log[i]
  BY <1>1, <1>2, <1>3, <1>4, <1>6
<1>10. TornFiles(new) = {} => DOMAIN new = DOMAIN log
  BY <1>1, <1>2, <1>3, <1>4, <1>6
<1>. QED  BY <1>7, <1>8, <1>9, <1>10 DEF new

\* A new file continues a log without incomplete ones.
LEMMA AppendedIs ==
  ASSUME NEW log, NEW new, NEW x, x # Torn, Orderly(log), TornFiles(log) = {},
         DOMAIN new = DOMAIN log \union {Following(log)}, new[Following(log)] = x,
         \A i \in DOMAIN log : new[i] = log[i]
  PROVE  /\ Orderly(new) /\ TornFiles(new) = {}
         /\ Following(new) = Following(log) + 1
<1>1. Following(log) \in Nat /\ DOMAIN log = 0 .. Following(log) - 1  BY WholeLog
<1>2. TornFiles(new) = {}
  BY DEF TornFiles
<1>. DEFINE f == Following(log) + 1
<1>3. DOMAIN new = 0 .. f - 1 /\ f \in Nat  BY <1>1
<1>. HIDE DEF f
<1>4. Whole(new) = 0 .. f - 1 /\ TornFiles(new) = f .. f - 1  BY <1>2, <1>3 DEF Whole
<1>. QED  BY <1>2, <1>3, <1>4, OrderlyIs DEF f

-----------------------------------------------------------------------------
(* One writer and its logs *)

InPlace(w) ==
  phase[w] # "fresh" /\ Legible(w) =>
    /\ end[w] = ReadEnd(offsets[w], w)
    /\ start[w] = ReadStart(offsets[w], commits[w], w)
    /\ DOMAIN commits[w] \subseteq DOMAIN offsets[w]

WriterOK(w) == LogOK(w) /\ InPlace(w)

LEMMA WriterFrame ==
  ASSUME NEW v \in Writers, WriterOK(v),
         UNCHANGED <<origin[v], offsets[v], commits[v], phase[v], start[v], end[v]>>
  PROVE  WriterOK(v)'
<1>. USE DEF WriterOK, LogOK
<1>1. InPlace(v)'
  BY DEF InPlace, Legible, IsTorn, ReadEnd, ReadStart, Newest, Following
<1>2. Orderly(offsets[v])' /\ Orderly(commits[v])'
  BY DEF Orderly, Following, Whole, TornFiles
<1>3. Paired(v)'  BY DEF Paired, Whole, TornFiles
<1>4. Ascending(v)'  BY DEF Ascending, Before, Whole, TornFiles
<1>5. NotAhead(v)'  BY DEF NotAhead, Whole, TornFiles
<1>6. RunsLegible(v)'  BY DEF RunsLegible, TornFiles
<1>. QED  BY <1>1, <1>2, <1>3, <1>4, <1>5, <1>6

\* What a query has read from logs without incomplete files: it repeats the newest
\* planned batch unless that is done.
LEMMA ReadLogs ==
  ASSUME NEW w \in Writers, WriterOK(w), Legible(w), phase[w] # "fresh"
  PROVE  /\ TornFiles(offsets[w]) = {} /\ TornFiles(commits[w]) = {}
         /\ Whole(offsets[w]) = DOMAIN offsets[w] /\ Whole(commits[w]) = DOMAIN commits[w]
         /\ \E f \in Nat : \E g \in {f, f - 1} :
              /\ g \in Nat
              /\ Following(offsets[w]) = f /\ Newest(offsets[w]) = f - 1
              /\ Following(commits[w]) = g
              /\ DOMAIN offsets[w] = 0 .. f - 1 /\ DOMAIN commits[w] = 0 .. g - 1
              /\ end[w] = Before(w, f)
              /\ start[w] = Before(w, g)
              /\ start[w] = end[w] <=> g = f
<1>1. Orderly(offsets[w]) /\ Orderly(commits[w])  BY DEF WriterOK, LogOK
<1>2. TornFiles(offsets[w]) = {} /\ TornFiles(commits[w]) = {}
  BY <1>1, LegibleLog DEF Legible
<1>. DEFINE f == Following(offsets[w])
            g == Following(commits[w])
<1>3. /\ f \in Nat /\ g \in Nat /\ Newest(offsets[w]) = f - 1
      /\ Whole(offsets[w]) = DOMAIN offsets[w] /\ Whole(commits[w]) = DOMAIN commits[w]
      /\ DOMAIN offsets[w] = 0 .. f - 1 /\ DOMAIN commits[w] = 0 .. g - 1
  BY <1>1, <1>2, WholeLog
<1>. HIDE DEF f, g
<1>4. g \in {f, f - 1}
  <2>1. 0 .. g - 1 \subseteq 0 .. f - 1 /\ \A n \in 0 .. f - 1 : n = 0 \/ n - 1 \in 0 .. g - 1
    BY <1>3 DEF WriterOK, LogOK, Paired
  <2>2. g <= f
    <3>1. CASE g # 0
      <4>1. g - 1 \in 0 .. f - 1  BY <1>3, <2>1, <3>1
      <4>. QED  BY <1>3, <4>1
    <3>. QED  BY <1>3, <3>1
  <2>3. f <= g + 1
    <3>1. CASE f > 1
      <4>1. f - 2 \in 0 .. g - 1  BY <1>3, <2>1, <3>1
      <4>. QED  BY <1>3, <4>1
    <3>. QED  BY <1>3, <3>1
  <2>. QED  BY <1>3, <2>2, <2>3
<1>5. /\ end[w] = ReadEnd(offsets[w], w) /\ start[w] = ReadStart(offsets[w], commits[w], w)
  BY DEF WriterOK, InPlace
<1>6. end[w] = Before(w, f)
  <2>1. DOMAIN offsets[w] = {} <=> f = 0
    BY <1>3
  <2>. QED  BY <1>3, <1>5, <2>1 DEF ReadEnd, Before
<1>7. start[w] = Before(w, g)
  <2>1. CASE g = f /\ f # 0
    <3>1. f - 1 \in DOMAIN commits[w]  BY <1>3, <2>1
    <3>. QED  BY <1>3, <1>5, <1>6, <2>1, <3>1 DEF ReadStart
  <2>2. CASE f = 0
    <3>1. g = 0 /\ f - 1 \notin DOMAIN commits[w] /\ f - 2 \notin DOMAIN offsets[w]
      BY <1>3, <1>4, <2>2
    <3>. QED  BY <1>3, <1>5, <2>2, <3>1 DEF ReadStart, Before
  <2>3. CASE g = f - 1
    <3>1. f - 1 \notin DOMAIN commits[w] /\ (f - 2 \in DOMAIN offsets[w] <=> g # 0)
      BY <1>3, <2>3
    <3>2. f - 1 - 1 = g - 1  BY <1>3, <2>3
    <3>. QED  BY <1>3, <1>5, <2>3, <3>1, <3>2 DEF ReadStart, Before
  <2>. QED  BY <1>4, <2>1, <2>2, <2>3
<1>8. start[w] = end[w] <=> g = f
  <2>1. CASE g = f - 1
    <3>1. g \in Whole(offsets[w]) /\ f # 0 /\ g # f  BY <1>3, <2>1
    <3>2. offsets[w][g] # Before(w, g)  BY <3>1 DEF WriterOK, LogOK, Ascending
    <3>. QED  BY <1>6, <1>7, <2>1, <3>1, <3>2 DEF Before
  <2>. QED  BY <1>4, <1>6, <1>7, <2>1
<1>. QED  BY <1>2, <1>3, <1>4, <1>6, <1>7, <1>8 DEF f, g

\* The converse: logs that say where the writer is keep it in place.
LEMMA InPlaceIf ==
  ASSUME NEW o, NEW c, NEW z, NEW s, NEW e, NEW f \in Nat, NEW g \in Nat, g \in {f, f - 1},
         DOMAIN o = 0 .. f - 1, DOMAIN c = 0 .. g - 1,
         e = (IF f = 0 THEN z ELSE o[f - 1]), s = (IF g = 0 THEN z ELSE o[g - 1])
  PROVE  /\ e = IF DOMAIN o = {} THEN z ELSE o[Newest(o)]
         /\ s = IF Newest(o) \in DOMAIN c THEN e
                ELSE IF Newest(o) - 1 \in DOMAIN o THEN o[Newest(o) - 1] ELSE z
         /\ DOMAIN c \subseteq DOMAIN o
<1>1. Newest(o) = f - 1
  <2>1. f = 0 \/ f - 1 \in DOMAIN o  OBVIOUS
  <2>. QED  BY <2>1, FollowingIs DEF Newest
<1>2. DOMAIN o = {} <=> f = 0  OBVIOUS
<1>3. DOMAIN c \subseteq DOMAIN o  OBVIOUS
<1>4. CASE f = 0
  <2>1. g = 0 /\ f - 1 \notin DOMAIN c /\ f - 2 \notin DOMAIN o  BY <1>4
  <2>. QED  BY <1>1, <1>2, <1>3, <1>4, <2>1
<1>5. CASE g = f /\ f # 0
  <2>1. f - 1 \in DOMAIN c  BY <1>5
  <2>. QED  BY <1>1, <1>2, <1>3, <1>5, <2>1
<1>6. CASE g = f - 1
  <2>1. f - 1 \notin DOMAIN c /\ (f - 2 \in DOMAIN o <=> g # 0) /\ f - 1 - 1 = g - 1  BY <1>6
  <2>. QED  BY <1>1, <1>2, <1>3, <1>6, <2>1
<1>. QED  BY <1>4, <1>5, <1>6

\* A step that leaves logs and positions alone, and goes only where the logs allow.
LEMMA LogsKept ==
  ASSUME NEW w \in Writers, WriterOK(w),
         UNCHANGED <<origin[w], offsets[w], commits[w], start[w], end[w]>>,
         phase[w] # "fresh", phase'[w] # "fresh",
         phase'[w] # "down" => TornFiles(offsets[w]) = {} /\ TornFiles(commits[w]) = {},
         phase'[w] \in Busy \union {"done"} => start[w] # end[w]
  PROVE  WriterOK(w)'
<1>. USE DEF WriterOK, LogOK
<1>1. InPlace(w)'
  BY DEF InPlace, Legible, IsTorn, ReadEnd, ReadStart, Newest, Following
<1>2. Orderly(offsets[w])' /\ Orderly(commits[w])'
  BY DEF Orderly, Following, Whole, TornFiles
<1>3. Paired(w)'  BY DEF Paired, Whole, TornFiles
<1>4. Ascending(w)'  BY DEF Ascending, Before, Whole, TornFiles
<1>5. NotAhead(w)'  BY DEF NotAhead, Whole, TornFiles
<1>6. RunsLegible(w)'  BY DEF RunsLegible, TornFiles
<1>. QED  BY <1>1, <1>2, <1>3, <1>4, <1>5, <1>6

\* Outside a stop, what a writer is about to read has no incomplete file.
LEMMA RunningIsLegible ==
  ASSUME NEW w \in Writers, WriterOK(w), phase[w] # "down"
  PROVE  Legible(w)
BY DEF WriterOK, LogOK, RunsLegible, Legible, IsTorn, TornFiles

\* A container starts only with logs that Spark can read.
LEMMA LogsStartQuery ==
  ASSUME DataOK, LogTypeOK, NEW w \in Writers, WriterOK(w), StartQuery(w)
  PROVE  WriterOK(w)'
<1>1. phase'[w] = "idle" /\ UNCHANGED <<offsets, commits>>
  BY DEF StartQuery, Start, Goto, DataOK
<1>2. phase'[w] \notin Busy \union {"done"}  BY <1>1 DEF Busy, Working, Claiming
<1>3. CASE phase[w] = "down"
  <2>1. UNCHANGED <<origin[w], start, end>>
    BY <1>3 DEF StartQuery, Start, LogTypeOK, sparkVars
  <2>2. TornFiles(offsets[w]) = {} /\ TornFiles(commits[w]) = {}
    BY <1>3, ReadLogs DEF StartQuery
  <2>. QED  BY <1>1, <1>2, <1>3, <2>1, <2>2, LogsKept
<1>4. CASE phase[w] = "fresh"
  <2>1. origin'[w] = logLow /\ start'[w] = logLow /\ end'[w] = logLow
    BY <1>4 DEF StartQuery, Start, LogTypeOK, DataOK
  <2>2. DOMAIN offsets[w] = {} /\ DOMAIN commits[w] = {}
    BY <1>4 DEF WriterOK, LogOK, RunsLegible
  <2>3. Whole(offsets[w]) = {} /\ Whole(commits[w]) = {}
        /\ TornFiles(offsets[w]) = {} /\ TornFiles(commits[w]) = {}
    BY <2>2 DEF Whole, TornFiles
  <2>4. Orderly(offsets[w])' /\ Orderly(commits[w])'
    BY <1>1 DEF WriterOK, LogOK, Orderly, Following, Whole, TornFiles
  <2>5. Paired(w)' /\ Ascending(w)'
    BY <1>1, <2>3 DEF Paired, Ascending, Whole, TornFiles
  <2>6. \A p \in Partitions : logLow[p] \in Int  BY DEF DataOK, Positions
  <2>7. NotAhead(w)'
    BY <1>1, <2>1, <2>3, <2>6 DEF NotAhead, Upto, Whole, TornFiles
  <2>8. RunsLegible(w)'
    BY <1>1, <1>2, <2>3 DEF RunsLegible, TornFiles
  <2>9. InPlace(w)'
    <3>1. Newest(offsets'[w]) \notin DOMAIN commits'[w]
          /\ Newest(offsets'[w]) - 1 \notin DOMAIN offsets'[w]
      BY <1>1, <2>2
    <3>. QED  BY <1>1, <2>1, <2>2, <3>1 DEF InPlace, ReadEnd, ReadStart
  <2>. QED  BY <2>4, <2>5, <2>7, <2>8, <2>9 DEF WriterOK, LogOK
<1>. QED  BY <1>3, <1>4 DEF StartQuery, Start

\* A new plan goes beyond the position of the checkpoint.
LEMMA PlanGoesOn ==
  ASSUME DataOK, NEW w \in Writers, Plan(w)
  PROVE  /\ phase[w] = "idle" /\ phase'[w] = "idle" /\ start[w] = end[w]
         /\ start'[w] = start[w]
         /\ end'[w] \in Positions /\ end'[w] # start[w] /\ Upto(start[w], end'[w])
<1>1. PICK target \in Positions :
        /\ \A p \in Partitions : start[w][p] <= target[p]
        /\ Cardinality(Rows(start[w], target)) \in 1 .. MaxPerTrigger
        /\ end' = [end EXCEPT ![w] = target]
  BY DEF Plan
<1>2. target # start[w]
  <2>. SUFFICES ASSUME target = start[w]  PROVE FALSE
    OBVIOUS
  <2>1. \A p \in Partitions : start[w][p] \in Int  BY DEF DataOK, Positions
  <2>2. \A r \in AllRows : r[1] \in Partitions /\ r[2] \in Int  BY DEF AllRows, Offsets
  <2>3. Rows(start[w], target) = {}  BY <2>1, <2>2 DEF Rows
  <2>. QED  BY <1>1, <2>3, FS_EmptySet
<1>. QED  BY <1>1, <1>2 DEF Plan, DataOK, Upto

LEMMA UptoTransitive ==
  ASSUME NEW a \in Positions, NEW b \in Positions, NEW c \in Positions, Upto(a, b), Upto(b, c)
  PROVE  Upto(a, c)
<1>. SUFFICES ASSUME NEW p \in Partitions  PROVE a[p] <= c[p]
  BY DEF Upto
<1>1. a[p] \in Int /\ b[p] \in Int /\ c[p] \in Int  BY DEF Positions
<1>. QED  BY <1>1 DEF Upto

LEMMA UptoItself ==
  ASSUME NEW a \in Positions
  PROVE  Upto(a, a)
<1>1. \A p \in Partitions : a[p] \in Int  BY DEF Positions
<1>. QED  BY <1>1 DEF Upto

\* The plan of the next batch is written when the one before has its commit entry.
LEMMA LogsPlanBatch ==
  ASSUME DataOK, LogTypeOK, NEW w \in Writers, WriterOK(w), PlanBatch(w)
  PROVE  WriterOK(w)'
<1>. DEFINE target == end'[w]
<1>1. /\ phase[w] = "idle" /\ phase'[w] = "idle" /\ start[w] = end[w] /\ start'[w] = start[w]
      /\ target \in Positions /\ target # start[w] /\ Upto(start[w], target)
      /\ UNCHANGED <<origin, commits>>
  BY PlanGoesOn DEF PlanBatch
<1>. HIDE DEF target
<1>2. PICK f \in Nat :
        /\ TornFiles(offsets[w]) = {} /\ TornFiles(commits[w]) = {}
        /\ Whole(offsets[w]) = DOMAIN offsets[w] /\ Whole(commits[w]) = DOMAIN commits[w]
        /\ Following(offsets[w]) = f
        /\ DOMAIN offsets[w] = 0 .. f - 1 /\ DOMAIN commits[w] = 0 .. f - 1
        /\ start[w] = Before(w, f)
  <2>1. Legible(w)  BY <1>1, RunningIsLegible
  <2>. QED  BY <1>1, <2>1, ReadLogs
<1>3. /\ DOMAIN offsets'[w] = DOMAIN offsets[w] \union {f} /\ offsets'[w][f] = target
      /\ \A i \in DOMAIN offsets[w] : offsets'[w][i] = offsets[w][i]
  <2>1. offsets'[w] = WithFile(offsets[w], f, target)
    BY <1>2 DEF PlanBatch, LogTypeOK, target
  <2>2. \A i \in DOMAIN offsets[w] : i # f  BY <1>2
  <2>. QED  BY <2>1, <2>2 DEF WithFile
<1>4. DOMAIN offsets'[w] = 0 .. f  BY <1>2, <1>3
<1>5. target # Torn  BY <1>1, LogAssumption
<1>6. Orderly(offsets'[w]) /\ TornFiles(offsets'[w]) = {}
  <2>1. Orderly(offsets[w])  BY DEF WriterOK, LogOK
  <2>. QED  BY <1>2, <1>3, <1>5, <2>1, AppendedIs
<1>7. Whole(offsets'[w]) = 0 .. f  BY <1>4, <1>6 DEF Whole
<1>8. Orderly(commits[w]) /\ Paired(w) /\ Ascending(w) /\ NotAhead(w)
  BY DEF WriterOK, LogOK
<1>9. Paired(w)'
  <2>1. 0 .. f - 1 \subseteq 0 .. f /\ \A n \in 0 .. f : n = 0 \/ n - 1 \in 0 .. f - 1
    OBVIOUS
  <2>. QED  BY <1>1, <1>2, <1>7, <2>1 DEF Paired
<1>10. NotAhead(w)'
  <2>1. Upto(origin[w], start[w]) /\ \A n \in 0 .. f - 1 : Upto(offsets[w][n], start[w])
    BY <1>1, <1>2, <1>8 DEF NotAhead
  <2>. QED  BY <1>1, <1>2, <1>3, <2>1 DEF NotAhead
<1>11. Ascending(w)'
  <2>. SUFFICES ASSUME NEW n \in 0 .. f
                PROVE  /\ offsets'[w][n] \in Positions
                       /\ offsets'[w][n] # (IF n = 0 THEN origin[w] ELSE offsets'[w][n - 1])
                       /\ Upto(origin[w], offsets'[w][n])
                       /\ \A m \in 0 .. f : m < n => Upto(offsets'[w][m], offsets'[w][n])
    BY <1>1, <1>7 DEF Ascending, Before
  <2>1. CASE n < f
    <3>1. n \in Whole(offsets[w]) /\ \A m \in 0 .. f : m < n => m \in Whole(offsets[w])
      BY <1>2, <2>1
    <3>2. n = 0 \/ n - 1 \in DOMAIN offsets[w]  BY <1>2, <2>1
    <3>. QED  BY <1>2, <1>3, <1>8, <3>1, <3>2 DEF Ascending, Before
  <2>2. CASE n = f
    <3>1. origin[w] \in Positions /\ start[w] \in Positions  BY DEF LogTypeOK, DataOK
    <3>2. \A m \in 0 .. f - 1 : offsets[w][m] \in Positions  BY <1>2, <1>8 DEF Ascending
    <3>3. Upto(origin[w], start[w]) /\ \A m \in 0 .. f - 1 : Upto(offsets[w][m], start[w])
      BY <1>1, <1>2, <1>8 DEF NotAhead
    <3>4. Upto(origin[w], target) /\ \A m \in 0 .. f - 1 : Upto(offsets[w][m], target)
      BY <1>1, <3>1, <3>2, <3>3, UptoTransitive
    <3>5. f = 0 \/ f - 1 \in 0 .. f - 1  OBVIOUS
    <3>6. \A m \in 0 .. f : m < f => m \in 0 .. f - 1  OBVIOUS
    <3>. QED  BY <1>1, <1>2, <1>3, <2>2, <3>4, <3>5, <3>6 DEF Before
  <2>. QED  BY <2>1, <2>2
<1>12. RunsLegible(w)'
  BY <1>1, <1>2, <1>6 DEF RunsLegible, Busy, Working, Claiming
<1>13. InPlace(w)'
  <2>. DEFINE h == f + 1
  <2>1. DOMAIN offsets'[w] = 0 .. h - 1 /\ DOMAIN commits'[w] = 0 .. f - 1 /\ h \in Nat
        /\ f \in {h, h - 1}
    BY <1>1, <1>2, <1>4
  <2>2. target = IF h = 0 THEN origin[w] ELSE offsets'[w][h - 1]
    BY <1>3
  <2>3. start[w] = IF f = 0 THEN origin[w] ELSE offsets'[w][f - 1]
    <3>1. f = 0 \/ f - 1 \in DOMAIN offsets[w]  BY <1>2
    <3>. QED  BY <1>2, <1>3, <3>1 DEF Before
  <2>. HIDE DEF h
  <2>4. /\ target = IF DOMAIN offsets'[w] = {} THEN origin[w] ELSE offsets'[w][Newest(offsets'[w])]
        /\ start[w] = IF Newest(offsets'[w]) \in DOMAIN commits'[w] THEN target
             ELSE IF Newest(offsets'[w]) - 1 \in DOMAIN offsets'[w]
               THEN offsets'[w][Newest(offsets'[w]) - 1] ELSE origin[w]
        /\ DOMAIN commits'[w] \subseteq DOMAIN offsets'[w]
    BY <2>1, <2>2, <2>3, InPlaceIf
  <2>. QED  BY <1>1, <2>4 DEF InPlace, ReadEnd, ReadStart, target
<1>. QED  BY <1>1, <1>6, <1>8, <1>9, <1>10, <1>11, <1>12, <1>13 DEF WriterOK, LogOK

\* The commit entry of the batch that is done moves the checkpoint to its end.
LEMMA LogsCommitBatch ==
  ASSUME DataOK, LogTypeOK, NEW w \in Writers, WriterOK(w), CommitBatch(w)
  PROVE  WriterOK(w)'
<1>1. /\ phase[w] = "done" /\ phase'[w] = "idle" /\ start'[w] = end[w] /\ end'[w] = end[w]
      /\ UNCHANGED <<origin, offsets>>
  BY DEF CommitBatch, CommitCheckpoint, Goto, DataOK
<1>2. PICK f \in Nat \ {0} :
        /\ TornFiles(offsets[w]) = {} /\ TornFiles(commits[w]) = {}
        /\ Whole(offsets[w]) = DOMAIN offsets[w]
        /\ Newest(offsets[w]) = f - 1 /\ Following(commits[w]) = f - 1
        /\ DOMAIN offsets[w] = 0 .. f - 1 /\ DOMAIN commits[w] = 0 .. f - 2
        /\ end[w] = offsets[w][f - 1]
  <2>1. Legible(w)  BY <1>1, RunningIsLegible
  <2>2. start[w] # end[w]  BY <1>1 DEF WriterOK, LogOK, RunsLegible
  <2>3. PICK f \in Nat : \E g \in {f, f - 1} :
              /\ g \in Nat /\ g # f
              /\ TornFiles(offsets[w]) = {} /\ TornFiles(commits[w]) = {}
              /\ Whole(offsets[w]) = DOMAIN offsets[w]
              /\ Newest(offsets[w]) = f - 1 /\ Following(commits[w]) = g
              /\ DOMAIN offsets[w] = 0 .. f - 1 /\ DOMAIN commits[w] = 0 .. g - 1
              /\ end[w] = Before(w, f)
    BY <1>1, <2>1, <2>2, ReadLogs
  <2>4. f # 0 /\ f - 1 - 1 = f - 2  BY <2>3
  <2>. QED  BY <2>3, <2>4 DEF Before
<1>3. /\ DOMAIN commits'[w] = DOMAIN commits[w] \union {f - 1} /\ commits'[w][f - 1] = "done"
      /\ \A i \in DOMAIN commits[w] : commits'[w][i] = commits[w][i]
  <2>1. commits'[w] = WithFile(commits[w], f - 1, "done")
    BY <1>2 DEF CommitBatch, LogTypeOK
  <2>2. \A i \in DOMAIN commits[w] : i # f - 1  BY <1>2
  <2>. QED  BY <2>1, <2>2 DEF WithFile
<1>4. DOMAIN commits'[w] = 0 .. f - 1  BY <1>2, <1>3
<1>5. Orderly(commits'[w]) /\ TornFiles(commits'[w]) = {}
  <2>1. Orderly(commits[w])  BY DEF WriterOK, LogOK
  <2>2. "done" # Torn  BY LogAssumption
  <2>3. /\ DOMAIN commits'[w] = DOMAIN commits[w] \union {Following(commits[w])}
        /\ commits'[w][Following(commits[w])] = "done"
    BY <1>2, <1>3
  <2>. QED  BY <1>2, <1>3, <2>1, <2>2, <2>3, AppendedIs
<1>6. Whole(commits'[w]) = 0 .. f - 1 /\ Whole(offsets[w]) = 0 .. f - 1
  BY <1>2, <1>4, <1>5 DEF Whole
<1>7. Orderly(offsets[w]) /\ Ascending(w)  BY DEF WriterOK, LogOK
<1>8. Paired(w)'
  <2>1. \A n \in 0 .. f - 1 : n = 0 \/ n - 1 \in 0 .. f - 1  OBVIOUS
  <2>. QED  BY <1>1, <1>6, <2>1 DEF Paired
<1>9. Ascending(w)'  BY <1>1, <1>7 DEF Ascending, Before
<1>10. NotAhead(w)'
  <2>1. f - 1 \in 0 .. f - 1  OBVIOUS
  <2>2. Upto(origin[w], end[w]) /\ end[w] \in Positions
    BY <1>2, <1>6, <1>7, <2>1 DEF Ascending
  <2>3. ASSUME NEW n \in 0 .. f - 1  PROVE Upto(offsets[w][n], end[w])
    <3>1. CASE n = f - 1  BY <1>2, <2>2, <3>1, UptoItself
    <3>2. CASE n < f - 1  BY <1>2, <1>6, <1>7, <2>1, <3>2 DEF Ascending
    <3>. QED  BY <3>1, <3>2
  <2>. QED  BY <1>1, <1>6, <2>2, <2>3 DEF NotAhead
<1>11. RunsLegible(w)'
  BY <1>1, <1>2, <1>5 DEF RunsLegible, Busy, Working, Claiming
<1>12. InPlace(w)'
  <2>1. DOMAIN offsets[w] # {}
    <3>1. f - 1 \in 0 .. f - 1  OBVIOUS
    <3>. QED  BY <1>2, <3>1
  <2>. QED  BY <1>1, <1>2, <1>4, <2>1 DEF InPlace, ReadEnd, ReadStart
<1>. QED  BY <1>1, <1>5, <1>7, <1>8, <1>9, <1>10, <1>11, <1>12 DEF WriterOK, LogOK

\* process_batch leaves the checkpoint alone, and runs while a batch is planned.
LEMMA LogsProcessBatch ==
  ASSUME DataOK, LogTypeOK, NEW w \in Writers, WriterOK(w), ProcessBatch(w), UNCHANGED logVars
  PROVE  WriterOK(w)'
<1>. DEFINE Runs == /\ UNCHANGED <<start, end>>
                    /\ phase[w] \in Busy \/ (phase[w] = "idle" /\ start[w] # end[w])
                    /\ phase'[w] \in Busy \union {"down", "done"}
<1>1. Runs
  <2>. USE DEF Stop, Goto, DataOK, sparkVars, Busy, Working, Claiming
  <2>1. CASE Begin(w)  BY <2>1 DEF Begin
  <2>2. CASE ReadMarks(w)  BY <2>2 DEF ReadMarks
  <2>3. CASE CheckLedger(w)  BY <2>3 DEF CheckLedger
  <2>4. CASE Allocate(w) \/ ClearPrefix(w) \/ WriteParquet(w) \/ WriteQuarantine(w)
    BY <2>4 DEF Allocate, ClearPrefix, WriteParquet, WriteQuarantine
  <2>5. CASE BuildManifest(w)  BY <2>5 DEF BuildManifest
  <2>6. CASE Commit(w)  BY <2>6 DEF Commit
  <2>7. CASE Return(w)  BY <2>7 DEF Return
  <2>. QED  BY <2>1, <2>2, <2>3, <2>4, <2>5, <2>6, <2>7 DEF ProcessBatch
<1>2. /\ TornFiles(offsets[w]) = {} /\ TornFiles(commits[w]) = {}
      /\ phase'[w] \in Busy \union {"done"} => start[w] # end[w]
  BY <1>1 DEF WriterOK, LogOK, RunsLegible, Busy, Working, Claiming
<1>3. phase[w] # "fresh" /\ phase'[w] # "fresh"  BY <1>1 DEF Busy, Working, Claiming
<1>. QED  BY <1>1, <1>2, <1>3, LogsKept DEF logVars

\* What a shutdown does to the two logs, by the numbers from which it spoils them.
LEMMA ShutdownSpoils ==
  ASSUME NEW o, NEW c, NEW r \in Int, DOMAIN o \subseteq Int, DOMAIN c \subseteq Int
  PROVE  \E k, l \in Int :
           /\ SpoilFrom(o, OffsetRank, r) = Spoilt(o, k)
           /\ SpoilFrom(c, CommitRank, r) = Spoilt(c, l)
           /\ l \in {k, k - 1}
<1>1. PICK q \in Int : r = 2 * q \/ r = 2 * q + 1
  <2>1. r \div 2 \in Int /\ (r = 2 * (r \div 2) \/ r = 2 * (r \div 2) + 1)
    OBVIOUS
  <2>. QED  BY <2>1
<1>2. CASE r = 2 * q
  <2>1. \A n \in Int : (2 * n >= r <=> n >= q) /\ (2 * n + 1 >= r <=> n >= q)
    BY <1>2
  <2>2. SpoilFrom(o, OffsetRank, r) = Spoilt(o, q)
    BY <2>1 DEF SpoilFrom, OffsetRank, Spoilt
  <2>3. SpoilFrom(c, CommitRank, r) = Spoilt(c, q)
    BY <2>1 DEF SpoilFrom, CommitRank, Spoilt
  <2>. QED  BY <2>2, <2>3
<1>3. CASE r = 2 * q + 1
  <2>1. \A n \in Int : (2 * n >= r <=> n >= q + 1) /\ (2 * n + 1 >= r <=> n >= q)
    BY <1>3
  <2>2. SpoilFrom(o, OffsetRank, r) = Spoilt(o, q + 1)
    BY <2>1 DEF SpoilFrom, OffsetRank, Spoilt
  <2>3. SpoilFrom(c, CommitRank, r) = Spoilt(c, q)
    BY <2>1 DEF SpoilFrom, CommitRank, Spoilt
  <2>4. q + 1 \in Int /\ q = q + 1 - 1  OBVIOUS
  <2>. QED  BY <2>2, <2>3, <2>4
<1>. QED  BY <1>1, <1>2, <1>3

\* A shutdown leaves a first part of what the query had written.
LEMMA LogsShutdown ==
  ASSUME DataOK, LogTypeOK, NEW w \in Writers, WriterOK(w), Shutdown(w)
  PROVE  WriterOK(w)'
<1>. DEFINE o == OffsetsBegun(w)
            c == CommitsBegun(w)
<1>1. /\ phase[w] \notin {"fresh", "down"} /\ phase'[w] = "down"
      /\ UNCHANGED <<start, end, origin>>
  BY DEF Shutdown, Crash, Stop, Goto, DataOK, sparkVars
<1>2. CASE UNCHANGED <<offsets, commits>>
  BY <1>1, <1>2, LogsKept DEF Busy, Working, Claiming
<1>3. ASSUME NEW lost \in 0 .. MaxLost,
             LET r == LastRank(OffsetsBegun(w), CommitsBegun(w)) + 1 - lost IN
             /\ offsets' = [offsets EXCEPT ![w] = SpoilFrom(OffsetsBegun(w), OffsetRank, r)]
             /\ commits' = [commits EXCEPT ![w] = SpoilFrom(CommitsBegun(w), CommitRank, r)]
      PROVE  WriterOK(w)'
  <2>. DEFINE r == LastRank(o, c) + 1 - lost
  <2>1. PICK f \in Nat : \E h \in {f, f - 1} :
          /\ h \in Nat
          /\ TornFiles(offsets[w]) = {} /\ TornFiles(commits[w]) = {}
          /\ Whole(offsets[w]) = DOMAIN offsets[w] /\ Whole(commits[w]) = DOMAIN commits[w]
          /\ Following(offsets[w]) = f /\ Newest(offsets[w]) = f - 1
          /\ Following(commits[w]) = h
          /\ DOMAIN offsets[w] = 0 .. f - 1 /\ DOMAIN commits[w] = 0 .. h - 1
          /\ start[w] = end[w] <=> h = f
    <3>1. Legible(w)  BY <1>1, RunningIsLegible
    <3>. QED  BY <1>1, <3>1, ReadLogs
  <2>2. PICK h \in {f, f - 1} :
          /\ h \in Nat
          /\ Following(commits[w]) = h
          /\ DOMAIN commits[w] = 0 .. h - 1
          /\ start[w] = end[w] <=> h = f
    BY <2>1
  <2>3. Begun(offsets[w], o) /\ Begun(commits[w], c)
    <3>1. CASE phase[w] = "done"
      <4>1. start[w] # end[w]  BY <3>1 DEF WriterOK, LogOK, RunsLegible
      <4>2. Following(commits[w]) = Newest(offsets[w])  BY <2>1, <2>2, <4>1
      <4>. QED  BY <3>1, <4>2 DEF Begun, OffsetsBegun, CommitsBegun
    <3>2. CASE phase[w] # "done"
      BY <3>2 DEF Begun, OffsetsBegun, CommitsBegun
    <3>. QED  BY <3>1, <3>2
  <2>. HIDE DEF o, c
  <2>4. Orderly(offsets[w]) /\ Orderly(commits[w])  BY DEF WriterOK, LogOK
  <2>5. /\ DOMAIN o \subseteq Int /\ DOMAIN c \subseteq Int
        /\ Newest(o) \in Int /\ Newest(c) \in Int
    <3>1. Newest(o) \in Int /\ DOMAIN o \subseteq Int  BY <2>1, <2>3, <2>4, BegunIs
    <3>2. Newest(c) \in Int /\ DOMAIN c \subseteq Int  BY <2>1, <2>3, <2>4, BegunIs
    <3>. QED  BY <3>1, <3>2
  <2>6. r \in Int
    <3>. DEFINE a == 2 * Newest(o)
                b == 2 * Newest(c) + 1
    <3>1. a \in Int /\ b \in Int  BY <2>5
    <3>2. LastRank(o, c) = Max({a, b})  BY DEF LastRank, OffsetRank, CommitRank
    <3>. HIDE DEF a, b
    <3>3. Max({a, b}) \in Int
      <4>1. CASE a <= b
        <5>1. Max({a, b}) = b  BY <3>1, <4>1, MaxIs
        <5>. QED  BY <3>1, <5>1
      <4>2. CASE b <= a
        <5>1. Max({a, b}) = a  BY <3>1, <4>2, MaxIs
        <5>. QED  BY <3>1, <5>1
      <4>. QED  BY <3>1, <4>1, <4>2
    <3>4. lost \in Int  BY LogAssumption
    <3>. QED  BY <3>2, <3>3, <3>4
  <2>7. PICK k \in Int, l \in Int :
          offsets'[w] = Spoilt(o, k) /\ commits'[w] = Spoilt(c, l) /\ l \in {k, k - 1}
    <3>1. offsets'[w] = SpoilFrom(o, OffsetRank, r) /\ commits'[w] = SpoilFrom(c, CommitRank, r)
      BY <1>3 DEF LogTypeOK, o, c
    <3>. HIDE DEF r
    <3>. QED  BY <2>5, <2>6, <3>1, ShutdownSpoils
  <2>8. /\ Orderly(offsets'[w]) /\ Whole(offsets'[w]) = {i \in 0 .. f - 1 : i < k}
        /\ \A i \in Whole(offsets'[w]) : offsets'[w][i] = offsets[w][i]
        /\ TornFiles(offsets'[w]) = {} => DOMAIN offsets'[w] = 0 .. f - 1
    BY <2>1, <2>3, <2>4, <2>7, SpoiltIs
  <2>9. /\ Orderly(commits'[w]) /\ Whole(commits'[w]) = {i \in 0 .. h - 1 : i < l}
        /\ TornFiles(commits'[w]) = {} => DOMAIN commits'[w] = 0 .. h - 1
    BY <2>1, <2>2, <2>3, <2>4, <2>7, SpoiltIs
  <2>10. Paired(w)'
    <3>1. {i \in 0 .. h - 1 : i < l} \subseteq {i \in 0 .. f - 1 : i < k}
      BY <2>2, <2>7
    <3>2. \A n \in {i \in 0 .. f - 1 : i < k} : n = 0 \/ n - 1 \in {i \in 0 .. h - 1 : i < l}
      BY <2>2, <2>7
    <3>. QED  BY <2>8, <2>9, <3>1, <3>2 DEF Paired
  <2>11. Whole(offsets'[w]) \subseteq Whole(offsets[w]) /\ Whole(commits'[w]) \subseteq Whole(commits[w])
    BY <2>1, <2>2, <2>8, <2>9
  <2>12. Ascending(w)'
    <3>1. Ascending(w)  BY DEF WriterOK, LogOK
    <3>2. ASSUME NEW n \in Whole(offsets'[w])  PROVE n = 0 \/ n - 1 \in Whole(offsets'[w])
      BY <2>8, <3>2
    <3>. QED  BY <1>1, <2>8, <2>11, <3>1, <3>2 DEF Ascending, Before
  <2>13. NotAhead(w)'
    <3>1. Whole(commits'[w]) \subseteq Whole(offsets'[w])  BY <2>10 DEF Paired
    <3>. QED  BY <1>1, <2>8, <2>11, <3>1 DEF WriterOK, LogOK, NotAhead
  <2>14. RunsLegible(w)'  BY <1>1 DEF RunsLegible, Busy, Working, Claiming
  <2>15. InPlace(w)'
    <3>. SUFFICES ASSUME Legible(w)'  PROVE InPlace(w)'
      BY DEF InPlace
    <3>1. TornFiles(offsets'[w]) = {} /\ TornFiles(commits'[w]) = {}
      BY <2>8, <2>9, LegibleLog DEF Legible
    <3>2. DOMAIN offsets'[w] = DOMAIN offsets[w] /\ DOMAIN commits'[w] = DOMAIN commits[w]
      BY <2>1, <2>2, <2>8, <2>9, <3>1
    <3>3. \A i \in DOMAIN offsets[w] : offsets'[w][i] = offsets[w][i]
      BY <2>8, <3>1, <3>2 DEF Whole
    <3>4. Newest(offsets'[w]) = Newest(offsets[w])  BY <3>2 DEF Newest, Following
    <3>5. InPlace(w) /\ Legible(w)  BY <1>1, RunningIsLegible DEF WriterOK
    <3>6. DOMAIN offsets[w] # {} => Newest(offsets[w]) \in DOMAIN offsets[w]  BY <2>1
    <3>. QED  BY <1>1, <3>2, <3>3, <3>4, <3>5, <3>6 DEF InPlace, ReadEnd, ReadStart
  <2>. QED  BY <2>8, <2>9, <2>10, <2>12, <2>13, <2>14, <2>15 DEF WriterOK, LogOK
<1>. QED  BY <1>2, <1>3 DEF Shutdown

\* Nothing is in an empty log.
LEMMA EmptyLogIs ==
  DOMAIN EmptyLog = {} /\ Whole(EmptyLog) = {} /\ TornFiles(EmptyLog) = {} /\ Orderly(EmptyLog)
<1>1. DOMAIN EmptyLog = {}  BY DEF EmptyLog
<1>2. Whole(EmptyLog) = {} /\ TornFiles(EmptyLog) = {}  BY <1>1 DEF Whole, TornFiles
<1>3. Orderly(EmptyLog)
  <2>1. Following(EmptyLog) = 0  BY <1>1 DEF Following
  <2>2. 0 \in 0 .. 0 /\ Whole(EmptyLog) = 0 .. 0 - 1 /\ TornFiles(EmptyLog) = 0 .. 0 - 1
    BY <1>2
  <2>. QED  BY <2>1, <2>2 DEF Orderly
<1>. QED  BY <1>1, <1>2, <1>3

\* A recreated checkpoint directory is empty.
LEMMA LogsLoseCheckpoint ==
  ASSUME DataOK, LogTypeOK, NEW w \in Writers, WriterOK(w), LoseCheckpoint(w)
  PROVE  WriterOK(w)'
<1>1. phase'[w] = "fresh" /\ offsets'[w] = EmptyLog /\ commits'[w] = EmptyLog
  BY DEF LoseCheckpoint, RecreateCheckpoint, Goto, DataOK, LogTypeOK
<1>. QED  BY <1>1, EmptyLogIs
          DEF WriterOK, LogOK, Paired, Ascending, NotAhead, RunsLegible, InPlace, Busy, Working, Claiming

\* Lengths of two logs in which every plan but the newest has its commit entry.
LEMMA PairedLengths ==
  ASSUME NEW f \in Nat, NEW g \in Nat, 0 .. g - 1 \subseteq 0 .. f - 1,
         \A n \in 0 .. f - 1 : n = 0 \/ n - 1 \in 0 .. g - 1
  PROVE  g \in {f, f - 1}
<1>1. g <= f
  <2>1. CASE g # 0
    <3>1. g - 1 \in 0 .. f - 1  BY <2>1
    <3>. QED  BY <3>1
  <2>. QED  BY <2>1
<1>2. f <= g + 1
  <2>1. CASE f > 1
    <3>1. f - 2 \in 0 .. g - 1  BY <2>1
    <3>. QED  BY <3>1
  <2>. QED  BY <2>1
<1>. QED  BY <1>1, <1>2

\* A repair takes complete files away from neither log.
LEMMA RepairKeepsFiles ==
  ASSUME LogTypeOK, NEW w \in Writers, Orderly(offsets[w]), Orderly(commits[w]), Repair(w)
  PROVE  /\ Orderly(offsets'[w]) /\ Orderly(commits'[w])
         /\ Whole(offsets'[w]) = Whole(offsets[w]) /\ Whole(commits'[w]) = Whole(commits[w])
         /\ \A i \in Whole(offsets[w]) : offsets'[w][i] = offsets[w][i]
<1>. DEFINE o == IF InvalidSuffix(offsets[w]) # {} THEN Moved(offsets[w]) ELSE offsets[w]
            c == IF InvalidSuffix(offsets[w]) = {} THEN Moved(commits[w]) ELSE commits[w]
<1>1. /\ offsets' = [offsets EXCEPT ![w] = o] /\ commits' = [commits EXCEPT ![w] = c]
      /\ InvalidSuffix(offsets[w]) \union InvalidSuffix(commits[w]) # {}
  BY DEF Repair
<1>2. CASE TornFiles(offsets[w]) # {}
  <2>1. o = Moved(offsets[w]) /\ c = commits[w]  BY <1>2, SuffixIs
  <2>2. offsets'[w] = Moved(offsets[w]) /\ commits'[w] = commits[w]
    BY <1>1, <2>1 DEF LogTypeOK
  <2>. QED  BY <1>2, <2>2, MovedIs
<1>3. CASE TornFiles(offsets[w]) = {}
  <2>1. o = offsets[w] /\ c = Moved(commits[w]) /\ TornFiles(commits[w]) # {}
    BY <1>1, <1>3, SuffixIs
  <2>2. offsets'[w] = offsets[w] /\ commits'[w] = Moved(commits[w])
    BY <1>1, <2>1 DEF LogTypeOK
  <2>. QED  BY <2>1, <2>2, MovedIs
<1>. QED  BY <1>2, <1>3

\* A repair keeps every complete file. Once it is through, the checkpoint is where
\* the logs say, which is nowhere ahead of where it was.
LEMMA LogsRepair ==
  ASSUME DataOK, LogTypeOK, NEW w \in Writers, WriterOK(w), Repair(w)
  PROVE  /\ WriterOK(w)' /\ phase[w] = "down" /\ phase'[w] = "down"
         /\ \/ start'[w] = start[w] /\ end'[w] = end[w]
            \/ /\ start'[w] \in Positions /\ end'[w] \in Positions
               /\ Upto(start'[w], start[w]) /\ Upto(start'[w], end'[w])
<1>. DEFINE o == IF InvalidSuffix(offsets[w]) # {} THEN Moved(offsets[w]) ELSE offsets[w]
            c == IF InvalidSuffix(offsets[w]) = {} THEN Moved(commits[w]) ELSE commits[w]
            through == InvalidSuffix(o) \union InvalidSuffix(c) = {}
<1>1. /\ phase[w] = "down" /\ phase'[w] = "down" /\ origin' = origin
      /\ offsets'[w] = o /\ commits'[w] = c
      /\ InvalidSuffix(offsets[w]) \union InvalidSuffix(commits[w]) # {}
      /\ through => start'[w] = ReadStart(o, c, w) /\ end'[w] = ReadEnd(o, w)
      /\ ~through => start' = start /\ end' = end
  <2>1. /\ phase[w] = "down" /\ UNCHANGED <<phase, origin>>
        /\ InvalidSuffix(offsets[w]) \union InvalidSuffix(commits[w]) # {}
    BY DEF Repair
  <2>2. offsets' = [offsets EXCEPT ![w] = o] /\ commits' = [commits EXCEPT ![w] = c]
    BY DEF Repair
  <2>3. IF through THEN /\ start' = [start EXCEPT ![w] = ReadStart(o, c, w)]
                        /\ end' = [end EXCEPT ![w] = ReadEnd(o, w)]
        ELSE UNCHANGED sparkVars
    BY DEF Repair
  <2>. HIDE DEF o, c, through
  <2>4. DOMAIN offsets = Writers /\ DOMAIN commits = Writers
        /\ DOMAIN start = Writers /\ DOMAIN end = Writers
    BY DEF DataOK, LogTypeOK
  <2>. QED  BY <2>1, <2>2, <2>3, <2>4 DEF sparkVars
<1>2. Orderly(offsets[w]) /\ Orderly(commits[w])  BY DEF WriterOK, LogOK
<1>3. /\ Orderly(o) /\ Orderly(c) /\ Whole(o) = Whole(offsets[w]) /\ Whole(c) = Whole(commits[w])
      /\ \A i \in Whole(o) : o[i] = offsets[w][i]
  BY <1>1, <1>2, RepairKeepsFiles
<1>. HIDE DEF o, c
<1>4. through <=> TornFiles(o) = {} /\ TornFiles(c) = {}  BY <1>3, SuffixIs
<1>. HIDE DEF through
<1>5. Paired(w) /\ Ascending(w) /\ NotAhead(w)  BY DEF WriterOK, LogOK
<1>6. Paired(w)'  BY <1>1, <1>3, <1>5 DEF Paired
<1>7. Ascending(w)'
  <2>1. \A n \in Whole(o) : n = 0 \/ n - 1 \in Whole(o)  BY <1>3, <1>5 DEF Paired
  <2>. QED  BY <1>1, <1>3, <1>5, <2>1 DEF Ascending, Before
<1>8. RunsLegible(w)'  BY <1>1 DEF RunsLegible, Busy, Working, Claiming
<1>9. \A n \in Whole(c) : n \in Whole(o) /\ o[n] = offsets[w][n]
  BY <1>3, <1>5 DEF Paired
<1>10. CASE ~through
  <2>1. NotAhead(w)'  BY <1>1, <1>3, <1>5, <1>9, <1>10 DEF NotAhead
  <2>2. InPlace(w)'
    <3>1. ~Legible(w)'
      <4>1. ~(~IsTorn(o, Newest(o)) /\ ~IsTorn(c, Newest(c)))
        BY <1>3, <1>4, <1>10, LegibleLog
      <4>. QED  BY <1>1, <4>1 DEF Legible
    <3>. QED  BY <3>1 DEF InPlace
  <2>. QED  BY <1>1, <1>3, <1>6, <1>7, <1>8, <1>10, <2>1, <2>2 DEF WriterOK, LogOK
<1>11. CASE through
  <2>. DEFINE f == Following(o)
              g == Following(c)
              z == origin[w]
              e == IF f = 0 THEN z ELSE o[f - 1]
              s == IF g = 0 THEN z ELSE o[g - 1]
  <2>1. /\ f \in Nat /\ g \in Nat /\ DOMAIN o = 0 .. f - 1 /\ DOMAIN c = 0 .. g - 1
        /\ Whole(o) = 0 .. f - 1 /\ Whole(c) = 0 .. g - 1
    BY <1>3, <1>4, <1>11, WholeLog
  <2>. HIDE DEF f, g, z
  <2>2. g \in {f, f - 1}
    BY <1>3, <1>5, <2>1, PairedLengths DEF Paired
  <2>3. /\ e = IF DOMAIN o = {} THEN z ELSE o[Newest(o)]
        /\ s = IF Newest(o) \in DOMAIN c THEN e
               ELSE IF Newest(o) - 1 \in DOMAIN o THEN o[Newest(o) - 1] ELSE z
        /\ DOMAIN c \subseteq DOMAIN o
    <3>. DEFINE ee == e
                ss == s
    <3>1. ee = (IF f = 0 THEN z ELSE o[f - 1]) /\ ss = (IF g = 0 THEN z ELSE o[g - 1])
      OBVIOUS
    <3>. HIDE DEF ee, ss
    <3>2. /\ ee = IF DOMAIN o = {} THEN z ELSE o[Newest(o)]
          /\ ss = IF Newest(o) \in DOMAIN c THEN ee
                  ELSE IF Newest(o) - 1 \in DOMAIN o THEN o[Newest(o) - 1] ELSE z
          /\ DOMAIN c \subseteq DOMAIN o
      BY <2>1, <2>2, <3>1, InPlaceIf
    <3>. QED  BY <3>2 DEF ee, ss
  <2>4. ReadEnd(o, w) = e /\ ReadStart(o, c, w) = s
    BY <2>3 DEF ReadEnd, ReadStart, z
  <2>5. start'[w] = s /\ end'[w] = e  BY <1>1, <1>11, <2>4
  <2>6. /\ z \in Positions /\ start[w] \in Positions
        /\ \A n \in 0 .. f - 1 : o[n] \in Positions /\ Upto(z, o[n])
        /\ \A n, m \in 0 .. f - 1 : m < n => Upto(o[m], o[n])
    <3>1. z \in Positions /\ start[w] \in Positions  BY DEF LogTypeOK, DataOK, z
    <3>2. Whole(offsets[w]) = 0 .. f - 1 /\ \A i \in 0 .. f - 1 : o[i] = offsets[w][i]
      BY <1>3, <2>1
    <3>3. \A n \in 0 .. f - 1 : offsets[w][n] \in Positions /\ Upto(z, offsets[w][n])
      BY <1>5, <3>2 DEF Ascending, z
    <3>4. \A n, m \in 0 .. f - 1 : m < n => Upto(offsets[w][m], offsets[w][n])
      BY <1>5, <3>2 DEF Ascending
    <3>. QED  BY <3>1, <3>2, <3>3, <3>4
  <2>7. Upto(z, start[w]) /\ \A n \in 0 .. g - 1 : Upto(o[n], start[w])
    BY <1>1, <1>3, <1>5, <1>9, <2>1 DEF NotAhead, z
  <2>8. f = 0 \/ f - 1 \in 0 .. f - 1  BY <2>1
  <2>9. g = 0 \/ (g - 1 \in 0 .. g - 1 /\ g - 1 \in 0 .. f - 1)  BY <2>1, <2>2
  <2>10. s \in Positions /\ e \in Positions  BY <2>6, <2>8, <2>9
  <2>11. Upto(s, start[w])  BY <2>7, <2>9
  <2>12. Upto(s, e)
    <3>1. CASE g = f  BY <2>10, <3>1, UptoItself
    <3>2. CASE g = f - 1
      <4>1. f # 0 /\ g - 1 < f - 1  BY <2>1, <3>2
      <4>. QED  BY <2>6, <2>8, <2>9, <4>1
    <3>. QED  BY <2>2, <3>1, <3>2
  <2>13. Upto(z, s)  BY <2>6, <2>9, UptoItself
  <2>14. ASSUME NEW n \in 0 .. g - 1  PROVE Upto(o[n], s)
    <3>1. n \in 0 .. f - 1 /\ g # 0  BY <2>1, <2>2
    <3>2. CASE n = g - 1  BY <2>6, <3>1, <3>2, UptoItself
    <3>3. CASE n < g - 1  BY <2>6, <2>9, <3>1, <3>3
    <3>. QED  BY <2>1, <3>2, <3>3
  <2>15. NotAhead(w)'
    BY <1>1, <2>1, <2>5, <2>13, <2>14 DEF NotAhead, z
  <2>16. InPlace(w)'
    BY <1>1, <2>3, <2>5 DEF InPlace, ReadEnd, ReadStart, z
  <2>. HIDE DEF s, e
  <2>. QED
    BY <1>1, <1>3, <1>6, <1>7, <1>8, <2>5, <2>10, <2>11, <2>12, <2>15, <2>16 DEF WriterOK, LogOK
<1>. QED  BY <1>10, <1>11

-----------------------------------------------------------------------------
(* Every step *)

\* A step of one writer leaves the logs and the positions of the others alone.
LEMMA OthersKept ==
  ASSUME DataOK, LogTypeOK, NEW w \in Writers, NEW v \in Writers \ {w},
         Running(w) \/ Shutdown(w) \/ LoseCheckpoint(w) \/ Repair(w)
  PROVE  UNCHANGED <<origin[v], offsets[v], commits[v], phase[v], start[v], end[v]>>
<1>. USE DEF DataOK, LogTypeOK, Goto, sparkVars
<1>1. CASE StartQuery(w)  BY <1>1 DEF StartQuery, Start
<1>2. CASE PlanBatch(w)  BY <1>2 DEF PlanBatch, Plan
<1>3. CASE CommitBatch(w)  BY <1>3 DEF CommitBatch, CommitCheckpoint
<1>4. CASE ProcessBatch(w) /\ UNCHANGED logVars
  <2>1. phase'[v] = phase[v] /\ UNCHANGED <<start, end>>
    BY <1>4 DEF ProcessBatch, Begin, ReadMarks, CheckLedger, Allocate, ClearPrefix, WriteParquet,
       WriteQuarantine, BuildManifest, Commit, Return, Stop
  <2>. QED  BY <1>4, <2>1 DEF logVars
<1>5. CASE Shutdown(w)  BY <1>5 DEF Shutdown, Crash, Stop
<1>6. CASE LoseCheckpoint(w)  BY <1>6 DEF LoseCheckpoint, RecreateCheckpoint
<1>7. CASE Repair(w)  BY <1>7 DEF Repair
<1>. QED  BY <1>1, <1>2, <1>3, <1>4, <1>5, <1>6, <1>7 DEF Running

\* The logs keep their types.
LEMMA LogTypeStep ==
  ASSUME DataOK, LogTypeOK, [LiveNext]_liveVars
  PROVE  LogTypeOK'
<1>. USE DEF LogTypeOK
<1>1. ASSUME NEW w \in Writers, Running(w)  PROVE LogTypeOK'
  <2>1. origin' \in [Writers -> Positions] /\ sessions' = sessions
    BY <1>1 DEF Running, StartQuery, PlanBatch, CommitBatch, logVars, DataOK
  <2>2. DOMAIN offsets' = Writers /\ DOMAIN commits' = Writers
    BY <1>1 DEF Running, StartQuery, PlanBatch, CommitBatch, logVars
  <2>. QED  BY <2>1, <2>2
<1>2. ASSUME NEW w \in Writers, Repair(w)  PROVE LogTypeOK'
  BY <1>2 DEF Repair
<1>3. CASE Interrupted
  <2>1. CASE EndSession
    BY <2>1, LogAssumption DEF EndSession, logVars
  <2>2. ASSUME NEW w \in Writers, Shutdown(w) \/ LoseCheckpoint(w), UNCHANGED sessions
        PROVE  LogTypeOK'
    BY <2>2 DEF Shutdown, LoseCheckpoint
  <2>. QED  BY <1>3, <2>1, <2>2 DEF Interrupted
<1>4. CASE UNCHANGED <<logVars, sessions>>  BY <1>4 DEF logVars
<1>. QED  BY <1>1, <1>2, <1>3, <1>4 DEF LiveNext, CalmDown, liveVars

\* Every step keeps the logs of every writer.
LEMMA LogsStep ==
  ASSUME DataOK, LogTypeOK, \A w \in Writers : WriterOK(w), [LiveNext]_liveVars, NEW v \in Writers
  PROVE  WriterOK(v)'
<1>1. ASSUME UNCHANGED <<logVars, phase, start, end>>  PROVE WriterOK(v)'
  BY <1>1, WriterFrame DEF logVars
<1>2. ASSUME NEW w \in Writers, Running(w) \/ Shutdown(w) \/ LoseCheckpoint(w) \/ Repair(w)
      PROVE  WriterOK(v)'
  <2>1. CASE v # w  BY <1>2, <2>1, OthersKept, WriterFrame
  <2>2. CASE v = w
    BY <1>2, <2>2, LogsStartQuery, LogsPlanBatch, LogsCommitBatch, LogsProcessBatch, LogsShutdown,
       LogsLoseCheckpoint, LogsRepair DEF Running
  <2>. QED  BY <2>1, <2>2
<1>3. CASE Interrupted
  <2>1. CASE EndSession
    BY <1>1, <2>1 DEF EndSession, LoseSession, sparkVars
  <2>. QED  BY <1>2, <1>3, <2>1 DEF Interrupted
<1>4. CASE Surroundings /\ UNCHANGED <<logVars, sessions, calm>>
  BY <1>1, <1>4 DEF Surroundings, Produce, Expire, ClockAdvances, sparkVars
<1>5. CASE CalmDown \/ UNCHANGED liveVars
  BY <1>1, <1>5 DEF CalmDown, liveVars, vars, sparkVars
<1>. QED  BY <1>2, <1>3, <1>4, <1>5 DEF LiveNext

\* The archive sees a repair as a change of the positions of a stopped writer, and
\* everything else as steps of its own.
LEMMA ArchiveSteps ==
  ASSUME [LiveNext]_liveVars
  PROVE  \/ [Next]_vars
         \/ LoseSession /\ sessions < MaxSessions
         \/ \E w \in Writers : Repair(w)
BY DEF LiveNext, CalmDown, Interrupted, EndSession, Shutdown, LoseCheckpoint, Running, StartQuery,
       PlanBatch, CommitBatch, Next, Interruption, TriggerLoop, liveVars

\* What a repair leaves as it is, and what it does to the positions.
LEMMA RepairMoves ==
  ASSUME DataOK, LogTypeOK, NEW w \in Writers, WriterOK(w), Repair(w)
  PROVE  /\ UNCHANGED <<logLow, logEnd, ripe, phase, lock, marks, ledger, files, quar>>
         /\ UNCHANGED <<lo, id, kept, manifest>>
         /\ phase[w] = "down" /\ \A v \in Writers \ {w} : start'[v] = start[v] /\ end'[v] = end[v]
         /\ Upto(start'[w], start[w])
         /\ UNCHANGED <<start, end>> \/ Upto(start'[w], end'[w])
         /\ DataOK'
<1>1. /\ UNCHANGED <<logLow, logEnd, ripe, phase, lock, marks, ledger, files, quar>>
      /\ UNCHANGED <<lo, id, kept, manifest>>
  BY DEF Repair, kafkaVars, dbVars, storeVars, workVars
<1>2. /\ DOMAIN start = Writers /\ DOMAIN end = Writers
      /\ \/ UNCHANGED <<start, end>>
         \/ /\ start' = [start EXCEPT ![w] = start'[w]] /\ end' = [end EXCEPT ![w] = end'[w]]
            /\ start'[w] \in Positions /\ end'[w] \in Positions
            /\ Upto(start'[w], start[w]) /\ Upto(start'[w], end'[w])
  <2>1. DOMAIN start = Writers /\ DOMAIN end = Writers  BY DEF DataOK
  <2>2. \/ UNCHANGED <<start, end>>
        \/ start' = [start EXCEPT ![w] = start'[w]] /\ end' = [end EXCEPT ![w] = end'[w]]
    <3>1. \/ UNCHANGED sparkVars
          \/ \E s, e : start' = [start EXCEPT ![w] = s] /\ end' = [end EXCEPT ![w] = e]
      BY DEF Repair
    <3>. QED  BY <2>1, <3>1 DEF sparkVars
  <2>3. start' = [start EXCEPT ![w] = start'[w]] /\ end' = [end EXCEPT ![w] = end'[w]]
        /\ start'[w] = start[w] /\ end'[w] = end[w] => UNCHANGED <<start, end>>
    <3>1. start \in [Writers -> Positions] /\ end \in [Writers -> Positions]  BY DEF DataOK
    <3>. QED  BY <3>1
  <2>. QED  BY <2>1, <2>2, <2>3, LogsRepair
<1>3. phase[w] = "down"  BY DEF Repair
<1>4. Upto(start[w], start[w])  BY UptoItself DEF DataOK
<1>5. DataOK'
  <2>1. start' \in [Writers -> Positions] /\ end' \in [Writers -> Positions]
    BY <1>2 DEF DataOK
  <2>. QED  BY <1>1, <2>1 DEF DataOK, Batch
<1>. QED  BY <1>1, <1>2, <1>3, <1>4, <1>5

\* A checkpoint that was set back still passes no row that the ledger lacks.
LEMMA SessionRepair ==
  ASSUME DataOK, LogTypeOK, SessionInv, NEW w \in Writers, WriterOK(w), Repair(w)
  PROVE  SessionInv'
<1>1. /\ UNCHANGED <<logLow, phase, lock, marks, ledger, lo>>
      /\ phase[w] = "down" /\ \A v \in Writers \ {w} : start'[v] = start[v] /\ end'[v] = end[v]
      /\ Upto(start'[w], start[w]) /\ DataOK'
  BY RepairMoves
<1>2. \A p \in Partitions : Covered(p)' = Covered(p)  BY <1>1 DEF Covered
<1>3. phase[w] \notin Busy \union {"done", "marks"} /\ phase[w] \notin Working
  BY <1>1 DEF Busy, Working, Claiming
<1>4. RetainedReached'
  <2>1. ASSUME NEW p \in Partitions, CoveredBetween(logLow[p], start[w][p], p)
        PROVE  CoveredBetween(logLow[p], start'[w][p], p)
    <3>1. start'[w][p] \in Int /\ start[w][p] \in Int /\ start'[w][p] <= start[w][p]
      BY <1>1 DEF DataOK, Positions, Upto
    <3>. QED  BY <2>1, <3>1 DEF CoveredBetween, Offsets
  <2>. QED  BY <1>1, <1>2, <1>3, <2>1 DEF SessionInv, RetainedReached, CoveredBetween, Busy
<1>5. HolderReached'
  BY <1>1, <1>2, <1>3 DEF SessionInv, HolderReached, CoveredBetween, Planned
<1>6. HolderFinishes'
  BY <1>1, <1>2, <1>3 DEF SessionInv, HolderFinishes, CoveredBetween, Busy
<1>. QED  BY <1>4, <1>5, <1>6 DEF SessionInv

LEMMA WritersOK == RepairInv <=> /\ DataOK /\ SessionInv /\ LogTypeOK
                                 /\ \A w \in Writers : WriterOK(w)
BY DEF RepairInv, ResumesInPlace, WriterOK, InPlace

LEMMA RepairInvStep ==
  ASSUME DataOK, SessionInv, LogTypeOK, \A w \in Writers : WriterOK(w), [LiveNext]_liveVars
  PROVE  /\ DataOK' /\ SessionInv' /\ LogTypeOK'
         /\ \A w \in Writers : WriterOK(w)'
<1>1. LogTypeOK' /\ \A w \in Writers : WriterOK(w)'  BY LogTypeStep, LogsStep
<1>2. CASE [Next]_vars  BY <1>1, <1>2, DataStep, SessionStep
<1>3. CASE LoseSession
  <2>1. DataOK'
    BY <1>3 DEF LoseSession, DataOK, kafkaVars, sparkVars, dbVars, storeVars, workVars, Batch
  <2>. QED  BY <1>1, <1>3, <2>1, SessionStep
<1>4. ASSUME NEW w \in Writers, Repair(w)  PROVE DataOK' /\ SessionInv'
  BY <1>4, RepairMoves, SessionRepair
<1>. QED  BY <1>1, <1>2, <1>3, <1>4, ArchiveSteps

\* At the start all logs are empty.
LEMMA RepairInvInit == LiveInit => RepairInv
<1>. SUFFICES ASSUME LiveInit  PROVE RepairInv
  OBVIOUS
<1>0. Init  BY DEF LiveInit
<1>1. DataOK  BY <1>0, DataInit
<1>2. SessionInv  BY <1>0, SessionInit
<1>3. LogTypeOK
  <2>1. [p \in Partitions |-> 0] \in Positions  BY BoundsAssumption DEF Positions
  <2>2. 0 \in 0 .. MaxSessions  BY LogAssumption
  <2>. QED  BY <2>1, <2>2 DEF LiveInit, LogTypeOK
<1>4. ASSUME NEW w \in Writers  PROVE WriterOK(w)
  <2>1. phase[w] = "fresh" /\ offsets[w] = EmptyLog /\ commits[w] = EmptyLog
    BY DEF LiveInit, Init
  <2>. QED
    BY <2>1, EmptyLogIs
       DEF WriterOK, LogOK, Paired, Ascending, NotAhead, RunsLegible, InPlace, Busy, Working, Claiming
<1>. QED  BY <1>1, <1>2, <1>3, <1>4, WritersOK

-----------------------------------------------------------------------------
(* Theorems *)

\* The invariant of checkpoints whose files shutdowns spoil, repairs take away and
\* lost sessions interrupt.
THEOREM RepairInvariant == LiveSpec => []RepairInv
<1>. DEFINE Parts == /\ DataOK /\ SessionInv /\ LogTypeOK
                     /\ \A w \in Writers : WriterOK(w)
<1>1. RepairInv <=> Parts  BY WritersOK
<1>2. LiveInit => Parts  BY <1>1, RepairInvInit
<1>3. Parts /\ [LiveNext]_liveVars => Parts'  BY RepairInvStep
<1>4. LiveSpec => []Parts  BY <1>2, <1>3, PTL DEF LiveSpec
<1>. QED  BY <1>1, <1>4, PTL

\* A query that starts resumes where the archive relies on, whatever shutdowns left of
\* the checkpoint's files and repair --apply made of them (ResumesInPlace).
THEOREM ResumesInPlaceAlways == LiveSpec => []ResumesInPlace
<1>1. RepairInv => ResumesInPlace  BY DEF RepairInv
<1>. QED  BY <1>1, RepairInvariant, PTL

\* invalid_suffix takes no complete file away, so that no batch with a commit entry
\* loses it, and the check for a complete file behind an incomplete one never
\* refuses what a shutdown left: a checkpoint that does not start can be repaired.
THEOREM RepairsLoseNothing ==
  LiveSpec =>
    /\ [][\A w \in Writers : Repair(w) =>
            /\ Whole(offsets[w])' = Whole(offsets[w]) /\ Whole(commits[w])' = Whole(commits[w])
            /\ \A n \in Whole(offsets[w]) : offsets'[w][n] = offsets[w][n]]_liveVars
    /\ [](\A w \in Writers : ~Legible(w) =>
            /\ InvalidSuffix(offsets[w]) \union InvalidSuffix(commits[w]) # {}
            /\ ~Refused(offsets[w]) /\ ~Refused(commits[w]))
<1>. DEFINE Keeps ==
       \A w \in Writers : Repair(w) =>
         /\ Whole(offsets[w])' = Whole(offsets[w]) /\ Whole(commits[w])' = Whole(commits[w])
         /\ \A n \in Whole(offsets[w]) : offsets'[w][n] = offsets[w][n]
            Accepts ==
       \A w \in Writers : ~Legible(w) =>
         /\ InvalidSuffix(offsets[w]) \union InvalidSuffix(commits[w]) # {}
         /\ ~Refused(offsets[w]) /\ ~Refused(commits[w])
<1>1. RepairInv => Keeps
  <2>. SUFFICES ASSUME RepairInv, NEW w \in Writers, Repair(w)
                PROVE  /\ Whole(offsets[w])' = Whole(offsets[w])
                       /\ Whole(commits[w])' = Whole(commits[w])
                       /\ \A n \in Whole(offsets[w]) : offsets'[w][n] = offsets[w][n]
    OBVIOUS
  <2>. QED  BY RepairKeepsFiles DEF RepairInv, LogOK
<1>2. RepairInv => Accepts
  <2>. SUFFICES ASSUME RepairInv, NEW w \in Writers, ~Legible(w)
                PROVE  /\ InvalidSuffix(offsets[w]) \union InvalidSuffix(commits[w]) # {}
                       /\ ~Refused(offsets[w]) /\ ~Refused(commits[w])
    OBVIOUS
  <2>1. Orderly(offsets[w]) /\ Orderly(commits[w])  BY DEF RepairInv, LogOK
  <2>2. TornFiles(offsets[w]) # {} \/ TornFiles(commits[w]) # {}
    BY DEF Legible, IsTorn, TornFiles
  <2>. QED  BY <2>1, <2>2, SuffixIs, NeverRefused
<1>. HIDE DEF Keeps, Accepts
<1>3. LiveSpec => [][Keeps]_liveVars /\ []Accepts
  BY <1>1, <1>2, RepairInvariant, PTL
<1>. QED  BY <1>3 DEF Keeps, Accepts

\* Nor does any of it, with lost sessions on top, make a checkpoint pass a row that the
\* ledger lacks.
THEOREM CheckpointSurvivesRepair == LiveSpec => CheckpointFollowsArchive
<1>. DEFINE Follows ==
       \A w \in Writers :
         phase[w] = "done" /\ phase'[w] = "idle" =>
           \A p \in Partitions : start[w][p] .. (start'[w][p] - 1) \subseteq Covered(p)
<1>1. RepairInv /\ [LiveNext]_liveVars => [Follows]_vars
  <2>. SUFFICES ASSUME RepairInv, [LiveNext]_liveVars, NEW w \in Writers,
                       phase[w] = "done", phase'[w] = "idle", NEW p \in Partitions
                PROVE  start[w][p] .. (start'[w][p] - 1) \subseteq Covered(p)
    OBVIOUS
  <2>1. Next
    <3>1. \A v \in Writers : Repair(v) => phase' = phase  BY DEF Repair
    <3>2. LoseSession => phase' = phase  BY DEF LoseSession
    <3>. QED  BY <3>1, <3>2, ArchiveSteps DEF vars
  <2>2. CommitCheckpoint(w)  BY <2>1, OnlyCommitLeavesDone DEF RepairInv
  <2>. QED  BY <2>2, FollowsStep DEF RepairInv
<1>. QED  BY <1>1, RepairInvariant, PTL DEF LiveSpec, CheckpointFollowsArchive

-----------------------------------------------------------------------------
(***************************************************************************)
(* While no session has been lost.  A repair leaves ledger and store alone *)
(* and moves the positions of a stopped writer backwards, which promises   *)
(* nothing but CheckpointBehind; so RawArchive's own invariants hold.      *)
(***************************************************************************)

\* A repaired checkpoint is behind what it was behind before.
LEMMA OffsetRepair ==
  ASSUME DataOK, LogTypeOK, OffsetInv, NEW w \in Writers, WriterOK(w), Repair(w)
  PROVE  OffsetInv'
<1>1. /\ UNCHANGED <<logLow, phase, lock, marks, ledger, lo, id>>
      /\ phase[w] = "down" /\ \A v \in Writers \ {w} : start'[v] = start[v] /\ end'[v] = end[v]
      /\ Upto(start'[w], start[w]) /\ DataOK'
      /\ UNCHANGED <<start, end>> \/ Upto(start'[w], end'[w])
  BY RepairMoves
<1>2. \A p \in Partitions : Covered(p)' = Covered(p)  BY <1>1 DEF Covered
<1>3. /\ phase[w] \notin Busy \union {"return", "done"}
      /\ phase[w] \notin Working /\ phase[w] \notin Claiming /\ phase[w] \notin Storing
  BY <1>1 DEF Busy, Working, Claiming, Storing
<1>4. CheckpointBehind'
  <2>. SUFFICES ASSUME NEW v \in Writers, NEW p \in Partitions
                PROVE  /\ start'[v][p] <= end'[v][p]
                       /\ start'[v][p] <= logLow[p] \/ start'[v][p] <= marks[p]
    BY <1>1 DEF CheckpointBehind
  <2>1. /\ start[v][p] <= end[v][p]
        /\ start[v][p] <= logLow[p] \/ start[v][p] <= marks[p]
    BY DEF OffsetInv, CheckpointBehind
  <2>2. CASE v # w  BY <1>1, <2>1, <2>2
  <2>3. CASE v = w
    <3>1. start'[w][p] <= start[w][p]  BY <1>1 DEF Upto
    <3>2. start'[w][p] <= end'[w][p]  BY <1>1, <2>1, <2>3 DEF Upto
    <3>3. /\ start'[w][p] \in Int /\ start[w][p] \in Int /\ logLow[p] \in Int /\ marks[p] \in Int
      BY <1>1, BoundsAssumption DEF DataOK, Positions, Absent
    <3>. QED  BY <2>1, <2>3, <3>1, <3>2, <3>3
  <2>. QED  BY <2>2, <2>3
<1>5. LockHeld' /\ EntriesBelowMarks' /\ RunsEndAtMarks' /\ RetainedCovered' /\ IdsAbove'
  BY <1>1, <1>2
     DEF OffsetInv, LockHeld, EntriesBelowMarks, RunsEndAtMarks, RetainedCovered, CoveredFrom, IdsAbove
<1>6. ReplayCovered'
  BY <1>1, <1>2, <1>3 DEF OffsetInv, ReplayCovered, CoveredFrom, Planned
<1>7. TrimSound' /\ MarksStillChecked' /\ FinishedBelowMarks'
  BY <1>1, <1>3
     DEF OffsetInv, TrimSound, MarksStillChecked, FinishedBelowMarks, Planned, InBatch
<1>. QED  BY <1>4, <1>5, <1>6, <1>7 DEF OffsetInv

\* Nor does it touch what is stored or accounted for.
LEMMA FilesRepair ==
  ASSUME DataOK, LogTypeOK, FilesInv, NEW w \in Writers, WriterOK(w), Repair(w)
  PROVE  FilesInv'
<1>1. /\ UNCHANGED <<phase, ledger, files, quar, lo, id, kept, manifest>>
      /\ phase[w] = "down" /\ \A v \in Writers \ {w} : end'[v] = end[v]
  BY RepairMoves
<1>2. CommittedIntact' /\ EveryRowAccounted'  BY <1>1, CommittedFrame
<1>3. ASSUME NEW v \in Writers, v # w  PROVE BatchRows(v)' = BatchRows(v)
  BY <1>1, <1>3 DEF BatchRows
<1>4. phase[w] \notin Storing  BY <1>1 DEF Storing, Claiming
<1>. QED  BY <1>1, <1>2, <1>3, <1>4 DEF FilesInv, Storing, Claiming

\* Sessions that were lost stay lost: a step into a state without any was taken in one,
\* and is a step of the archive or a repair.
LEMMA HeldSteps ==
  ASSUME LogTypeOK, SessionsHeld', [LiveNext]_liveVars
  PROVE  SessionsHeld /\ ([Next]_vars \/ \E w \in Writers : Repair(w))
<1>1. sessions \in Nat /\ sessions' = 0  BY LogAssumption DEF LogTypeOK, SessionsHeld
<1>2. sessions' = sessions \/ EndSession
  BY DEF LiveNext, CalmDown, Interrupted, Running, Repair, liveVars
<1>3. ~EndSession  BY <1>1 DEF EndSession
<1>4. SessionsHeld  BY <1>1, <1>2, <1>3 DEF SessionsHeld
<1>. QED
  BY <1>3, <1>4
     DEF LiveNext, CalmDown, Interrupted, Shutdown, LoseCheckpoint, Running, StartQuery,
         PlanBatch, CommitBatch, Next, Interruption, TriggerLoop, liveVars

LEMMA HeldInvStep ==
  ASSUME DataOK, DataOK', LogTypeOK, \A w \in Writers : WriterOK(w), HeldInv, [LiveNext]_liveVars
  PROVE  HeldInv'
<1>. SUFFICES ASSUME SessionsHeld'  PROVE (OffsetInv /\ FilesInv /\ NoRowTwice)'
  BY DEF HeldInv
<1>1. SessionsHeld /\ ([Next]_vars \/ \E w \in Writers : Repair(w))  BY HeldSteps
<1>2. OffsetInv /\ FilesInv /\ NoRowTwice  BY <1>1 DEF HeldInv
<1>3. CASE [Next]_vars  BY <1>2, <1>3, OffsetStep, FilesStep, NoRowTwiceStep
<1>4. ASSUME NEW w \in Writers, Repair(w)  PROVE (OffsetInv /\ FilesInv /\ NoRowTwice)'
  <2>1. ledger' = ledger  BY <1>4, RepairMoves
  <2>. QED  BY <1>2, <1>4, <2>1, OffsetRepair, FilesRepair DEF NoRowTwice
<1>. QED  BY <1>1, <1>3, <1>4

\* What RawArchive promises of offsets, prefixes and rows is kept by shutdowns that spoil
\* the logs and by repairs, for as long as every call keeps its session.
THEOREM HeldInvariant == LiveSpec => []HeldInv
<1>1. LiveInit => HeldInv
  BY OffsetInit, FilesInit DEF LiveInit, HeldInv, Init, NoRowTwice
<1>2. RepairInv /\ RepairInv' /\ HeldInv /\ [LiveNext]_liveVars => HeldInv'
  <2>. DEFINE Typed == DataOK
  <2>1. RepairInv => Typed  BY DEF RepairInv
  <2>2. RepairInv /\ Typed' /\ HeldInv /\ [LiveNext]_liveVars => HeldInv'
    BY WritersOK, HeldInvStep
  <2>. QED  BY <2>1, <2>2, PTL
<1>. QED  BY <1>1, <1>2, RepairInvariant, PTL DEF LiveSpec

\* Both together: what holds of checkpoints, ledger and store wherever shutdowns, lost
\* sessions and repairs leave them.
THEOREM LiveInvariant == LiveSpec => []LiveInv
<1>1. RepairInv /\ HeldInv => LiveInv  BY DEF LiveInv
<1>. QED  BY <1>1, RepairInvariant, HeldInvariant, PTL

\* No repaired checkpoint makes the ledger count a row twice, leave a hole, or name files
\* that were replaced: the batch that a repair lets run again finds its rows accounted for.
THEOREM RepairKeepsArchive ==
  LiveSpec => [](SessionsHeld => NoRowTwice /\ NoHole /\ CommittedIntact /\ EveryRowAccounted)
<1>1. RepairInv /\ HeldInv
      => (SessionsHeld => NoRowTwice /\ NoHole /\ CommittedIntact /\ EveryRowAccounted)
  BY NoHoleIf DEF RepairInv, HeldInv, FilesInv
<1>. QED  BY <1>1, RepairInvariant, HeldInvariant, PTL

\* The ledger still implements ContiguousArchive then.
THEOREM RepairRefinement == LiveSpec /\ []SessionsHeld => ImplementsContiguousArchive
<1>. DEFINE Held == DataOK /\ LogTypeOK /\ (\A w \in Writers : WriterOK(w))
               /\ OffsetInv /\ NoHole
<1>1. LiveInit => Contiguous!Init
  BY DEF LiveInit, Init, Contiguous!Init, Covered
<1>2. RepairInv /\ HeldInv /\ SessionsHeld => Held
  BY WritersOK, NoHoleIf DEF HeldInv
<1>3. Held /\ Held' /\ SessionsHeld' /\ [LiveNext]_liveVars
      => [Contiguous!Next]_[p \in Partitions |-> Covered(p)]
  <2>. SUFFICES ASSUME Held, Held', SessionsHeld', [LiveNext]_liveVars
                PROVE  [Contiguous!Next]_[p \in Partitions |-> Covered(p)]
    OBVIOUS
  <2>1. CASE [Next]_vars  BY <2>1, ExtendsRun
  <2>2. ASSUME NEW w \in Writers, Repair(w)
        PROVE  [p \in Partitions |-> Covered(p)]' = [p \in Partitions |-> Covered(p)]
    <3>1. ledger' = ledger  BY <2>2, RepairMoves
    <3>. QED  BY <3>1 DEF Covered
  <2>. QED  BY <2>1, <2>2, HeldSteps
<1>. HIDE DEF Held
<1>. QED  BY <1>1, <1>2, <1>3, RepairInvariant, HeldInvariant, PTL
          DEF LiveSpec, ImplementsContiguousArchive, Contiguous!Spec
=============================================================================
