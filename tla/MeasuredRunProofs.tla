------------------------- MODULE MeasuredRunProofs -------------------------
(***************************************************************************)
(* Proofs about the histogram and about the figures of the report, for     *)
(* every number of connections, timeout, runtime and head start.           *)
(***************************************************************************)
EXTENDS MeasuredRun, Sums

Buckets == 0 .. Timeout

\* The histograms of a run.
Histograms ==
  [ count : Nat, limit : {Timeout + 1}, min : 0 .. Timeout + 2, max : Buckets,
    data : [Buckets -> Nat] ]

\* The count is that of the buckets, and no bucket outside the window is used.
Counted(h) == h.count = SumOf(h.data, Buckets)
Bounded(h) == \A v \in Buckets : h.data[v] > 0 => h.min <= v /\ v <= h.max

LEMMA BucketsFinite == \A a, b \in Int : IsFiniteSet(a .. b)
BY FS_Interval

LEMMA SamplesAreSum == ASSUME NEW h, NEW S PROVE Samples(h, S) = SumOf(h.data, S)
BY DEF Samples, FoldFunctionOnSet, SumOf, MapThenSumSet

LEMMA FieldTypes ==
  ASSUME NEW h \in Histograms
  PROVE  /\ h.count \in Nat /\ h.limit = Timeout + 1
         /\ h.min \in 0 .. Timeout + 2 /\ h.max \in 0 .. Timeout
         /\ h.data \in [Buckets -> Nat] /\ DOMAIN h.data = Buckets
         /\ Timeout \in Nat
         /\ \A v \in Buckets : v \in Nat /\ h.data[v] \in Nat
BY TimesAssumption DEF Histograms, Buckets

-----------------------------------------------------------------------------
\* Recording.

LEMMA AllocFacts ==
  /\ Alloc(Timeout + 1) \in Histograms
  /\ Counted(Alloc(Timeout + 1))
  /\ Bounded(Alloc(Timeout + 1))
<1> DEFINE h == Alloc(Timeout + 1)
<1>1. Timeout \in Nat
  BY TimesAssumption
<1>2. h.data = [v \in Buckets |-> 0] /\ h.count = 0
  BY <1>1 DEF Alloc, Buckets
<1>3. h \in Histograms
  BY <1>1 DEF Alloc, Histograms, Buckets
<1>4. SumOf(h.data, Buckets) = 0
  <2>1. \A v \in Buckets : h.data[v] = 0
    BY <1>2
  <2> HIDE DEF h
  <2>2. QED
    BY <1>1, <2>1, BucketsFinite, SumZero DEF Buckets
<1>5. QED
  BY <1>2, <1>3, <1>4 DEF Counted, Bounded

LEMMA RecordedFacts ==
  ASSUME NEW h \in Histograms, Counted(h), Bounded(h), NEW l \in Buckets
  PROVE  /\ Recorded(h, l) \in Histograms
         /\ Counted(Recorded(h, l))
         /\ Bounded(Recorded(h, l))
         /\ Recorded(h, l).data = [h.data EXCEPT ![l] = @ + 1]
         /\ Recorded(h, l).min = IF l < h.min THEN l ELSE h.min
<1> DEFINE r == Recorded(h, l)
           d == [h.data EXCEPT ![l] = @ + 1]
           c == h.count + 1
           low  == IF l < h.min THEN l ELSE h.min
           high == IF l > h.max THEN l ELSE h.max
<1>1. l \in Nat /\ l <= Timeout /\ ~(l >= h.limit)
  BY FieldTypes DEF Buckets
<1>2. r = [h EXCEPT !.data = d, !.count = c, !.min = low, !.max = high]
  BY <1>1 DEF Recorded
<1>3. /\ d \in [Buckets -> Nat] /\ c \in Nat
      /\ low \in 0 .. Timeout + 2 /\ high \in Buckets
  BY <1>1, FieldTypes DEF Buckets
<1>4. /\ low <= h.min /\ low <= l /\ (low = h.min \/ low = l)
      /\ h.max <= high /\ l <= high
  BY <1>1, FieldTypes
<1> HIDE DEF r, c, d, low, high
<1>5. /\ r \in Histograms
      /\ r.data = d /\ r.count = c /\ r.min = low /\ r.max = high
  BY <1>2, <1>3 DEF Histograms
<1> HIDE DEF r
<1>6. Counted(r)
  <2>1. IsFiniteSet(Buckets)
    BY FieldTypes, BucketsFinite DEF Buckets
  <2>2. SumOf(d, Buckets) = SumOf(h.data, Buckets) + 1
    BY <2>1, FieldTypes, SumOneMore DEF d
  <2>3. QED
    BY <1>5, <2>2 DEF Counted, c
<1>7. Bounded(r)
  <2> SUFFICES ASSUME NEW v \in Buckets, d[v] > 0
               PROVE  low <= v /\ v <= high
    BY <1>5 DEF Bounded
  <2>1. CASE v = l
    BY <1>4, <2>1
  <2>2. CASE v # l
    <3>1. h.min <= v /\ v <= h.max
      BY <2>2, FieldTypes DEF Bounded, d
    <3>2. QED
      BY <1>1, <1>3, <1>4, <3>1, FieldTypes DEF Buckets
  <2>3. QED
    BY <2>1, <2>2
<1>8. QED
  BY <1>5, <1>6, <1>7 DEF r, d, low

-----------------------------------------------------------------------------
\* The correction.

\* The turns of the loop of correct, from the bucket 2 * e on; the buckets of
\* the turns s that hold back value m; and the buckets and the histogram when
\* exactly these turns are done.
Turns(h, e)      == 1 .. h.max - 2 * e + 1
Bucket(e, i)     == 2 * e + i - 1
Hiding(e, s, m)  == { n \in { Bucket(e, i) : i \in s } : m \in Omitted(n, e) }
Filled(h, e, s)  == [m \in Buckets |-> h.data[m] + SumOf(h.data, Hiding(e, s, m))]
After(h, e, s)   == [h EXCEPT !.data = Filled(h, e, s),
                              !.count = SumOf(Filled(h, e, s), Buckets)]

LEMMA TurnFacts ==
  ASSUME NEW h \in Histograms, NEW e \in Nat \ {0}, NEW i \in Turns(h, e)
  PROVE  /\ Bucket(e, i) \in Buckets
         /\ Bucket(e, i) <= h.max /\ 2 * e <= Bucket(e, i)
         /\ \A m \in Omitted(Bucket(e, i), e) :
              m \in Buckets /\ e < m /\ m + e <= Bucket(e, i)
<1>1. i \in Nat /\ 1 <= i /\ i <= h.max - 2 * e + 1
  BY FieldTypes DEF Turns
<1>2. Bucket(e, i) \in Int /\ Bucket(e, i) <= h.max /\ 2 * e <= Bucket(e, i)
  BY <1>1, FieldTypes DEF Bucket
<1> DEFINE n == Bucket(e, i)
<1> HIDE DEF n
<1>3. n \in Int /\ n <= h.max /\ 2 * e <= n
  BY <1>2 DEF n
<1>4. ASSUME NEW m \in Omitted(n, e)
      PROVE  m \in Int /\ e < m /\ m + e <= n
  BY <1>3 DEF Omitted
<1>5. \A m \in Omitted(n, e) : m \in Buckets /\ e < m /\ m + e <= n
  BY <1>3, <1>4, FieldTypes DEF Buckets
<1>6. n \in Buckets
  BY <1>3, FieldTypes DEF Buckets
<1>7. QED
  BY <1>3, <1>5, <1>6 DEF n

LEMMA HidingFacts ==
  ASSUME NEW h \in Histograms, NEW e \in Nat \ {0}, NEW s \in SUBSET Turns(h, e), NEW m
  PROVE  /\ Hiding(e, s, m) \subseteq Buckets /\ IsFiniteSet(Hiding(e, s, m))
         /\ SumOf(h.data, Hiding(e, s, m)) \in Nat
<1>1. Hiding(e, s, m) \subseteq Buckets
  BY TurnFacts DEF Hiding
<1>2. IsFiniteSet(Buckets)
  BY FieldTypes, BucketsFinite DEF Buckets
<1>3. IsFiniteSet(Hiding(e, s, m))
  BY <1>1, <1>2, FS_Subset
<1>4. \A v \in Hiding(e, s, m) : h.data[v] \in Nat
  BY <1>1, FieldTypes
<1>5. QED
  BY <1>1, <1>3, <1>4, SumType

LEMMA FilledType ==
  ASSUME NEW h \in Histograms, NEW e \in Nat \ {0}, NEW s \in SUBSET Turns(h, e)
  PROVE  /\ Filled(h, e, s) \in [Buckets -> Nat]
         /\ SumOf(Filled(h, e, s), Buckets) \in Nat
<1>1. Filled(h, e, s) \in [Buckets -> Nat]
  <2>1. ASSUME NEW m \in Buckets
        PROVE  h.data[m] + SumOf(h.data, Hiding(e, s, m)) \in Nat
    <3>1. SumOf(h.data, Hiding(e, s, m)) \in Nat
      BY HidingFacts
    <3>2. h.data[m] \in Nat
      BY FieldTypes
    <3>3. QED
      BY <3>1, <3>2
  <2>2. QED
    BY <2>1 DEF Filled
<1>2. IsFiniteSet(Buckets)
  BY FieldTypes, BucketsFinite DEF Buckets
<1>3. QED
  BY <1>1, <1>2, SumType

LEMMA AfterNone ==
  ASSUME NEW h \in Histograms, Counted(h), NEW e \in Nat \ {0}
  PROVE  After(h, e, {}) = h
<1>1. ASSUME NEW m \in Buckets PROVE h.data[m] + SumOf(h.data, Hiding(e, {}, m)) = h.data[m]
  <2>1. Hiding(e, {}, m) = {}
    BY DEF Hiding
  <2>2. SumOf(h.data, {}) = 0
    BY SumEmpty
  <2>3. SumOf(h.data, Hiding(e, {}, m)) = 0 /\ h.data[m] \in Nat
    BY <2>1, <2>2, FieldTypes
  <2>4. QED
    BY <2>3
<1>2. Filled(h, e, {}) = [m \in Buckets |-> h.data[m]]
  BY <1>1 DEF Filled
<1>3. Filled(h, e, {}) = h.data
  BY <1>2, FieldTypes
<1>4. SumOf(Filled(h, e, {}), Buckets) = h.count
  BY <1>3 DEF Counted
<1>5. QED
  BY <1>3, <1>4 DEF After, Histograms

\* The turn x, after the turns of s before it.  Its bucket is as it was: the
\* earlier turns have only added to smaller values.
LEMMA AfterTurn ==
  ASSUME NEW h \in Histograms, NEW e \in Nat \ {0}, NEW s \in SUBSET Turns(h, e),
         NEW x \in s, \A y \in s : y <= x
  PROVE  After(h, e, s) = CorrectBucket(After(h, e, s \ {x}), Bucket(e, x), e)
<1> DEFINE r  == s \ {x}
           n  == Bucket(e, x)
           om == Omitted(n, e)
           F  == Filled(h, e, r)
           G  == Filled(h, e, s)
           d  == h.data[n]
           extra == [m \in Buckets |-> IF m \in om THEN d ELSE 0]
<1>1. r \in SUBSET Turns(h, e) /\ x \in Turns(h, e)
  OBVIOUS
<1>2. n \in Buckets /\ om \subseteq Buckets /\ n \in Int /\ \A m \in om : m + e <= n
  BY <1>1, TurnFacts DEF Buckets
<1>3. \A i \in r : i \in Int /\ i < x
  BY <1>1 DEF Turns
<1>4. \A i \in r : Bucket(e, i) < n /\ Bucket(e, i) \in Int
  BY <1>1, <1>3 DEF Bucket, Turns
<1>5. Hiding(e, r, n) = {}
  <2> SUFFICES ASSUME NEW i \in r, n \in Omitted(Bucket(e, i), e) PROVE FALSE
    BY DEF Hiding
  <2>1. n + e <= Bucket(e, i)
    BY <1>1, TurnFacts
  <2>2. QED
    BY <1>2, <1>4, <2>1
<1>6. F \in [Buckets -> Nat] /\ G \in [Buckets -> Nat] /\ d \in Nat
  BY <1>1, <1>2, FilledType, FieldTypes
<1>7. F[n] = d
  <2>1. F[n] = d + SumOf(h.data, {})
    BY <1>2, <1>5 DEF Filled
  <2>2. QED
    BY <1>6, <2>1, SumEmpty
<1>8. ASSUME NEW m \in Buckets PROVE G[m] = F[m] + extra[m]
  <2> DEFINE A == Hiding(e, r, m)
             B == Hiding(e, s, m)
  <2>1. n \notin A
    BY <1>2, <1>4 DEF Hiding
  <2>2. B = IF m \in om THEN A \cup {n} ELSE A
    BY DEF Hiding
  <2>3. IsFiniteSet(B) /\ B \subseteq Buckets /\ SumOf(h.data, A) \in Nat
    BY <1>1, HidingFacts
  <2>4. \A v \in B : h.data[v] \in Int
    BY <2>3, FieldTypes
  <2>5. /\ F[m] = h.data[m] + SumOf(h.data, A)
        /\ G[m] = h.data[m] + SumOf(h.data, B)
    BY DEF Filled
  <2> HIDE DEF A, B
  <2>6. CASE m \in om
    <3>1. n \in B /\ B \ {n} = A
      BY <2>1, <2>2, <2>6
    <3>2. SumOf(h.data, B) = d + SumOf(h.data, A)
      BY <2>3, <2>4, <3>1, SumTake
    <3>3. QED
      BY <1>6, <2>3, <2>5, <2>6, <3>2, FieldTypes
  <2>7. CASE m \notin om
    BY <1>6, <2>2, <2>5, <2>7
  <2>8. QED
    BY <2>6, <2>7
<1>9. SumOf(G, Buckets) = SumOf(F, Buckets) + d * Cardinality(om)
  <2>1. IsFiniteSet(Buckets) /\ IsFiniteSet(om)
    <3>1. IsFiniteSet(Buckets)
      BY FieldTypes, BucketsFinite DEF Buckets
    <3>2. QED
      BY <1>2, <3>1, FS_Subset
  <2>2. extra \in [Buckets -> Nat]
    BY <1>6
  <2>3. \A m \in om : extra[m] = d
    BY <1>2
  <2>4. \A m \in Buckets \ om : extra[m] = 0
    OBVIOUS
  <2> HIDE DEF extra, om, d, n
  <2>5. SumOf(extra, om) = SumOf(extra, Buckets)
    BY <1>2, <2>1, <2>2, <2>4, SumPart
  <2>6. SumOf(extra, om) = d * Cardinality(om)
    BY <1>6, <2>1, <2>3, SumConstant
  <2>7. SumOf(G, Buckets) = SumOf(F, Buckets) + SumOf(extra, Buckets)
    <3>1. \A m \in Buckets : F[m] \in Int /\ extra[m] \in Int /\ G[m] = F[m] + extra[m]
      BY <1>6, <1>8, <2>2
    <3> HIDE DEF F, G
    <3>2. QED
      BY <2>1, <3>1, SumAdd
  <2>8. QED
    BY <2>5, <2>6, <2>7
<1>10. G = [m \in Buckets |-> IF m \in om THEN F[m] + d ELSE F[m]]
  <2>1. G = [m \in Buckets |-> G[m]]
    BY <1>6
  <2>2. \A m \in Buckets : G[m] = IF m \in om THEN F[m] + d ELSE F[m]
    BY <1>6, <1>8
  <2>3. QED
    BY <2>1, <2>2
<1> DEFINE g == After(h, e, r)
<1>11. g.data = F /\ g.count = SumOf(F, Buckets) /\ DOMAIN F = Buckets
  BY <1>6 DEF After, Histograms
<1>12. CorrectBucket(g, n, e) = [g EXCEPT !.data = G, !.count = SumOf(G, Buckets)]
  <2> HIDE DEF g, F, G, om, d, n
  <2>1. CorrectBucket(g, n, e) =
          [g EXCEPT !.data = [m \in Buckets |-> IF m \in om THEN F[m] + F[n] ELSE F[m]],
                    !.count = SumOf(F, Buckets) + F[n] * Cardinality(om)]
    BY <1>11 DEF CorrectBucket, om
  <2>2. QED
    BY <1>7, <1>9, <1>10, <2>1
<1>13. After(h, e, s) = [g EXCEPT !.data = G, !.count = SumOf(G, Buckets)]
  BY DEF After, Histograms
<1>14. QED
  BY <1>12, <1>13

\* g has the histogram after each set of turns, taken in ascending order.
Corrects(g, h, e) ==
  g = [t \in SUBSET Turns(h, e) |->
         IF t = {} THEN h
         ELSE CorrectBucket(g[t \ {Max(t)}], Bucket(e, Max(t)), e)]

LEMMA CorrectsAt ==
  ASSUME NEW h, NEW e, NEW g, Corrects(g, h, e), NEW t \in SUBSET Turns(h, e)
  PROVE  g[t] = IF t = {} THEN h
                ELSE CorrectBucket(g[t \ {Max(t)}], Bucket(e, Max(t)), e)
BY DEF Corrects

LEMMA LastTurn ==
  ASSUME NEW h \in Histograms, NEW e \in Nat \ {0},
         NEW t \in SUBSET Turns(h, e), t # {}
  PROVE  Max(t) \in t /\ \A y \in t : y <= Max(t)
<1>1. IsFiniteSet(Turns(h, e)) /\ Turns(h, e) \subseteq Int
  BY FieldTypes, BucketsFinite DEF Turns
<1>2. IsFiniteSet(t) /\ t \subseteq Int
  BY <1>1, FS_Subset
<1>3. QED
  BY <1>2, Largest

LEMMA AfterEquation ==
  ASSUME NEW h \in Histograms, Counted(h), NEW e \in Nat \ {0},
         NEW t \in SUBSET Turns(h, e)
  PROVE  After(h, e, t) =
           IF t = {} THEN h
           ELSE CorrectBucket(After(h, e, t \ {Max(t)}), Bucket(e, Max(t)), e)
<1>1. CASE t = {}
  BY <1>1, AfterNone
<1>2. CASE t # {}
  <2>1. Max(t) \in t /\ \A y \in t : y <= Max(t)
    BY <1>2, LastTurn
  <2>2. QED
    BY <1>2, <2>1, AfterTurn
<1>3. QED
  BY <1>1, <1>2

LEMMA CorrectedIsAfter ==
  ASSUME NEW h \in Histograms, Counted(h), NEW e \in Nat \ {0}
  PROVE  Corrected(h, e) = After(h, e, Turns(h, e))
<1> DEFINE D   == Turns(h, e)
           seq == [i \in 1 .. h.max - 2 * e + 1 |-> 2 * e + i - 1]
           a   == [t \in SUBSET D |-> After(h, e, t)]
           g   == CHOOSE f : Corrects(f, h, e)
<1>1. ~(e <= 0)
  OBVIOUS
<1>2. Corrected(h, e) =
        (CHOOSE f : f = [t \in SUBSET DOMAIN seq |->
           IF t = {} THEN h ELSE CorrectBucket(f[t \ {Max(t)}], seq[Max(t)], e)])[DOMAIN seq]
  BY <1>1 DEF Corrected, FoldLeft, MapThenFoldSet
<1>3. DOMAIN seq = D
  BY DEF Turns
<1>4. ASSUME NEW t \in SUBSET D, t # {} PROVE Max(t) \in t /\ seq[Max(t)] = Bucket(e, Max(t))
  <2>1. Max(t) \in t
    BY <1>4, LastTurn
  <2>2. QED
    BY <2>1 DEF Turns, Bucket
<1>5. \A f : (f = [t \in SUBSET D |->
           IF t = {} THEN h ELSE CorrectBucket(f[t \ {Max(t)}], seq[Max(t)], e)])
        <=> Corrects(f, h, e)
  <2> HIDE DEF seq
  <2>1. \A f : [t \in SUBSET D |->
           IF t = {} THEN h ELSE CorrectBucket(f[t \ {Max(t)}], seq[Max(t)], e)]
       = [t \in SUBSET D |->
           IF t = {} THEN h ELSE CorrectBucket(f[t \ {Max(t)}], Bucket(e, Max(t)), e)]
    BY <1>4
  <2>2. QED
    BY <2>1 DEF Corrects
<1>6. Corrected(h, e) = g[D]
  <2> HIDE DEF D, seq
  <2>1. (CHOOSE f : f = [t \in SUBSET D |->
           IF t = {} THEN h ELSE CorrectBucket(f[t \ {Max(t)}], seq[Max(t)], e)]) = g
    BY <1>5
  <2>2. QED
    BY <1>2, <1>3, <2>1
<1>7. Corrects(a, h, e)
  <2>1. ASSUME NEW t \in SUBSET D
        PROVE  a[t] = IF t = {} THEN h
                      ELSE CorrectBucket(a[t \ {Max(t)}], Bucket(e, Max(t)), e)
    BY AfterEquation
  <2>2. a = [t \in SUBSET D |->
               IF t = {} THEN h ELSE CorrectBucket(a[t \ {Max(t)}], Bucket(e, Max(t)), e)]
    BY <2>1
  <2> HIDE DEF a
  <2>3. QED
    BY <2>2 DEF Corrects
<1>8. Corrects(g, h, e)
  BY <1>7
<1> DEFINE bad == { t \in SUBSET D : g[t] # a[t] }
<1>9. bad = {}
  <2> SUFFICES ASSUME bad # {} PROVE FALSE
    OBVIOUS
  <2>1. IsFiniteSet(D)
    BY FieldTypes, BucketsFinite DEF Turns
  <2>2. PICK t \in bad : \A u \in bad : u \subseteq t => u = t
    <3>1. bad \in SUBSET SUBSET D
      OBVIOUS
    <3> HIDE DEF bad, D
    <3>2. QED
      BY <2>1, <3>1, MinimalSet
  <2> HIDE DEF g, a
  <2>3. t \in SUBSET D /\ g[t] # a[t]
    BY <2>2
  <2>4. t # {}
    <3>1. t = {} => g[t] = h /\ a[t] = h
      BY <1>7, <1>8, <2>3, CorrectsAt
    <3>2. QED
      BY <2>3, <3>1
  <2>5. g[t \ {Max(t)}] = a[t \ {Max(t)}]
    BY <1>4, <2>2, <2>3, <2>4
  <2>6. QED
    BY <1>7, <1>8, <2>3, <2>4, <2>5, CorrectsAt
<1>10. g[D] = a[D]
  <2> HIDE DEF g, a, D
  <2>1. QED
    BY <1>9
<1>11. QED
  BY <1>6, <1>10

\* The buckets above the largest sample have none to add.
LEMMA HidingAll ==
  ASSUME NEW h \in Histograms, Bounded(h), NEW e \in Nat \ {0}, NEW m \in Buckets
  PROVE  SumOf(h.data, Hiding(e, Turns(h, e), m))
           = SumOf(h.data, { n \in Buckets : n >= 2 * e /\ m \in Omitted(n, e) })
<1> DEFINE A == Hiding(e, Turns(h, e), m)
           B == { n \in Buckets : n >= 2 * e /\ m \in Omitted(n, e) }
<1>1. IsFiniteSet(B)
  <2>1. IsFiniteSet(Buckets)
    BY FieldTypes, BucketsFinite DEF Buckets
  <2>2. QED
    BY <2>1, FS_Subset
<1>2. A \in SUBSET B
  <2> SUFFICES ASSUME NEW i \in Turns(h, e), m \in Omitted(Bucket(e, i), e)
               PROVE  Bucket(e, i) \in B
    BY DEF Hiding
  <2>1. Bucket(e, i) \in Buckets /\ 2 * e <= Bucket(e, i)
    BY TurnFacts
  <2>2. QED
    BY <2>1, FieldTypes
<1>3. ASSUME NEW n \in B \ A PROVE h.data[n] = 0
  <2>1. n \in Buckets /\ n \in Int /\ n >= 2 * e /\ m \in Omitted(n, e)
    BY FieldTypes
  <2>2. CASE n <= h.max
    <3>1. n - 2 * e + 1 \in Turns(h, e)
      BY <2>1, <2>2, FieldTypes DEF Turns
    <3>2. Bucket(e, n - 2 * e + 1) = n
      BY <2>1 DEF Bucket
    <3>3. n \in A
      BY <2>1, <3>1, <3>2 DEF Hiding
    <3>4. QED
      BY <3>3
  <2>3. CASE ~(n <= h.max)
    BY <2>1, <2>3, FieldTypes DEF Bounded
  <2>4. QED
    BY <2>2, <2>3
<1>4. \A n \in B : h.data[n] \in Nat
  BY FieldTypes
<1> HIDE DEF A, B
<1>5. SumOf(h.data, A) = SumOf(h.data, B)
  BY <1>1, <1>2, <1>3, <1>4, SumPart
<1>6. QED
  BY <1>5 DEF A, B

LEMMA CorrectedFacts ==
  ASSUME NEW h \in Histograms, Counted(h), Bounded(h), NEW e \in Nat
  PROVE  /\ Corrected(h, e) \in Histograms
         /\ Counted(Corrected(h, e))
         /\ Corrected(h, e).min = h.min /\ Corrected(h, e).max = h.max
         /\ Corrected(h, e).data = WithOmitted(h, e)
<1>1. CASE e = 0
  <2>1. Corrected(h, e) = h
    BY <1>1 DEF Corrected
  <2>2. ASSUME NEW m \in Buckets
        PROVE  h.data[m] + Samples(h, { n \in Buckets : e > 0 /\ n >= 2 * e /\ m \in Omitted(n, e) })
                 = h.data[m]
    <3> DEFINE B == { n \in Buckets : e > 0 /\ n >= 2 * e /\ m \in Omitted(n, e) }
    <3>1. B = {}
      BY <1>1
    <3>2. Samples(h, {}) = 0
      BY SamplesAreSum, SumEmpty
    <3>3. h.data[m] \in Nat
      BY FieldTypes
    <3> HIDE DEF B
    <3>4. h.data[m] + Samples(h, B) = h.data[m]
      BY <3>1, <3>2, <3>3
    <3>5. QED
      BY <3>4 DEF B
  <2>3. WithOmitted(h, e) = [m \in Buckets |-> h.data[m]]
    BY <2>2, FieldTypes DEF WithOmitted
  <2>4. WithOmitted(h, e) = h.data
    BY <2>3, FieldTypes
  <2>5. QED
    BY <2>1, <2>4
<1>2. CASE e \in Nat \ {0}
  <2> DEFINE s == Turns(h, e)
  <2>1. Corrected(h, e) = After(h, e, s)
    BY <1>2, CorrectedIsAfter
  <2>2. Filled(h, e, s) \in [Buckets -> Nat] /\ SumOf(Filled(h, e, s), Buckets) \in Nat
    BY <1>2, FilledType
  <2>3. ASSUME NEW m \in Buckets
        PROVE  h.data[m] + SumOf(h.data, Hiding(e, s, m))
                 = h.data[m] + Samples(h, { n \in Buckets : e > 0 /\ n >= 2 * e /\ m \in Omitted(n, e) })
    <3>1. { n \in Buckets : e > 0 /\ n >= 2 * e /\ m \in Omitted(n, e) }
            = { n \in Buckets : n >= 2 * e /\ m \in Omitted(n, e) }
      BY <1>2
    <3>2. QED
      BY <1>2, <3>1, HidingAll, SamplesAreSum
  <2>4. Filled(h, e, s) = WithOmitted(h, e)
    BY <2>3, FieldTypes DEF Filled, WithOmitted
  <2> HIDE DEF s
  <2>5. /\ After(h, e, s) \in Histograms
        /\ After(h, e, s).data = Filled(h, e, s)
        /\ After(h, e, s).count = SumOf(Filled(h, e, s), Buckets)
        /\ After(h, e, s).min = h.min
        /\ After(h, e, s).max = h.max
    BY <2>2 DEF After, Histograms
  <2>6. Counted(After(h, e, s))
    BY <2>5 DEF Counted
  <2>7. QED
    BY <2>1, <2>4, <2>5, <2>6
<1>3. QED
  BY <1>1, <1>2

\* The correction keeps to the window of the samples if no sample stands for
\* one below them.
LEMMA CorrectedBounded ==
  ASSUME NEW h \in Histograms, Counted(h), Bounded(h), NEW e \in Nat,
         \A n \in Buckets : e > 0 /\ h.data[n] > 0 =>
            \A m \in Omitted(n, e) : h.min <= m
  PROVE  Bounded(Corrected(h, e))
<1> DEFINE c == Corrected(h, e)
<1>1. /\ c.min = h.min /\ c.max = h.max /\ c.data = WithOmitted(h, e)
      /\ c \in Histograms
  BY CorrectedFacts
<1> HIDE DEF c
<1> SUFFICES ASSUME NEW m \in Buckets, c.data[m] > 0, ~(h.min <= m /\ m <= h.max)
             PROVE  FALSE
  BY <1>1 DEF Bounded, c
<1> DEFINE B == { n \in Buckets : e > 0 /\ n >= 2 * e /\ m \in Omitted(n, e) }
<1>2. c.data[m] = h.data[m] + SumOf(h.data, B)
  BY <1>1, FieldTypes, SamplesAreSum DEF WithOmitted
<1>3. h.data[m] = 0
  BY FieldTypes DEF Bounded
<1>4. ASSUME NEW n \in B PROVE h.data[n] = 0
  <2> SUFFICES ASSUME h.data[n] > 0 PROVE FALSE
    BY FieldTypes
  <2>1. n \in Int /\ m \in Int /\ h.min \in Int /\ h.max \in Int
    BY FieldTypes
  <2>2. h.min <= m
    OBVIOUS
  <2>3. m <= n - e
    BY <2>1 DEF Omitted
  <2>4. n <= h.max
    BY DEF Bounded
  <2>5. QED
    BY <2>1, <2>2, <2>3, <2>4
<1>5. SumOf(h.data, B) = 0
  <2>1. IsFiniteSet(Buckets)
    BY FieldTypes, BucketsFinite DEF Buckets
  <2>2. IsFiniteSet(B)
    BY <2>1, FS_Subset
  <2> HIDE DEF B
  <2>3. QED
    BY <1>4, <2>2, SumZero
<1>6. QED
  BY <1>2, <1>3, <1>5

-----------------------------------------------------------------------------
\* The queries, of a histogram that is counted and bounded.

LEMMA WindowFacts ==
  ASSUME NEW h \in Histograms, Counted(h), Bounded(h)
  PROVE  /\ Window(h) \subseteq Buckets
         /\ IsFiniteSet(Window(h))
         /\ \A i \in Window(h) : i \in Nat /\ h.min <= i /\ i <= h.max
         /\ SumOf(h.data, Window(h)) = h.count
         /\ h.count > 0 => h.min \in Window(h) /\ h.max \in Window(h)
<1>1. \A i \in Window(h) : i \in Nat /\ i \in Buckets /\ h.min <= i /\ i <= h.max
  BY FieldTypes DEF Window, Buckets
<1>2. IsFiniteSet(Buckets) /\ IsFiniteSet(Window(h))
  BY FieldTypes, BucketsFinite DEF Buckets, Window
<1>3. Window(h) \in SUBSET Buckets
  BY <1>1
<1>4. \A i \in Buckets \ Window(h) : h.data[i] = 0
  <2> SUFFICES ASSUME NEW i \in Buckets, i \notin Window(h) PROVE h.data[i] = 0
    OBVIOUS
  <2>1. i \in Nat /\ h.data[i] \in Nat /\ ~(h.min <= i /\ i <= h.max)
    BY FieldTypes DEF Window
  <2>2. QED
    BY <2>1 DEF Bounded
<1>5. \A i \in Buckets : h.data[i] \in Nat
  BY FieldTypes
<1>6. SumOf(h.data, Window(h)) = h.count
  BY <1>2, <1>3, <1>4, <1>5, SumPart DEF Counted
<1>7. ASSUME h.count > 0 PROVE h.min \in Window(h) /\ h.max \in Window(h)
  <2>1. Window(h) # {}
    <3>1. SumOf(h.data, {}) = 0
      BY SumEmpty
    <3>2. QED
      BY <1>6, <1>7, <3>1
  <2>2. h.min <= h.max
    BY <1>1, <2>1, FieldTypes
  <2>3. QED
    BY <2>2, FieldTypes DEF Window
<1>8. QED
  BY <1>1, <1>2, <1>6, <1>7

\* The first value of a set of natural numbers.
First(i, S) == i \in S /\ \A j \in S : i <= j

LEMMA FirstExists ==
  ASSUME NEW s, IsFiniteSet(s), s \subseteq Nat, s # {}
  PROVE  \E i \in s : First(i, s)
<1>1. PICK x \in s : \A y \in s :
        UpTo(s)[y] \subseteq UpTo(s)[x] => UpTo(s)[y] = UpTo(s)[x]
  BY SmallestEnds
<1>2. ASSUME NEW y \in s PROVE x <= y
  <2> SUFFICES ASSUME y < x PROVE FALSE
    OBVIOUS
  <2>1. x \in Int /\ y \in Int /\ \A z \in s : z \in Int
    OBVIOUS
  <2>2. x \in UpTo(s)[x] /\ x \notin UpTo(s)[y]
    BY <2>1 DEF UpTo
  <2>3. ASSUME NEW z \in UpTo(s)[y] PROVE z \in UpTo(s)[x]
    BY <2>1 DEF UpTo
  <2>4. QED
    BY <1>1, <2>2, <2>3
<1>3. QED
  BY <1>2 DEF First

\* What percentile is to find, in the window and in all the buckets.
Reached(h, p)    == { i \in Window(h) : Samples(h, h.min .. i) >= Rank(h, p) }
ReachedAll(h, p) == { v \in Buckets : Samples(h, 0 .. v) >= Rank(h, p) }

LEMMA RankFacts ==
  ASSUME NEW h \in Histograms, NEW p \in 0 .. 99, h.count > 0
  PROVE  /\ Rank(h, p) \in 1 .. h.count
         /\ \A q \in 0 .. p : Rank(h, q) <= Rank(h, p)
<1>1. h.count \in Nat /\ p \in Nat
  BY FieldTypes
<1> DEFINE n == h.count
<1> HIDE DEF n
<1>2. n \in Nat /\ n > 0
  BY <1>1 DEF n
<1>3. p * n \in Nat /\ p * n < 100 * n
  BY <1>1, <1>2
<1>4. (p * n) \div 100 \in 0 .. n - 1
  BY <1>2, <1>3
<1>5. ASSUME NEW q \in 0 .. p PROVE (q * n) \div 100 <= (p * n) \div 100
  <2>1. q * n \in Nat /\ q * n <= p * n
    BY <1>1, <1>2
  <2>2. QED
    BY <1>3, <2>1
<1>6. \A q \in 0 .. p : (q * n) \div 100 \in Int
  BY <1>2
<1>7. QED
  BY <1>2, <1>4, <1>5, <1>6 DEF Rank, n

\* Below the window there are no samples.
LEMMA SamplesUpTo ==
  ASSUME NEW h \in Histograms, Counted(h), Bounded(h), NEW v \in Buckets
  PROVE  /\ Samples(h, 0 .. v) = Samples(h, h.min .. v)
         /\ Samples(h, h.min .. v) \in Nat
         /\ v < h.min => Samples(h, 0 .. v) = 0
<1>1. v \in Nat /\ v <= Timeout
  BY FieldTypes DEF Buckets
<1>2. IsFiniteSet(0 .. v) /\ (h.min .. v) \in SUBSET (0 .. v)
  BY <1>1, FieldTypes, BucketsFinite
<1>3. \A i \in 0 .. v : i \in Buckets /\ h.data[i] \in Nat
  BY <1>1, FieldTypes DEF Buckets
<1>4. \A i \in (0 .. v) \ (h.min .. v) : h.data[i] = 0
  BY <1>1, <1>3, FieldTypes DEF Bounded
<1>5. /\ SumOf(h.data, h.min .. v) = SumOf(h.data, 0 .. v)
      /\ SumOf(h.data, h.min .. v) \in Nat
  BY <1>2, <1>3, <1>4, SumPart
<1>6. ASSUME v < h.min PROVE SumOf(h.data, h.min .. v) = 0
  <2>1. h.min .. v = {}
    BY <1>1, <1>6, FieldTypes
  <2>2. QED
    BY <2>1, SumEmpty
<1>7. QED
  BY <1>5, <1>6, SamplesAreSum

LEMMA ReachedFacts ==
  ASSUME NEW h \in Histograms, Counted(h), Bounded(h), h.count > 0, NEW p \in 0 .. 99
  PROVE  /\ h.max \in Reached(h, p)
         /\ \E i \in Reached(h, p) : First(i, Reached(h, p))
         /\ \A i : First(i, Reached(h, p)) <=> First(i, ReachedAll(h, p))
<1>1. h.max \in Reached(h, p)
  <2>1. Samples(h, h.min .. h.max) = h.count
    BY WindowFacts, SamplesAreSum DEF Window
  <2>2. Rank(h, p) \in 1 .. h.count
    BY RankFacts
  <2>3. QED
    BY <2>1, <2>2, WindowFacts, FieldTypes DEF Reached
<1>2. Reached(h, p) \subseteq Window(h)
  BY DEF Reached
<1>3. IsFiniteSet(Reached(h, p)) /\ Reached(h, p) \subseteq Nat
  BY <1>2, WindowFacts, FS_Subset
<1>4. \E i \in Reached(h, p) : First(i, Reached(h, p))
  BY <1>1, <1>3, FirstExists
<1>5. ASSUME NEW v \in ReachedAll(h, p) PROVE h.min <= v /\ v \in Nat /\ (v <= h.max => v \in Reached(h, p))
  <2>1. v \in Buckets /\ v \in Nat /\ Samples(h, 0 .. v) >= Rank(h, p)
    BY FieldTypes DEF ReachedAll
  <2>2. ~(v < h.min)
    <3>1. v < h.min => Samples(h, 0 .. v) = 0
      BY <2>1, SamplesUpTo
    <3>2. Rank(h, p) \in 1 .. h.count /\ h.count \in Nat
      BY RankFacts, FieldTypes
    <3>3. QED
      BY <2>1, <3>1, <3>2
  <2>3. Samples(h, h.min .. v) >= Rank(h, p)
    BY <2>1, SamplesUpTo
  <2>4. QED
    BY <2>1, <2>2, <2>3, FieldTypes DEF Reached, Window
<1>6. ASSUME NEW i \in Reached(h, p) PROVE i \in ReachedAll(h, p) /\ i <= h.max /\ i \in Nat
  <2>1. i \in Window(h) /\ i \in Buckets /\ Samples(h, h.min .. i) >= Rank(h, p)
    BY WindowFacts DEF Reached
  <2>2. Samples(h, 0 .. i) >= Rank(h, p)
    BY <2>1, SamplesUpTo
  <2>3. QED
    BY <2>1, <2>2, WindowFacts DEF ReachedAll
<1>7. h.max \in Int
  BY FieldTypes
<1>8. ASSUME NEW i, First(i, Reached(h, p)) PROVE First(i, ReachedAll(h, p))
  <2>1. i \in Reached(h, p) /\ i \in Nat /\ i <= h.max
    BY <1>6, <1>8 DEF First
  <2>2. ASSUME NEW v \in ReachedAll(h, p) PROVE i <= v
    <3>1. CASE v <= h.max
      BY <1>5, <1>8, <3>1 DEF First
    <3>2. CASE ~(v <= h.max)
      BY <1>5, <1>7, <2>1, <3>2
    <3>3. QED
      BY <3>1, <3>2
  <2>3. QED
    BY <1>6, <2>1, <2>2 DEF First
<1>9. ASSUME NEW i, First(i, ReachedAll(h, p)) PROVE First(i, Reached(h, p))
  <2>1. i \in ReachedAll(h, p) /\ i <= h.max
    BY <1>1, <1>6, <1>9 DEF First
  <2>2. i \in Reached(h, p)
    BY <1>5, <2>1
  <2>3. QED
    BY <1>6, <1>9, <2>2 DEF First
<1>10. QED
  BY <1>1, <1>4, <1>8, <1>9

-----------------------------------------------------------------------------
\* The mean and the deviations from it.

\* The terms of the sums.
Weighted(h) == [i \in Window(h) |-> i * h.data[i]]
Spread(h)   == [i \in Window(h) |-> h.data[i] * Deviation2(h, i)]

LEMMA SumsOfTerms ==
  ASSUME NEW h
  PROVE  /\ Sum(h) = SumOf(Weighted(h), Window(h))
         /\ Variance2(h) = SumOf(Spread(h), Window(h))
<1> DEFINE W == Window(h)
           Mean(g) == g = [s \in SUBSET W |->
                        IF s = {} THEN 0
                        ELSE Chosen(s) * h.data[Chosen(s)] + g[s \ {Chosen(s)}]]
           Var(g)  == g = [s \in SUBSET W |->
                        IF s = {} THEN 0
                        ELSE h.data[Chosen(s)] * Deviation2(h, Chosen(s)) + g[s \ {Chosen(s)}]]
<1> HIDE DEF W
<1>1. ASSUME NEW s \in SUBSET W, s # {}
      PROVE  /\ Weighted(h)[Chosen(s)] = Chosen(s) * h.data[Chosen(s)]
             /\ Spread(h)[Chosen(s)] = h.data[Chosen(s)] * Deviation2(h, Chosen(s))
  BY <1>1, ChosenIn DEF Weighted, Spread, W
<1>2. \A g : Mean(g) <=> Tabulates(g, Weighted(h), W)
  <2>1. \A g : [s \in SUBSET W |->
                  IF s = {} THEN 0
                  ELSE Chosen(s) * h.data[Chosen(s)] + g[s \ {Chosen(s)}]]
             = [s \in SUBSET W |->
                  IF s = {} THEN 0
                  ELSE Weighted(h)[Chosen(s)] + g[s \ {Chosen(s)}]]
    BY <1>1
  <2>2. QED
    BY <2>1 DEF Tabulates
<1>3. \A g : Var(g) <=> Tabulates(g, Spread(h), W)
  <2>1. \A g : [s \in SUBSET W |->
                  IF s = {} THEN 0
                  ELSE h.data[Chosen(s)] * Deviation2(h, Chosen(s)) + g[s \ {Chosen(s)}]]
             = [s \in SUBSET W |->
                  IF s = {} THEN 0
                  ELSE Spread(h)[Chosen(s)] + g[s \ {Chosen(s)}]]
    BY <1>1
  <2>2. QED
    BY <2>1 DEF Tabulates
<1>4. /\ (CHOOSE g : Mean(g)) = CHOOSE g : Tabulates(g, Weighted(h), W)
      /\ (CHOOSE g : Var(g)) = CHOOSE g : Tabulates(g, Spread(h), W)
  <2> HIDE DEF Mean, Var
  <2>1. QED
    BY <1>2, <1>3
<1>5. /\ Sum(h) = (CHOOSE g : Mean(g))[W]
      /\ Variance2(h) = (CHOOSE g : Var(g))[W]
  BY DEF Sum, Variance2, MapThenSumSet, MapThenFoldSet, Chosen, W
<1>6. \A f : SumOf(f, W) = (CHOOSE g : Tabulates(g, f, W))[W]
  BY DEF SumOf, MapThenSumSet, MapThenFoldSet, Chosen, Tabulates
<1>7. QED
  BY <1>4, <1>5, <1>6 DEF W

LEMMA MeanInWindow ==
  ASSUME NEW h \in Histograms, Counted(h), Bounded(h)
  PROVE  /\ Sum(h) \in Int
         /\ h.min * h.count <= Sum(h) /\ Sum(h) <= h.max * h.count
<1> DEFINE W    == Window(h)
           low  == [i \in W |-> h.min * h.data[i]]
           high == [i \in W |-> h.max * h.data[i]]
<1>1. ASSUME NEW i \in W PROVE i \in Nat /\ h.min <= i /\ i <= h.max /\ h.data[i] \in Nat
  BY WindowFacts, FieldTypes
<1>2. IsFiniteSet(W) /\ SumOf(h.data, W) = h.count
  BY WindowFacts
<1>3. h.min \in Nat /\ h.max \in Nat
  BY FieldTypes
<1>4. ASSUME NEW i \in W
      PROVE  /\ low[i] \in Int /\ high[i] \in Int /\ Weighted(h)[i] \in Int
             /\ low[i] <= Weighted(h)[i] /\ Weighted(h)[i] <= high[i]
  <2>1. low[i] = h.min * h.data[i] /\ high[i] = h.max * h.data[i]
    OBVIOUS
  <2>2. Weighted(h)[i] = i * h.data[i]
    BY DEF Weighted
  <2>3. ASSUME NEW a \in Nat, NEW b \in Nat, NEW c \in Nat, NEW d \in Nat, a <= b, b <= c
        PROVE  a * d <= b * d /\ b * d <= c * d
    BY <2>3
  <2>4. QED
    BY <1>1, <1>3, <2>1, <2>2, <2>3
<1>5. SumOf(low, W) = h.min * h.count /\ SumOf(high, W) = h.max * h.count
  <2>1. /\ \A i \in W : h.data[i] \in Int /\ low[i] = h.min * h.data[i]
        /\ \A i \in W : h.data[i] \in Int /\ high[i] = h.max * h.data[i]
    BY <1>1
  <2>2. h.min \in Int /\ h.max \in Int
    BY <1>3
  <2> HIDE DEF W, low, high
  <2>3. QED
    BY <1>2, <2>1, <2>2, SumScale
<1> HIDE DEF W, low, high
<1>6. /\ SumOf(low, W) <= SumOf(Weighted(h), W)
      /\ SumOf(Weighted(h), W) <= SumOf(high, W)
  BY <1>2, <1>4, SumMonotone
<1>7. SumOf(Weighted(h), W) \in Int
  BY <1>2, <1>4, SumType
<1>8. QED
  BY <1>5, <1>6, <1>7, SumsOfTerms DEF W

LEMMA DeviationTypes ==
  ASSUME NEW h \in Histograms, Counted(h), Bounded(h)
  PROVE  /\ \A i \in Window(h) : Deviation2(h, i) \in Nat /\ Spread(h)[i] \in Nat
         /\ Variance2(h) \in Nat
<1>1. ASSUME NEW i \in Window(h) PROVE Deviation2(h, i) \in Nat
  <2> DEFINE x == h.count * i - Sum(h)
  <2>1. x \in Int
    BY MeanInWindow, WindowFacts, FieldTypes
  <2>2. Deviation2(h, i) = x * x
    BY DEF Deviation2
  <2> HIDE DEF x
  <2>3. x * x \in Int /\ x * x >= 0
    BY <2>1
  <2>4. QED
    BY <2>2, <2>3
<1>2. ASSUME NEW i \in Window(h) PROVE Spread(h)[i] \in Nat
  <2>1. h.data[i] \in Nat
    BY WindowFacts, FieldTypes
  <2>2. Spread(h)[i] = h.data[i] * Deviation2(h, i)
    BY DEF Spread
  <2>3. QED
    BY <1>1, <2>1, <2>2
<1>3. Variance2(h) \in Nat
  BY <1>2, WindowFacts, SumType, SumsOfTerms
<1>4. QED
  BY <1>1, <1>2, <1>3

\* Were all samples further than a deviation from the mean, the sum of the
\* squares would be larger than it is.
LEMMA SomeWithinStdev ==
  ASSUME NEW h \in Histograms, Counted(h), Bounded(h), h.count > 0
  PROVE  WithinStdev(h) \in 1 .. h.count
<1> DEFINE W == Window(h)
           V == Variance2(h)
           n == h.count
           B == { i \in W : Deviation2(h, i) * (n - 1) <= V }
           f == [i \in W |-> (V + 1) * h.data[i]]
           g == [i \in W |-> (n - 1) * Spread(h)[i]]
<1>1. IsFiniteSet(W) /\ SumOf(h.data, W) = n /\ \A i \in W : h.data[i] \in Nat
  BY WindowFacts, FieldTypes
<1>2. WithinStdev(h) = SumOf(h.data, B)
  BY SamplesAreSum DEF WithinStdev
<1>3. n \in Nat /\ n > 0 /\ V \in Nat
  BY DeviationTypes, FieldTypes
<1>4. /\ SumOf(h.data, B) \in Nat
      /\ SumOf(h.data, B) <= n
      /\ \A i \in B : h.data[i] <= SumOf(h.data, B)
  <2>1. B \in SUBSET W
    OBVIOUS
  <2> HIDE DEF W, B
  <2>2. QED
    BY <1>1, <2>1, SumPart
<1> SUFFICES ASSUME SumOf(h.data, B) = 0 PROVE FALSE
  BY <1>2, <1>3, <1>4
<1>5. ASSUME NEW i \in W
      PROVE  f[i] \in Int /\ g[i] \in Int /\ f[i] <= g[i]
  <2> DEFINE a == h.data[i]
             b == Deviation2(h, i)
  <2>1. f[i] = (V + 1) * a /\ g[i] = (n - 1) * (a * b)
    BY DEF Spread
  <2>2. a \in Nat /\ b \in Nat
    BY <1>1, DeviationTypes
  <2>3. a = 0 \/ V + 1 <= b * (n - 1)
    <3>1. i \in B => a = 0
      BY <1>4, <2>2
    <3>2. i \notin B => ~(b * (n - 1) <= V)
      OBVIOUS
    <3> HIDE DEF a, b, B, V, n
    <3>3. QED
      BY <1>3, <2>2, <3>1, <3>2
  <2> HIDE DEF a, b, V, n, f, g
  <2>4. CASE a = 0
    BY <1>3, <2>1, <2>2, <2>4
  <2>5. CASE V + 1 <= b * (n - 1)
    <3> DEFINE q == b * (n - 1)
    <3>1. q \in Int /\ (n - 1) * (a * b) = q * a
      BY <1>3, <2>2
    <3>2. V + 1 <= q
      BY <2>5
    <3> HIDE DEF q
    <3>3. (V + 1) * a <= q * a
      BY <1>3, <2>2, <3>1, <3>2
    <3>4. QED
      BY <1>3, <2>1, <2>2, <3>1, <3>3
  <2>6. QED
    BY <2>3, <2>4, <2>5
<1>6. SumOf(f, W) = (V + 1) * n
  <2>1. \A i \in W : h.data[i] \in Int /\ f[i] = (V + 1) * h.data[i]
    BY <1>1
  <2>2. V + 1 \in Int
    BY <1>3
  <2> HIDE DEF f, W, V
  <2>3. QED
    BY <1>1, <2>1, <2>2, SumScale
<1>7. SumOf(g, W) = (n - 1) * V
  <2>1. \A i \in W : Spread(h)[i] \in Int /\ g[i] = (n - 1) * Spread(h)[i]
    BY DeviationTypes
  <2>2. n - 1 \in Int
    BY <1>3
  <2>3. V = SumOf(Spread(h), W)
    BY SumsOfTerms
  <2> HIDE DEF g, W, V
  <2>4. QED
    BY <1>1, <2>1, <2>2, <2>3, SumScale
<1> HIDE DEF f, g, W, V, n
<1>8. SumOf(f, W) <= SumOf(g, W)
  BY <1>1, <1>5, SumMonotone
<1>9. (V + 1) * n <= (n - 1) * V
  BY <1>6, <1>7, <1>8
<1>10. QED
  BY <1>3, <1>9

LEMMA PercentileFacts ==
  ASSUME NEW h \in Histograms, Counted(h), Bounded(h), h.count > 0, NEW p \in 0 .. 99
  PROVE  /\ First(Percentile(h, p), Reached(h, p))
         /\ Percentile(h, p) \in Window(h)
         /\ Percentile(h, p) = NearestRank(h, p)
         /\ \A q \in 0 .. p : Percentile(h, q) <= Percentile(h, p)
<1>1. ASSUME NEW q \in 0 .. p
      PROVE  /\ First(Percentile(h, q), Reached(h, q))
             /\ Percentile(h, q) = CHOOSE i : First(i, Reached(h, q))
  <2>1. q \in 0 .. 99
    OBVIOUS
  <2>2. Reached(h, q) # {} /\ \E i : First(i, Reached(h, q))
    BY <2>1, ReachedFacts
  <2>3. Percentile(h, q) = CHOOSE i : First(i, Reached(h, q))
    BY <2>2 DEF Percentile, Reached, First
  <2>4. QED
    BY <2>2, <2>3
<1>2. p \in 0 .. p
  OBVIOUS
<1>3. Percentile(h, p) = NearestRank(h, p)
  <2>1. ReachedAll(h, p) # {}
    BY <1>1, <1>2, ReachedFacts DEF First
  <2>2. NearestRank(h, p) = CHOOSE i : First(i, ReachedAll(h, p))
    BY <2>1, FieldTypes DEF NearestRank, ReachedAll, First
  <2>3. (CHOOSE i : First(i, Reached(h, p))) = CHOOSE i : First(i, ReachedAll(h, p))
    BY ReachedFacts
  <2>4. QED
    BY <1>1, <1>2, <2>2, <2>3
<1>4. ASSUME NEW q \in 0 .. p PROVE Percentile(h, q) <= Percentile(h, p)
  <2>1. Rank(h, q) <= Rank(h, p) /\ Rank(h, q) \in Int /\ Rank(h, p) \in Int
    <3>1. q \in 0 .. 99
      OBVIOUS
    <3>2. Rank(h, q) \in 1 .. h.count /\ Rank(h, p) \in 1 .. h.count
      BY <3>1, RankFacts
    <3>3. Rank(h, q) <= Rank(h, p)
      BY RankFacts
    <3>4. QED
      BY <3>2, <3>3, FieldTypes
  <2>2. ASSUME NEW i \in Reached(h, p) PROVE i \in Reached(h, q)
    <3>1. i \in Buckets /\ i \in Window(h) /\ Samples(h, h.min .. i) >= Rank(h, p)
      BY WindowFacts DEF Reached
    <3>2. Samples(h, h.min .. i) \in Nat
      BY <3>1, SamplesUpTo
    <3>3. Samples(h, h.min .. i) >= Rank(h, q)
      BY <2>1, <3>1, <3>2
    <3>4. QED
      BY <3>1, <3>3 DEF Reached
  <2>3. QED
    BY <1>1, <1>2, <2>2 DEF First
<1>5. Percentile(h, p) \in Window(h)
  BY <1>1, <1>2 DEF First, Reached
<1>6. QED
  BY <1>1, <1>2, <1>3, <1>4, <1>5

\* What the report says of such a histogram.
LEMMA FiguresFit ==
  ASSUME latency \in Histograms, Counted(latency), Bounded(latency)
  PROVE  WindowHoldsAll /\ PercentilesAreNearestRank /\ ReportAddsUp
<1> DEFINE h == latency
<1>1. WindowHoldsAll
  <2>1. DOMAIN h.data \cap Window(h) = Window(h)
    BY WindowFacts, FieldTypes
  <2>2. QED
    BY <2>1, WindowFacts, SamplesAreSum DEF WindowHoldsAll
<1>2. PercentilesAreNearestRank
  <2> SUFFICES ASSUME NEW p \in ReportedPercentiles
               PROVE  Percentile(h, p) = NearestRank(h, p)
    BY DEF PercentilesAreNearestRank
  <2>1. p \in 0 .. 99
    BY DEF ReportedPercentiles
  <2>2. CASE h.count = 0
    BY <2>2 DEF Percentile, NearestRank
  <2>3. CASE h.count > 0
    BY <2>1, <2>3, PercentileFacts
  <2>4. QED
    BY <2>2, <2>3, FieldTypes
<1>3. ReportAddsUp
  <2> SUFFICES ASSUME h.count > 0 PROVE ReportAddsUp
    BY DEF ReportAddsUp
  <2>1. /\ 50 \in 0 .. 99 /\ 75 \in 0 .. 99 /\ 90 \in 0 .. 99 /\ 99 \in 0 .. 99
        /\ 50 \in 0 .. 75 /\ 75 \in 0 .. 90 /\ 90 \in 0 .. 99
    OBVIOUS
  <2>2. /\ Percentile(h, 50) \in Window(h) /\ Percentile(h, 75) \in Window(h)
        /\ Percentile(h, 90) \in Window(h) /\ Percentile(h, 99) \in Window(h)
        /\ Percentile(h, 50) <= Percentile(h, 75)
        /\ Percentile(h, 75) <= Percentile(h, 90)
        /\ Percentile(h, 90) <= Percentile(h, 99)
    BY <2>1, PercentileFacts
  <2>3. /\ h.min <= Percentile(h, 50)
        /\ Percentile(h, 99) <= h.max
    BY <2>2, WindowFacts
  <2> DEFINE shown == << h.min, Percentile(h, 50), Percentile(h, 75),
                         Percentile(h, 90), Percentile(h, 99), h.max >>
  <2>4. ASSUME NEW i \in 2 .. Len(shown) PROVE shown[i - 1] <= shown[i]
    <3>1. i \in {2, 3, 4, 5, 6}
      OBVIOUS
    <3>2. QED
      BY <2>2, <2>3, <3>1
  <2>5. Sum(h) \in h.min * h.count .. h.max * h.count
    <3>1. h.min * h.count \in Int /\ h.max * h.count \in Int
      BY FieldTypes
    <3>2. QED
      BY <3>1, MeanInWindow
  <2>6. WithinStdev(h) \in 1 .. h.count
    BY SomeWithinStdev
  <2>7. QED
    BY <2>4, <2>5, <2>6 DEF ReportAddsUp
<1>4. QED
  BY <1>1, <1>2, <1>3

-----------------------------------------------------------------------------
\* The run.  No answered request took less than the fastest sample; a late one
\* took longer than any.
Fastest(h) == IF h.min <= Timeout + 1 THEN h.min ELSE Timeout + 1

\* Served[k] requests of slot k were answered, one after the other, in the time
\* clock[k]; each sample n was one of them.
TimeAddsUp(served, h, times) ==
  /\ \A k \in Slots : served[k] * Fastest(h) <= times[k]
  /\ \A n \in Buckets : h.data[n] > 0 =>
       \E k \in Slots : /\ served[k] >= 1
                        /\ (served[k] - 1) * Fastest(h) + n <= times[k]

Typed ==
  /\ phase \in {"running", "joined", "corrected"}
  /\ clock \in [Slots -> 0 .. Runtime + SpawnTime]
  /\ answered \in 0 .. MaxAnswered
  /\ complete \in 0 .. answered
  /\ latency \in Histograms
  /\ Counted(latency)

InWindow == phase # "corrected" => Bounded(latency)

Timed ==
  phase # "corrected" =>
    \E served \in [Slots -> Nat] :
      SumOf(served, Slots) = answered /\ TimeAddsUp(served, latency, clock)

IInv == Typed /\ InWindow /\ Timed

LEMMA SlotFacts ==
  /\ IsFiniteSet(Slots) /\ Slots \subseteq Nat
  /\ Timeout \in Nat /\ Runtime \in Nat /\ SpawnTime \in Nat /\ MaxAnswered \in Nat
  /\ Connections \in Nat /\ Connections > 0
<1>1. Connections \in Nat /\ Connections > 0 /\ Streams \in Nat
  BY ConnectionsAssumption, StreamsAssumption
<1>2. Connections * Streams \in Int
  BY <1>1
<1>3. QED
  BY <1>1, <1>2, TimesAssumption, BucketsFinite DEF Slots

LEMMA FastestType ==
  ASSUME NEW h \in Histograms
  PROVE  Fastest(h) \in 0 .. Timeout + 1
BY FieldTypes DEF Fastest

LEMMA Slower ==
  ASSUME NEW a \in Nat, NEW f \in Nat, NEW g \in Nat, g <= f
  PROVE  a * g \in Nat /\ a * f \in Nat /\ a * g <= a * f
OBVIOUS

LEMMA InitInvariant == Init => IInv
<1> SUFFICES ASSUME Init PROVE IInv
  OBVIOUS
<1> USE DEF Init
<1>1. latency \in Histograms /\ Counted(latency) /\ Bounded(latency)
  BY AllocFacts
<1>2. Typed
  BY <1>1, SlotFacts DEF Typed
<1>3. Timed
  <2> DEFINE none == [k \in Slots |-> 0]
  <2>1. SumOf(none, Slots) = 0
    BY SlotFacts, SumZero
  <2>2. TimeAddsUp(none, latency, clock)
    <3>1. \A n \in Buckets : latency.data[n] = 0
      BY SlotFacts DEF Alloc, Buckets
    <3>2. Fastest(latency) \in Int
      BY <1>1, FastestType
    <3>3. \A k \in Slots : none[k] * Fastest(latency) <= clock[k]
      BY <3>2
    <3>4. QED
      BY <3>1, <3>3 DEF TimeAddsUp
  <2>3. none \in [Slots -> Nat]
    OBVIOUS
  <2> HIDE DEF none
  <2>4. QED
    BY <2>1, <2>2, <2>3 DEF Timed
<1>4. QED
  BY <1>1, <1>2, <1>3 DEF IInv, InWindow

LEMMA AnswerFastest ==
  ASSUME latency \in Histograms, Counted(latency), Bounded(latency),
         NEW k \in Slots, NEW l \in 0 .. Timeout + 1, Answer(k, l)
  PROVE  /\ latency' \in Histograms /\ Counted(latency') /\ Bounded(latency')
         /\ Fastest(latency') <= Fastest(latency)
         /\ Fastest(latency') <= l
         /\ \A n \in Buckets : latency'.data[n] > 0 => latency.data[n] > 0 \/ n = l
<1>1. CASE l > Timeout
  BY <1>1, FieldTypes DEF Answer, Fastest, Counted, Bounded
<1>2. CASE ~(l > Timeout)
  <2>1. l \in Buckets /\ l \in Nat /\ latency' = Recorded(latency, l)
    BY <1>2, FieldTypes DEF Answer, Buckets
  <2> DEFINE r == Recorded(latency, l)
  <2>2. /\ r \in Histograms /\ Counted(r) /\ Bounded(r)
        /\ r.data = [latency.data EXCEPT ![l] = @ + 1]
        /\ r.min = IF l < latency.min THEN l ELSE latency.min
    BY <2>1, RecordedFacts
  <2> HIDE DEF r
  <2>3. Fastest(r) <= Fastest(latency) /\ Fastest(r) <= l
    BY <2>1, <2>2, FieldTypes DEF Fastest
  <2>4. \A n \in Buckets : r.data[n] > 0 => latency.data[n] > 0 \/ n = l
    BY <2>2, FieldTypes
  <2>5. latency' = r
    BY <2>1 DEF r
  <2>6. QED
    BY <2>2, <2>3, <2>4, <2>5 DEF Counted, Bounded, Histograms
<1>3. QED
  BY <1>1, <1>2

LEMMA AnswerTimed ==
  ASSUME IInv, NEW k \in Slots, NEW l \in 0 .. Timeout + 1, Answer(k, l)
  PROVE  Timed'
<1>1. /\ latency \in Histograms /\ Counted(latency) /\ Bounded(latency)
      /\ clock \in [Slots -> Int] /\ l \in Nat
  BY DEF IInv, Typed, InWindow, Answer
<1>2. PICK served \in [Slots -> Nat] :
        SumOf(served, Slots) = answered /\ TimeAddsUp(served, latency, clock)
  BY DEF IInv, Timed, Answer
<1> DEFINE more == [served EXCEPT ![k] = @ + 1]
           f == Fastest(latency)
           g == Fastest(latency')
           d == latency'.data
<1>3. /\ f \in Nat /\ g \in Nat /\ g <= f /\ g <= l
      /\ \A n \in Buckets : d[n] > 0 => latency.data[n] > 0 \/ n = l
  BY <1>1, AnswerFastest, FastestType
<1>4. /\ more \in [Slots -> Nat] /\ more[k] = served[k] + 1
      /\ \A x \in Slots \ {k} : more[x] = served[x]
  BY <1>2
<1>5. SumOf(more, Slots) = answered + 1
  <2>1. IsFiniteSet(Slots)
    BY SlotFacts
  <2>2. QED
    BY <1>2, <2>1, SumOneMore
<1>6. clock' = [clock EXCEPT ![k] = @ + l]
  BY DEF Answer
<1>7. /\ clock'[k] = clock[k] + l /\ clock[k] \in Int
      /\ \A x \in Slots \ {k} : clock'[x] = clock[x]
      /\ \A x \in Slots : clock[x] \in Int /\ clock[x] <= clock'[x]
  BY <1>1, <1>6
<1> HIDE DEF more, f, g, d
<1>8. ASSUME NEW x \in Slots PROVE more[x] * g <= clock'[x]
  <2>1. served[x] \in Nat /\ served[x] * f <= clock[x]
    BY <1>2 DEF TimeAddsUp, f
  <2>2. served[x] * g \in Nat /\ served[x] * f \in Nat /\ served[x] * g <= served[x] * f
    BY <1>3, <2>1, Slower
  <2>3. CASE x = k
    <3>1. (served[k] + 1) * g = served[k] * g + g
      BY <1>3, <2>1, <2>3
    <3>2. QED
      BY <1>1, <1>3, <1>4, <1>7, <2>1, <2>2, <2>3, <3>1
  <2>4. CASE x # k
    BY <1>4, <1>7, <2>1, <2>2, <2>4
  <2>5. QED
    BY <2>3, <2>4
<1>9. ASSUME NEW n \in Buckets, d[n] > 0
      PROVE  \E x \in Slots : more[x] >= 1 /\ (more[x] - 1) * g + n <= clock'[x]
  <2>1. n \in Nat
    BY <1>1, FieldTypes
  <2>2. CASE n = l
    <3>1. served[k] \in Nat /\ served[k] * f <= clock[k]
      BY <1>2 DEF TimeAddsUp, f
    <3>2. served[k] * g \in Nat /\ served[k] * f \in Nat /\ served[k] * g <= served[k] * f
      BY <1>3, <3>1, Slower
    <3>3. more[k] >= 1 /\ more[k] - 1 = served[k]
      BY <1>4, <3>1
    <3>4. served[k] * g + n <= clock'[k]
      BY <1>7, <2>1, <2>2, <3>1, <3>2
    <3>5. QED
      BY <3>3, <3>4
  <2>3. CASE latency.data[n] > 0
    <3>1. PICK x \in Slots : served[x] >= 1 /\ (served[x] - 1) * f + n <= clock[x]
      BY <1>2, <2>3 DEF TimeAddsUp, f
    <3> DEFINE a == served[x] - 1
    <3>2. a \in Nat /\ served[x] = a + 1
      BY <1>2, <3>1
    <3> HIDE DEF a
    <3>3. a * f + n <= clock[x]
      BY <1>2, <3>1, <3>2 DEF a
    <3>4. a * g \in Nat /\ a * f \in Nat /\ a * g <= a * f
      BY <1>3, <3>2, Slower
    <3>5. CASE x = k
      <4>1. more[k] >= 1 /\ more[k] - 1 = a + 1
        BY <1>4, <3>2, <3>5
      <4>2. (a + 1) * g = a * g + g
        BY <1>3, <3>2
      <4>3. (a + 1) * g + n <= clock'[k]
        BY <1>1, <1>3, <1>7, <2>1, <3>3, <3>4, <3>5, <4>2
      <4>4. QED
        BY <4>1, <4>3
    <3>6. CASE x # k
      <4>1. more[x] >= 1 /\ more[x] - 1 = a
        BY <1>4, <3>2, <3>6
      <4>2. a * g + n <= clock'[x]
        BY <1>7, <2>1, <3>3, <3>4, <3>6
      <4>3. QED
        BY <4>1, <4>2
    <3>7. QED
      BY <3>5, <3>6
  <2>4. QED
    BY <1>3, <1>9, <2>2, <2>3
<1>10. TimeAddsUp(more, latency', clock')
  BY <1>8, <1>9 DEF TimeAddsUp, g, d
<1>11. answered' = answered + 1
  BY DEF Answer
<1>12. QED
  BY <1>4, <1>5, <1>10, <1>11 DEF Timed

LEMMA IntervalType ==
  ASSUME NEW n \in Nat
  PROVE  Interval(n) \in Nat
<1> DEFINE p == n \div Connections
<1>1. p \in Nat /\ Runtime \in Nat
  BY SlotFacts
<1> HIDE DEF p
<1>2. p # 0 => Runtime \div p \in Nat
  BY <1>1
<1>3. QED
  BY <1>2 DEF Interval, p

LEMMA NextInvariant == IInv /\ [Next]_vars => IInv'
<1> SUFFICES ASSUME IInv, [Next]_vars PROVE IInv'
  OBVIOUS
<1> USE DEF IInv
<1>1. ASSUME NEW k \in Slots, NEW l \in 0 .. Timeout + 1, Answer(k, l) PROVE IInv'
  <2>1. latency \in Histograms /\ Counted(latency) /\ Bounded(latency)
    BY <1>1 DEF Typed, InWindow, Answer
  <2>2. latency' \in Histograms /\ Counted(latency') /\ Bounded(latency')
    BY <1>1, <2>1, AnswerFastest
  <2>3. clock' \in [Slots -> 0 .. Runtime + SpawnTime]
    BY <1>1, SlotFacts DEF Typed, Answer
  <2>4. answered' \in 0 .. MaxAnswered /\ complete' \in 0 .. answered'
    BY <1>1, SlotFacts DEF Typed, Answer
  <2>5. Typed'
    BY <1>1, <2>2, <2>3, <2>4 DEF Typed, Answer
  <2>6. Timed'
    BY <1>1, AnswerTimed
  <2>7. QED
    BY <2>2, <2>5, <2>6 DEF InWindow
<1>2. CASE Join
  <2>1. Typed'
    BY <1>2 DEF Join, Typed
  <2>2. QED
    BY <1>2, <2>1 DEF Join, InWindow, Timed
<1>3. CASE Correct
  <2>1. latency \in Histograms /\ Counted(latency) /\ Bounded(latency) /\ complete \in Nat
    BY <1>3 DEF Correct, Typed, InWindow
  <2>2. latency' \in Histograms /\ Counted(latency')
    BY <1>3, <2>1, IntervalType, CorrectedFacts DEF Correct
  <2>3. Typed'
    BY <1>3, <2>2 DEF Correct, Typed
  <2>4. QED
    BY <1>3, <2>3 DEF Correct, InWindow, Timed
<1>4. CASE UNCHANGED vars
  BY <1>4 DEF vars, Typed, InWindow, Timed
<1>5. CASE Reported
  BY <1>4, <1>5 DEF Reported
<1>6. QED
  BY <1>1, <1>2, <1>3, <1>4, <1>5 DEF Next

\* The invariant holds of every run: types, the window until the correction,
\* and that the answers fit into the time of the slots that gave them.
THEOREM Invariance == Spec => []IInv
<1>1. Init => IInv
  BY InitInvariant
<1>2. IInv /\ [Next]_vars => IInv'
  BY NextInvariant
<1>3. QED
  BY <1>1, <1>2, PTL DEF Spec

\* The variables keep to their types: no response is counted that was not
\* read, and no correction leaves the buckets.
THEOREM TypeCorrect == Spec => []TypeOK
<1>1. IInv => TypeOK
  BY FieldTypes DEF IInv, Typed, TypeOK, Buckets
<1>2. QED
  BY <1>1, Invariance, PTL

\* CorrectionIsSinglePass: the in-place loop of Stats::correct, over buckets
\* that it changes itself, adds what one pass over the samples would add.
THEOREM CorrectionAddsSinglePass == Spec => CorrectionIsSinglePass
<1>1. ASSUME IInv, [Next]_vars
      PROVE  [phase = "joined" => latency'.data = WithOmitted(latency, Interval(complete))]_vars
  <2> SUFFICES ASSUME Next, phase = "joined", vars' # vars
               PROVE  latency'.data = WithOmitted(latency, Interval(complete))
    BY <1>1
  <2>1. Correct
    BY DEF Next, Answer, Join, Reported
  <2>2. latency \in Histograms /\ Counted(latency) /\ Bounded(latency) /\ complete \in Nat
    BY <1>1 DEF IInv, Typed, InWindow
  <2>3. QED
    BY <2>1, <2>2, IntervalType, CorrectedFacts DEF Correct
<1>2. QED
  BY <1>1, Invariance, PTL DEF Spec, CorrectionIsSinglePass

-----------------------------------------------------------------------------
\* When the correction keeps to the window.  A slot that is answered p times
\* needs p times the fastest latency, and main takes the runtime over p as the
\* interval: a sample that stands for one faster than all it measured needs
\* more time than there was, unless the head start before wall_start made up
\* for it.
OneRequestEach == Streams = 1
ShortHeadStart == (SpawnTime + 1) * (SpawnTime + 1) < 4 * (Runtime + 1)

\* Some slot was answered more often than most.
LEMMA BusySlot ==
  ASSUME OneRequestEach, NEW served \in [Slots -> Nat], NEW p \in Nat,
         p * Connections <= SumOf(served, Slots),
         NEW k \in Slots, served[k] < p
  PROVE  \E x \in Slots : served[x] >= p + 1
<1> SUFFICES ASSUME \A x \in Slots : served[x] <= p PROVE FALSE
  <2>1. \A x \in Slots : served[x] \in Nat
    OBVIOUS
  <2>2. QED
    BY <2>1
<1> DEFINE full == [x \in Slots |-> p]
           less == [full EXCEPT ![k] = served[k]]
<1>1. IsFiniteSet(Slots) /\ Slots = 1 .. Connections /\ Cardinality(Slots) = Connections
  <2>1. Slots = 1 .. Connections /\ Connections \in Nat
    BY SlotFacts DEF Slots, OneRequestEach
  <2>2. Cardinality(1 .. Connections) = Connections
    BY <2>1, FS_Interval
  <2>3. QED
    BY <2>1, <2>2, SlotFacts
<1>2. \A x \in Slots : full[x] = p /\ full[x] \in Int /\ less[x] \in Int /\ served[x] \in Int
  OBVIOUS
<1>3. \A x \in Slots : served[x] <= less[x]
  OBVIOUS
<1>4. less[k] = served[k] /\ full[k] = p /\ \A x \in Slots \ {k} : less[x] = full[x]
  OBVIOUS
<1>5. served[k] \in Nat
  OBVIOUS
<1>6. IsFiniteSet(Slots) /\ p \in Int
  BY <1>1
<1> HIDE DEF full, less
<1>7. SumOf(full, Slots) = p * Cardinality(Slots)
  BY <1>2, <1>6, SumConstant
<1>8. SumOf(less, Slots) = SumOf(full, Slots) - full[k] + less[k]
  BY <1>2, <1>4, <1>6, SumChange
<1>9. SumOf(served, Slots) <= SumOf(less, Slots)
  BY <1>2, <1>3, <1>6, SumMonotone
<1>10. SumOf(served, Slots) \in Int /\ p * Connections \in Int
  <2>1. SumOf(served, Slots) \in Int
    BY <1>2, <1>6, SumType
  <2>2. QED
    BY <2>1, SlotFacts
<1>11. QED
  BY <1>1, <1>4, <1>5, <1>7, <1>8, <1>9, <1>10

\* The arithmetic: p answers of at least e + 2 each, or p - 1 of them and the
\* sample, take longer than the runtime and a short head start.
LEMMA TooLong ==
  ASSUME NEW p \in Nat \ {0}, NEW e \in Nat, NEW r \in Nat, NEW s \in Nat,
         r < p * (e + 1), (s + 1) * (s + 1) < 4 * (r + 1)
  PROVE  r + s < (p - 1) * (e + 2) + 2 * e + 1
<1> SUFFICES ASSUME ~(r + s < (p - 1) * (e + 2) + 2 * e + 1) PROVE FALSE
  OBVIOUS
<1> DEFINE q == p * e
<1>1. q \in Nat /\ p * (e + 1) = q + p /\ (p - 1) * (e + 2) = q + 2 * p - e - 2
  OBVIOUS
<1> HIDE DEF q
<1>2. s >= p + e
  BY <1>1
<1>3. (s + 1) * (s + 1) >= (p + e + 1) * (p + e + 1)
  <2>1. ASSUME NEW a \in Nat, NEW b \in Nat, a <= b PROVE a * a <= b * b
    BY <2>1
  <2>2. p + e + 1 \in Nat /\ s + 1 \in Nat /\ p + e + 1 <= s + 1
    BY <1>2
  <2>3. QED
    BY <2>1, <2>2
<1>4. (p + e + 1) * (p + e + 1) >= 4 * (p * (e + 1))
  OBVIOUS
<1>5. r + 1 <= p * (e + 1) /\ p * (e + 1) \in Int
  BY <1>1
<1> DEFINE x == (s + 1) * (s + 1)
           y == (p + e + 1) * (p + e + 1)
           z == p * (e + 1)
<1>6. x \in Int /\ y \in Int /\ z \in Int
  OBVIOUS
<1> HIDE DEF x, y, z
<1>7. QED
  BY <1>3, <1>4, <1>5, <1>6 DEF x, y, z

LEMMA IntervalFacts ==
  ASSUME NEW n \in Nat, Interval(n) > 0
  PROVE  \E p \in Nat \ {0} : /\ p * Connections <= n
                              /\ Runtime < p * (Interval(n) + 1)
<1> DEFINE p == n \div Connections
           e == Runtime \div p
<1>1. Connections \in Nat \ {0} /\ Runtime \in Nat
  BY SlotFacts
<1>2. p \in Nat /\ p * Connections <= n
  BY <1>1
<1>3. p # 0 /\ Interval(n) = e
  BY DEF Interval
<1> HIDE DEF p
<1>4. Runtime < p * (e + 1)
  BY <1>1, <1>2, <1>3
<1> HIDE DEF e
<1>5. QED
  BY <1>2, <1>3, <1>4

LEMMA NothingBelowFastest ==
  ASSUME IInv, phase = "joined", OneRequestEach, ShortHeadStart,
         NEW n \in Buckets, latency.data[n] > 0, Interval(complete) > 0,
         NEW m \in Omitted(n, Interval(complete))
  PROVE  latency.min <= m
<1> SUFFICES ASSUME m < latency.min PROVE FALSE
  <2>1. m \in Int /\ latency.min \in Int
    BY FieldTypes DEF Omitted, IInv, Typed
  <2>2. QED
    BY <2>1
<1> DEFINE e == Interval(complete)
           f == Fastest(latency)
<1>1. /\ latency \in Histograms /\ Bounded(latency)
      /\ complete \in Nat /\ answered \in Nat /\ complete <= answered
      /\ \A k \in Slots : clock[k] \in Nat /\ clock[k] <= Runtime + SpawnTime
  <2>1. latency \in Histograms /\ Bounded(latency)
    BY DEF IInv, Typed, InWindow
  <2>2. complete \in Nat /\ answered \in Nat /\ complete <= answered
    BY SlotFacts DEF IInv, Typed
  <2>3. clock \in [Slots -> 0 .. Runtime + SpawnTime]
    BY DEF IInv, Typed
  <2>4. \A k \in Slots : clock[k] \in 0 .. Runtime + SpawnTime
    BY <2>3
  <2>5. QED
    BY <2>1, <2>2, <2>4
<1>2. e \in Nat /\ e > 0
  BY <1>1, IntervalType
<1>3. PICK p \in Nat \ {0} : p * Connections <= complete /\ Runtime < p * (e + 1)
  BY <1>1, IntervalFacts
<1>4. Runtime + SpawnTime < (p - 1) * (e + 2) + 2 * e + 1
  BY <1>2, <1>3, SlotFacts, TooLong DEF ShortHeadStart
<1>5. n \in Nat /\ latency.min <= n /\ n <= Timeout
  BY <1>1, FieldTypes DEF Bounded, Buckets
<1> HIDE DEF e
<1>6. m \in Int /\ e + 1 <= m /\ m <= n - e
  BY <1>2, <1>5 DEF Omitted, e
<1>7. f \in Nat /\ f >= e + 2 /\ n >= 2 * e + 1
  BY <1>1, <1>2, <1>5, <1>6, FieldTypes, SlotFacts DEF Fastest
<1>8. PICK served \in [Slots -> Nat] :
        SumOf(served, Slots) = answered /\ TimeAddsUp(served, latency, clock)
  BY DEF IInv, Timed
<1>9. PICK k \in Slots : served[k] >= 1 /\ (served[k] - 1) * f + n <= clock[k]
  BY <1>8 DEF TimeAddsUp
<1> HIDE DEF f
<1>10. ASSUME NEW a \in Nat, NEW b \in Nat, a <= b PROVE a * (e + 2) <= b * f
  <2>1. a * (e + 2) <= b * (e + 2)
    BY <1>2, <1>10
  <2>2. b * (e + 2) <= b * f
    BY <1>2, <1>7
  <2>3. a * (e + 2) \in Int /\ b * (e + 2) \in Int /\ b * f \in Int
    BY <1>2, <1>7
  <2>4. QED
    BY <2>1, <2>2, <2>3
<1>11. CASE served[k] >= p
  <2>1. p - 1 \in Nat /\ served[k] - 1 \in Nat /\ p - 1 <= served[k] - 1
    BY <1>3, <1>8, <1>11
  <2>2. (p - 1) * (e + 2) <= (served[k] - 1) * f
    BY <1>10, <2>1
  <2>3. (p - 1) * (e + 2) \in Int /\ (served[k] - 1) * f \in Int
    BY <1>2, <1>7, <2>1
  <2>4. QED
    BY <1>1, <1>2, <1>4, <1>5, <1>7, <1>9, <2>2, <2>3, SlotFacts
<1>12. CASE served[k] < p
  <2>1. p * Connections <= SumOf(served, Slots)
    BY <1>1, <1>3, <1>8, SlotFacts
  <2>2. PICK x \in Slots : served[x] >= p + 1
    BY <1>3, <1>12, <2>1, BusySlot
  <2>3. served[x] \in Nat /\ served[x] * f <= clock[x]
    BY <1>8 DEF TimeAddsUp, f
  <2>4. (p + 1) * (e + 2) <= served[x] * f
    BY <1>3, <1>10, <2>2, <2>3
  <2>5. (p + 1) * (e + 2) = (p - 1) * (e + 2) + 2 * (e + 2)
    BY <1>2, <1>3
  <2>6. (p - 1) * (e + 2) \in Int /\ served[x] * f \in Int
    BY <1>2, <1>3, <1>7, <2>3
  <2>7. QED
    BY <1>1, <1>2, <1>4, <2>3, <2>4, <2>5, <2>6, SlotFacts
<1>13. QED
  BY <1>3, <1>8, <1>11, <1>12

LEMMA BoundedStep ==
  ASSUME OneRequestEach, ShortHeadStart,
         IInv, Bounded(latency), [Next]_vars
  PROVE  Bounded(latency')
<1>1. IInv'
  BY NextInvariant
<1>2. CASE phase' # "corrected"
  BY <1>1, <1>2 DEF IInv, InWindow, Bounded
<1>3. CASE phase' = "corrected" /\ phase = "joined" /\ Correct
  <2> DEFINE e == Interval(complete)
  <2>1. latency \in Histograms /\ Counted(latency) /\ e \in Nat
    BY IntervalType DEF IInv, Typed
  <2>2. \A n \in Buckets : e > 0 /\ latency.data[n] > 0 =>
          \A m \in Omitted(n, e) : latency.min <= m
    BY <1>3, NothingBelowFastest
  <2> HIDE DEF e
  <2>3. Bounded(Corrected(latency, e))
    BY <2>1, <2>2, CorrectedBounded
  <2>4. QED
    BY <1>3, <2>3 DEF Correct, e
<1>4. CASE latency' = latency
  BY <1>4
<1>5. QED
  BY <1>2, <1>3, <1>4 DEF Next, Answer, Join, Correct, Reported, vars

\* On these terms the correction keeps to the window as well.
THEOREM BoundedInvariance ==
  ASSUME OneRequestEach, ShortHeadStart
  PROVE  Spec => [](IInv /\ Bounded(latency))
<1>1. Init => IInv /\ Bounded(latency)
  BY InitInvariant, AllocFacts DEF Init
<1>2. IInv /\ Bounded(latency) /\ [Next]_vars => (IInv /\ Bounded(latency))'
  <2> SUFFICES ASSUME IInv, Bounded(latency), [Next]_vars
               PROVE  IInv' /\ Bounded(latency')
    BY DEF Bounded
  <2>1. QED
    BY NextInvariant, BoundedStep
<1>3. QED
  BY <1>1, <1>2, PTL DEF Spec

\* WindowHoldsAll: with one request per slot and a head start shorter than
\* twice the square root of the runtime, no sample is outside the window.
THEOREM NoSampleOutside ==
  ASSUME OneRequestEach, ShortHeadStart
  PROVE  Spec => []WindowHoldsAll
<1>1. IInv /\ Bounded(latency) => WindowHoldsAll
  BY FiguresFit DEF IInv, Typed
<1>2. QED
  BY <1>1, BoundedInvariance, PTL

\* PercentilesAreNearestRank, on the same terms.
THEOREM NearestRankPercentiles ==
  ASSUME OneRequestEach, ShortHeadStart
  PROVE  Spec => []PercentilesAreNearestRank
<1>1. IInv /\ Bounded(latency) => PercentilesAreNearestRank
  BY FiguresFit DEF IInv, Typed
<1>2. QED
  BY <1>1, BoundedInvariance, PTL

\* ReportAddsUp, on the same terms.
THEOREM FiguresFitEachOther ==
  ASSUME OneRequestEach, ShortHeadStart
  PROVE  Spec => []ReportAddsUp
<1>1. IInv /\ Bounded(latency) => ReportAddsUp
  BY FiguresFit DEF IInv, Typed
<1>2. QED
  BY <1>1, BoundedInvariance, PTL
=============================================================================
