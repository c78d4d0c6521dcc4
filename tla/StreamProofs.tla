----------------------------- MODULE StreamProofs -----------------------------
(***************************************************************************)
(* Proofs about what is behind the decoded topic, for any topics, configs, *)
(* rules, window and number of setbacks or faults: that StreamJobs writes  *)
(* calibrated values that are on the curve their config describes and      *)
(* alarms that say what is so, and that InfluxWriter loses an event only   *)
(* by a write that raised.                                                 *)
(***************************************************************************)
EXTENDS StreamJobs, InfluxWriter, FiniteSetTheorems, TLAPS

-----------------------------------------------------------------------------
(* Calibration's sorting.  Of a set that is not empty there is a least element, *)
(* and so a fact about all of them needs only a least counterexample.           *)

\* Of the finite sets in a collection, one is least.
LEMMA LeastSet ==
    ASSUME NEW F, F # {}, \A T \in F : IsFiniteSet(T)
    PROVE  \E T \in F : \A U \in F : ~(U \subseteq T /\ U # T)
<1> DEFINE S == UNION F
<1>1. F \subseteq FiniteSubsetsOf(S) /\ IsWellFoundedOn(StrictSubsetOrdering(S), FiniteSubsetsOf(S))
  BY FS_StrictSubsetOrderingWellFounded DEF FiniteSubsetsOf
<1>2. \E T \in F : \A U \in F : <<U, T>> \notin StrictSubsetOrdering(S)
  BY <1>1, WFMin
<1> QED BY <1>2 DEF StrictSubsetOrdering

\* A set of natural numbers has a least one.
LEMMA LeastNumber ==
    ASSUME NEW S, S \subseteq Nat, S # {}
    PROVE  \E n \in S : \A m \in S : n <= m
<1> DEFINE F == {0 .. n : n \in S}
<1>1. \A T \in F : IsFiniteSet(T)
  <2> TAKE T \in F
  <2>1. PICK n \in S : T = 0 .. n
    OBVIOUS
  <2> QED BY <2>1, FS_Interval
<1>2. F # {}
  OBVIOUS
<1>3. \E T \in F : \A U \in F : ~(U \subseteq T /\ U # T)
  <2> HIDE DEF F
  <2> QED BY <1>1, <1>2, LeastSet
<1>4. PICK n \in S : \A U \in F : ~(U \subseteq 0 .. n /\ U # 0 .. n)
  BY <1>3
<1>5. \A m \in S : 0 .. m \in F
  OBVIOUS
<1>6. ASSUME NEW m \in S, m < n PROVE FALSE
  <2>1. 0 .. m \subseteq 0 .. n /\ n \in 0 .. n /\ n \notin 0 .. m
    BY <1>6
  <2> QED BY <2>1, <1>4, <1>5
<1> QED BY <1>6

\* A table's points, in the order they were written.
Table(table) == table \in Seq([raw : Int, cal : Int])

\* Its places are numbers, and its points pairs of numbers.
LEMMA TableFacts ==
    ASSUME NEW table, Table(table)
    PROVE  /\ Len(table) \in Nat /\ DOMAIN table = 1 .. Len(table)
           /\ \A i \in DOMAIN table : /\ i \in Int /\ table[i] \in [raw : Int, cal : Int]
                                     /\ table[i].raw \in Int /\ table[i].cal \in Int
<1> DEFINE Point == [raw : Int, cal : Int]
<1>1. table \in Seq(Point)
  BY DEF Table
<1>2. \A p \in Point : p.raw \in Int /\ p.cal \in Int
  OBVIOUS
<1> HIDE DEF Point
<1>3. Len(table) \in Nat /\ DOMAIN table = 1 .. Len(table)
  BY <1>1
<1>4. ASSUME NEW i \in DOMAIN table PROVE i \in Int /\ table[i] \in Point
  BY <1>1, <1>3
<1> QED BY <1>2, <1>3, <1>4 DEF Point

\* Of two places of a table one goes before the other, and this is an order.
LEMMA GoesBeforeOrders ==
    ASSUME NEW table, Table(table)
    PROVE  /\ \A i \in DOMAIN table : ~ GoesBefore(table, i, i)
           /\ \A i, j \in DOMAIN table : i # j => GoesBefore(table, i, j) \/ GoesBefore(table, j, i)
           /\ \A i, j, k \in DOMAIN table :
                 GoesBefore(table, i, j) /\ GoesBefore(table, j, k) => GoesBefore(table, i, k)
<1>1. \A i \in DOMAIN table : i \in Int /\ table[i].raw \in Int /\ table[i].cal \in Int
  BY TableFacts
<1>2. ASSUME NEW i \in DOMAIN table PROVE ~ GoesBefore(table, i, i)
  BY <1>1 DEF GoesBefore, Before
<1>3. ASSUME NEW i \in DOMAIN table, NEW j \in DOMAIN table, i # j
      PROVE  GoesBefore(table, i, j) \/ GoesBefore(table, j, i)
  BY <1>1, <1>3 DEF GoesBefore, Before
<1>4. ASSUME NEW i \in DOMAIN table, NEW j \in DOMAIN table, NEW k \in DOMAIN table,
             GoesBefore(table, i, j), GoesBefore(table, j, k)
      PROVE  GoesBefore(table, i, k)
  BY <1>1, <1>4 DEF GoesBefore, Before
<1> QED BY <1>2, <1>3, <1>4

\* The ranks are the places of the sorted table, each the rank of one point, and go up
\* with the order.
LEMMA RankFacts ==
    ASSUME NEW table, Table(table)
    PROVE  /\ \A i \in DOMAIN table : Rank(table, i) \in DOMAIN table
           /\ \A i, j \in DOMAIN table : GoesBefore(table, i, j) => Rank(table, i) < Rank(table, j)
           /\ \A k \in DOMAIN table : \E i \in DOMAIN table : Rank(table, i) = k
<1> DEFINE places == DOMAIN table
           ahead(i) == {j \in places : GoesBefore(table, j, i)}
           n == Len(table)
<1>1. n \in Nat /\ places = 1 .. n /\ IsFiniteSet(places) /\ Cardinality(places) = n
  <2>1. n \in Nat /\ places = 1 .. n
    BY TableFacts
  <2>2. IsFiniteSet(1 .. n) /\ Cardinality(1 .. n) = n
    <3> HIDE DEF n
    <3> QED BY <2>1, FS_Interval
  <2> QED BY <2>1, <2>2
<1>2. ASSUME NEW i \in places
      PROVE  /\ IsFiniteSet(ahead(i)) /\ Cardinality(ahead(i)) \in Nat /\ Cardinality(ahead(i)) < n
             /\ Rank(table, i) = Cardinality(ahead(i)) + 1
  <2>1. ahead(i) \in SUBSET places /\ ahead(i) # places
    BY GoesBeforeOrders
  <2>2. IsFiniteSet(ahead(i)) /\ Cardinality(ahead(i)) <= Cardinality(places)
        /\ Cardinality(ahead(i)) # Cardinality(places)
    <3> HIDE DEF ahead
    <3> QED BY <1>1, <2>1, FS_Subset
  <2>3. Cardinality(ahead(i)) \in Nat
    BY <2>2, FS_CardinalityType
  <2>4. Rank(table, i) = Cardinality(ahead(i)) + 1
    BY DEF Rank
  <2> HIDE DEF ahead
  <2> QED BY <1>1, <2>2, <2>3, <2>4
<1>3. \A i \in places : Rank(table, i) \in places
  <2> HIDE DEF ahead, places
  <2> QED BY <1>1, <1>2
<1>4. ASSUME NEW i \in places, NEW j \in places, GoesBefore(table, i, j)
      PROVE  Rank(table, i) < Rank(table, j)
  <2>1. ahead(i) \in SUBSET ahead(j)
    BY <1>4, GoesBeforeOrders
  <2>2. i \in ahead(j) /\ i \notin ahead(i)
    BY <1>4, GoesBeforeOrders
  <2>3. IsFiniteSet(ahead(j)) /\ Cardinality(ahead(i)) \in Nat /\ Cardinality(ahead(j)) \in Nat
        /\ Rank(table, i) = Cardinality(ahead(i)) + 1 /\ Rank(table, j) = Cardinality(ahead(j)) + 1
    BY <1>2
  <2> HIDE DEF ahead
  <2>4. Cardinality(ahead(i)) <= Cardinality(ahead(j)) /\ Cardinality(ahead(i)) # Cardinality(ahead(j))
    BY <2>1, <2>2, <2>3, FS_Subset
  <2> QED BY <2>3, <2>4
<1>5. ASSUME NEW k \in places PROVE \E i \in places : Rank(table, i) = k
  <2> DEFINE f == [i \in places |-> Rank(table, i)]
  <2>1. f \in [places -> places]
    BY <1>3
  <2>2. ASSUME NEW i \in places, NEW j \in places, f[i] = f[j] PROVE i = j
    <3>1. Rank(table, i) = Rank(table, j) /\ Rank(table, i) \in Int
      BY <2>2, <1>1, <1>3
    <3>2. ~ (Rank(table, i) < Rank(table, i))
      BY <3>1
    <3> QED BY <3>1, <3>2, <1>4, GoesBeforeOrders
  <2>3. f \in Injection(places, places)
    BY <2>1, <2>2 DEF Injection, IsInjective
  <2>4. f \in Surjection(places, places)
    <3> HIDE DEF f, places
    <3> QED BY <1>1, <2>3, FS_Injection
  <2>5. PICK i \in places : f[i] = k
    BY <2>4 DEF Surjection
  <2> QED BY <2>5
<1> QED BY <1>3, <1>4, <1>5

\* The sorted table has the points of the table, in the order of their raw values.
LEMMA SortedFacts ==
    ASSUME NEW table, Table(table)
    PROVE  /\ Table(Sorted(table)) /\ Len(Sorted(table)) = Len(table)
           /\ {Sorted(table)[k] : k \in DOMAIN Sorted(table)} = {table[i] : i \in DOMAIN table}
           /\ \A k, l \in DOMAIN Sorted(table) : k <= l => Sorted(table)[k].raw <= Sorted(table)[l].raw
<1> DEFINE of(k) == CHOOSE i \in DOMAIN table : Rank(table, i) = k
<1>1. ASSUME NEW k \in DOMAIN table PROVE of(k) \in DOMAIN table /\ Rank(table, of(k)) = k
  BY RankFacts
<1>2. Sorted(table) = [k \in DOMAIN table |-> table[of(k)]]
  BY DEF Sorted
<1> HIDE DEF of
<1>3. DOMAIN table = 1 .. Len(table) /\ Len(table) \in Nat
      /\ \A i \in DOMAIN table : table[i] \in [raw : Int, cal : Int] /\ i \in Int
  BY TableFacts
<1>4. Table(Sorted(table)) /\ Len(Sorted(table)) = Len(table)
  BY <1>1, <1>2, <1>3 DEF Table
<1>5. ASSUME NEW i \in DOMAIN table PROVE i = of(Rank(table, i)) /\ Rank(table, i) \in DOMAIN table
  <2>1. Rank(table, i) \in DOMAIN table /\ Rank(table, i) \in Int
    BY <1>3, RankFacts
  <2>2. of(Rank(table, i)) \in DOMAIN table /\ Rank(table, of(Rank(table, i))) = Rank(table, i)
    BY <1>1, <2>1
  <2>3. ~ (Rank(table, i) < Rank(table, i))
    BY <2>1
  <2> QED BY <2>1, <2>2, <2>3, GoesBeforeOrders, RankFacts
<1>6. ASSUME NEW k \in DOMAIN table, NEW l \in DOMAIN table, k <= l
      PROVE  table[of(k)].raw <= table[of(l)].raw
  <2>1. of(k) \in DOMAIN table /\ of(l) \in DOMAIN table /\ Rank(table, of(k)) = k /\ Rank(table, of(l)) = l
    BY <1>1
  <2>2. ~ GoesBefore(table, of(l), of(k))
    <3>1. k \in Int /\ l \in Int
      BY <1>3
    <3> QED BY <2>1, <3>1, <1>6, RankFacts
  <2>3. table[of(k)].raw \in Int /\ table[of(l)].raw \in Int
    BY <2>1, <1>3
  <2> QED BY <2>2, <2>3 DEF GoesBefore, Before
<1>7. {Sorted(table)[k] : k \in DOMAIN Sorted(table)} = {table[i] : i \in DOMAIN table}
  <2>1. \A k \in DOMAIN table : Sorted(table)[k] \in {table[i] : i \in DOMAIN table}
    BY <1>1, <1>2
  <2>2. \A i \in DOMAIN table : table[i] \in {Sorted(table)[k] : k \in DOMAIN Sorted(table)}
    BY <1>2, <1>5
  <2> QED BY <1>2, <2>1, <2>2
<1> QED BY <1>2, <1>4, <1>6, <1>7

-----------------------------------------------------------------------------
(* The curve through the points, at, between and outside of them. *)

\* Curves and what is interpolated on them are a matter of the points, not their order.
LEMMA SamePoints ==
    ASSUME NEW s, NEW t, {s[i] : i \in DOMAIN s} = {t[i] : i \in DOMAIN t}, NEW v
    PROVE  /\ Exact(v, s) <=> Exact(v, t)
           /\ \A r : OnCurve(s, v, r) <=> OnCurve(t, v, r)
<1>1. Exact(v, s) <=> Exact(v, t)
  BY DEF Exact
<1>2. ASSUME NEW r PROVE OnCurve(s, v, r) <=> OnCurve(t, v, r)
  BY DEF OnCurve
<1> QED BY <1>1, <1>2

\* A value below all points.
LEMMA BelowCurve ==
    ASSUME NEW t, Table(t), NEW k \in DOMAIN t, \A i \in DOMAIN t : t[k].raw <= t[i].raw,
           NEW v \in Int, v < t[k].raw
    PROVE  OnCurve(t, v, t[k].cal)
<1> DEFINE all == {t[i] : i \in DOMAIN t}
<1>1. {p \in all : p.raw <= v} = {}
  BY TableFacts
<1>2. t[k] \in {p \in all : \A q \in all : p.raw <= q.raw}
  OBVIOUS
<1> QED BY <1>1, <1>2 DEF OnCurve

\* A value above all points.
LEMMA AboveCurve ==
    ASSUME NEW t, Table(t), NEW k \in DOMAIN t, \A i \in DOMAIN t : t[i].raw <= t[k].raw,
           NEW v \in Int, v > t[k].raw
    PROVE  OnCurve(t, v, t[k].cal)
<1> DEFINE all == {t[i] : i \in DOMAIN t}
<1>1. {p \in all : p.raw >= v} = {}
  BY TableFacts
<1>2. t[k] \in {p \in all : \A q \in all : q.raw <= p.raw}
  OBVIOUS
<1> QED BY <1>1, <1>2 DEF OnCurve

\* A value the table has.
LEMMA AtPoint ==
    ASSUME NEW t, Table(t), NEW k \in DOMAIN t, NEW v \in Int, v = t[k].raw
    PROVE  OnCurve(t, v, t[k].cal)
<1> DEFINE all == {t[i] : i \in DOMAIN t}
           low == {p \in all : p.raw <= v}
           high == {p \in all : p.raw >= v}
<1>1. t[k] \in {p \in low : \A q \in low : q.raw <= p.raw}
  BY TableFacts
<1>2. t[k] \in {p \in high : \A q \in high : p.raw <= q.raw}
  BY TableFacts
<1> QED BY <1>1, <1>2 DEF OnCurve

\* A value between two points that are neighbours.
LEMMA BetweenPoints ==
    ASSUME NEW t, Table(t), NEW k \in DOMAIN t, NEW l \in DOMAIN t, NEW v \in Int,
           t[k].raw < v, v < t[l].raw, \A i \in DOMAIN t : t[i].raw <= t[k].raw \/ t[l].raw <= t[i].raw,
           NEW r, (r - t[k].cal) * (t[l].raw - t[k].raw) = (v - t[k].raw) * (t[l].cal - t[k].cal)
    PROVE  OnCurve(t, v, r)
<1> DEFINE all == {t[i] : i \in DOMAIN t}
           low == {p \in all : p.raw <= v}
           high == {p \in all : p.raw >= v}
<1>1. t[k].raw \in Int /\ t[l].raw \in Int /\ t[k].raw <= v /\ t[l].raw >= v /\ t[k].raw # v
  BY TableFacts
<1>2. ASSUME NEW q \in all
      PROVE  (q.raw <= v => q.raw <= t[k].raw) /\ (q.raw >= v => t[l].raw <= q.raw)
  <2>1. PICK i \in DOMAIN t : q = t[i]
    OBVIOUS
  <2>2. q.raw \in Int /\ (q.raw <= t[k].raw \/ t[l].raw <= q.raw)
    BY <2>1, TableFacts
  <2> QED BY <1>1, <2>2
<1>3. t[k] \in {p \in low : \A q \in low : q.raw <= p.raw}
  BY <1>1, <1>2
<1>4. t[l] \in {p \in high : \A q \in high : p.raw <= q.raw}
  BY <1>1, <1>2
<1> QED BY <1>1, <1>3, <1>4 DEF OnCurve

\* Division that leaves nothing over is undone by multiplication.
LEMMA DivisionExact ==
    ASSUME NEW a \in Int, NEW d \in Int, d > 0, a % d = 0
    PROVE  a \div d \in Int /\ (a \div d) * d = a
  OBVIOUS

\* Multiplication is undone by division.
LEMMA DivisionUndoes ==
    ASSUME NEW m \in Int, NEW d \in Int, d > 0
    PROVE  (d * m) \div d = m
  OBVIOUS

-----------------------------------------------------------------------------
(* The scan of the sorted table. *)

\* Where lookup_table stops: the first two neighbours a value lies between.
LEMMA FirstPair ==
    ASSUME NEW t, Table(t), \A k, l \in DOMAIN t : k <= l => t[k].raw <= t[l].raw,
           NEW v \in Int, Len(t) > 1, t[1].raw < v, v < t[Len(t)].raw
    PROVE  \E i \in 1 .. Len(t) - 1 : t[i].raw <= v /\ v <= t[i + 1].raw
<1> DEFINE n == Len(t)
           above == {i \in 1 .. n : v <= t[i].raw}
<1>1. n \in Nat /\ DOMAIN t = 1 .. n /\ \A i \in 1 .. n : t[i].raw \in Int
  BY TableFacts
<1>2. above \subseteq Nat /\ n \in above
  BY <1>1
<1>3. PICK m \in above : \A i \in above : m <= i
  <2> HIDE DEF above
  <2> QED BY <1>2, LeastNumber
<1>4. m \in 1 .. n /\ v <= t[m].raw /\ m # 1
  BY <1>1, <1>3
<1>5. m - 1 \in 1 .. n - 1 /\ m - 1 \in 1 .. n /\ m - 1 + 1 = m /\ ~(m <= m - 1)
  BY <1>1, <1>4
<1>6. ~(v <= t[m - 1].raw)
  BY <1>3, <1>5
<1>7. t[m - 1].raw <= v
  BY <1>1, <1>5, <1>6
<1> QED BY <1>4, <1>5, <1>7

\* lookup_table on a sorted table gives the value of the curve.
LEMMA ScanOnCurve ==
    ASSUME NEW t, Table(t), t # <<>>, \A k, l \in DOMAIN t : k <= l => t[k].raw <= t[l].raw,
           NEW v \in Int, Exact(v, t)
    PROVE  OnCurve(t, v, Scan(v, t)) /\ Scan(v, t) \in Int
<1> DEFINE last == Len(t)
           pairs == {i \in 1 .. last - 1 : t[i].raw <= v /\ v <= t[i + 1].raw}
           first == CHOOSE i \in pairs : \A j \in pairs : i <= j
<1>1. last \in Nat /\ DOMAIN t = 1 .. last /\ 1 \in DOMAIN t /\ last \in DOMAIN t
      /\ \A i \in DOMAIN t : t[i].raw \in Int /\ t[i].cal \in Int
  BY TableFacts DEF Table
<1>2. \A i \in DOMAIN t : t[1].raw <= t[i].raw /\ t[i].raw <= t[last].raw
  BY <1>1
<1>3. Scan(v, t) = IF last = 1 \/ v <= t[1].raw THEN t[1].cal
                   ELSE IF v >= t[last].raw \/ pairs = {} THEN t[last].cal
                   ELSE Interpolate(v, t[first], t[first + 1])
  BY DEF Scan
<1> HIDE DEF pairs, first
<1>4. CASE v < t[1].raw
  <2>1. Scan(v, t) = t[1].cal
    BY <1>1, <1>3, <1>4
  <2> QED BY <1>1, <1>2, <1>4, <2>1, BelowCurve
<1>5. CASE v = t[1].raw
  <2>1. Scan(v, t) = t[1].cal
    BY <1>1, <1>3, <1>5
  <2> QED BY <1>1, <1>5, <2>1, AtPoint
<1>6. CASE v > t[last].raw
  <2>1. Scan(v, t) = t[last].cal
    <3>1. ~(v <= t[1].raw) /\ v >= t[last].raw
      BY <1>1, <1>2, <1>6
    <3> QED BY <1>3, <3>1
  <2> QED BY <1>1, <1>2, <1>6, <2>1, AboveCurve
<1>7. CASE t[1].raw < v /\ v = t[last].raw
  <2>1. Scan(v, t) = t[last].cal
    <3>1. ~(v <= t[1].raw) /\ v >= t[last].raw /\ last # 1
      BY <1>1, <1>7
    <3> QED BY <1>3, <3>1
  <2> QED BY <1>1, <1>7, <2>1, AtPoint
<1>8. CASE t[1].raw < v /\ v < t[last].raw
  <2>1. last > 1
    BY <1>1, <1>8
  <2>2. pairs # {} /\ pairs \subseteq Nat
    <3>1. PICK i \in 1 .. last - 1 : t[i].raw <= v /\ v <= t[i + 1].raw
      BY <1>8, <2>1, FirstPair
    <3>2. i \in pairs
      BY <3>1 DEF pairs
    <3>3. \A j \in 1 .. last - 1 : j \in Nat
      OBVIOUS
    <3>4. pairs \subseteq Nat
      BY <3>3 DEF pairs
    <3> QED BY <3>2, <3>4
  <2>3. \E i \in pairs : \A j \in pairs : i <= j
    BY <2>2, LeastNumber
  <2>4. first \in pairs
    BY <2>3 DEF first
  <2>5. Scan(v, t) = Interpolate(v, t[first], t[first + 1])
    <3>1. ~(v <= t[1].raw) /\ ~(v >= t[last].raw) /\ last # 1
      BY <1>1, <1>8
    <3> QED BY <1>3, <2>2, <3>1
  <2> HIDE DEF first
  <2>6. /\ first \in DOMAIN t /\ first + 1 \in DOMAIN t
        /\ t[first].raw <= v /\ v <= t[first + 1].raw
    BY <1>1, <2>4 DEF pairs
  <2> DEFINE p == t[first]
             q == t[first + 1]
  <2>7. p.raw \in Int /\ p.cal \in Int /\ q.raw \in Int /\ q.cal \in Int
    BY <1>1, <2>6
  <2>8. CASE p.raw = q.raw
    <3>1. v = p.raw /\ Scan(v, t) = p.cal
      BY <2>5, <2>6, <2>7, <2>8 DEF Interpolate
    <3> QED BY <2>6, <2>7, <3>1, AtPoint
  <2>9. CASE p.raw # q.raw
    <3> DEFINE d == q.raw - p.raw
               a == (v - p.raw) * (q.cal - p.cal)
    <3>1. d \in Int /\ d > 0 /\ a \in Int
      BY <2>6, <2>7, <2>9
    <3>2. Scan(v, t) = p.cal + a \div d
      BY <2>5, <2>9 DEF Interpolate
    <3>3. CASE v = p.raw
      <4>1. a = d * 0
        <5>1. v - p.raw = 0 /\ \A x \in Int : 0 * x = 0 /\ x * 0 = 0
          BY <2>7, <3>3
        <5>2. a = 0 /\ d * 0 = 0
          BY <2>7, <3>1, <5>1
        <5> QED BY <5>2
      <4>2. a \div d = 0
        <5> HIDE DEF a, d
        <5> QED BY <3>1, <4>1, DivisionUndoes
      <4>3. Scan(v, t) = p.cal
        BY <2>7, <3>2, <4>2
      <4> QED BY <2>6, <2>7, <3>3, <4>3, AtPoint
    <3>4. CASE v = q.raw
      <4>1. a = d * (q.cal - p.cal) /\ q.cal - p.cal \in Int
        BY <2>7, <3>4
      <4>2. a \div d = q.cal - p.cal
        <5> HIDE DEF a, d
        <5> QED BY <3>1, <4>1, <2>7, DivisionUndoes
      <4>3. Scan(v, t) = q.cal
        BY <2>7, <3>2, <4>2
      <4> QED BY <2>6, <2>7, <3>4, <4>3, AtPoint
    <3>5. CASE p.raw < v /\ v < q.raw
      <4>1. \A i \in DOMAIN t : t[i].raw <= p.raw \/ q.raw <= t[i].raw
        <5> TAKE i \in DOMAIN t
        <5>1. i <= first \/ first + 1 <= i
          BY <1>1, <2>6
        <5> QED BY <5>1, <2>6
      <4>2. a % d = 0
        <5>1. \A r \in {t[i] : i \in DOMAIN t} : r.raw <= p.raw \/ q.raw <= r.raw
          BY <4>1
        <5> QED BY <2>6, <3>5, <5>1 DEF Exact
      <4>3. a \div d \in Int /\ (a \div d) * d = a
        <5> HIDE DEF a, d
        <5> QED BY <3>1, <4>2, DivisionExact
      <4>4. Scan(v, t) \in Int /\ Scan(v, t) - p.cal = a \div d
        <5> HIDE DEF a, d
        <5> QED BY <2>7, <3>2, <4>3
      <4>5. (Scan(v, t) - p.cal) * d = a
        BY <4>3, <4>4
      <4> QED BY <2>6, <3>5, <4>1, <4>4, <4>5, BetweenPoints
    <3> QED BY <2>6, <2>7, <3>3, <3>4, <3>5
  <2> QED BY <2>8, <2>9
<1> QED BY <1>1, <1>2, <1>4, <1>5, <1>6, <1>7, <1>8

\* lookup_table on any table, sorted or not, gives the value of the curve.
THEOREM LookupOnCurve ==
    ASSUME NEW table, Table(table), table # <<>>, NEW v \in Int, Exact(v, table)
    PROVE  OnCurve(table, v, LookupTable(v, table)) /\ LookupTable(v, table) \in Int
<1> DEFINE t == Sorted(table)
<1>1. Table(t) /\ {t[i] : i \in DOMAIN t} = {table[i] : i \in DOMAIN table}
      /\ \A k, l \in DOMAIN t : k <= l => t[k].raw <= t[l].raw
  BY SortedFacts
<1>2. t # <<>>
  <2>1. Len(t) = Len(table) /\ Len(table) # 0
    BY SortedFacts DEF Table
  <2> QED BY <2>1
<1>3. LookupTable(v, table) = Scan(v, t)
  BY DEF LookupTable
<1> HIDE DEF t
<1>4. Exact(v, t)
  BY <1>1, SamePoints
<1>5. OnCurve(t, v, Scan(v, t)) /\ Scan(v, t) \in Int
  BY <1>1, <1>2, <1>4, ScanOnCurve
<1> QED BY <1>1, <1>3, <1>5, SamePoints

-----------------------------------------------------------------------------
(* The calibration job: what it knows at an offset. *)

\* The topics are sequences of well-formed events.
LEMMA TopicFacts ==
    ASSUME NEW t \in Scenario
    PROVE  /\ Len(t.decoded) \in Nat /\ DOMAIN t.decoded = 1 .. Len(t.decoded)
           /\ \A i \in DOMAIN t.decoded :
                 /\ t.decoded[i].reading \in Nat /\ t.decoded[i].kind \in Kind
                 /\ t.decoded[i].value \in Int \cup {NoNumber}
           /\ Len(t.calibrations) \in Nat
           /\ DOMAIN t.calibrations = 1 .. Len(t.calibrations)
           /\ \A i \in DOMAIN t.calibrations :
                 LET e == t.calibrations[i] IN
                 /\ e.kind \in Kind /\ e.op \in {"put", "delete"}
                 /\ e.op = "put" => e.config # NoConfig /\ WellFormed(e.config)
           /\ Len(t.rules) \in Nat /\ DOMAIN t.rules = 1 .. Len(t.rules)
<1>1. /\ t.decoded \in Seq([reading : Nat, kind : Kind, value : Int \cup {NoNumber}])
      /\ Sequence(t.calibrations) /\ Sequence(t.rules)
      /\ \A i \in DOMAIN t.calibrations :
            LET e == t.calibrations[i] IN
            /\ e.kind \in Kind /\ e.op \in {"put", "delete"}
            /\ e.op = "put" => e.config # NoConfig /\ WellFormed(e.config)
  BY ScenarioAssumption
<1>2. \A s : Sequence(s) => Len(s) \in Nat /\ DOMAIN s = 1 .. Len(s)
  <2> SUFFICES ASSUME NEW s, Sequence(s) PROVE Len(s) \in Nat /\ DOMAIN s = 1 .. Len(s)
    OBVIOUS
  <2> DEFINE S == {s[i] : i \in DOMAIN s}
  <2>1. s \in Seq(S)
    BY DEF Sequence
  <2> HIDE DEF S
  <2> QED BY <2>1
<1>3. /\ Len(t.decoded) \in Nat /\ DOMAIN t.decoded = 1 .. Len(t.decoded)
      /\ \A i \in DOMAIN t.decoded :
            t.decoded[i] \in [reading : Nat, kind : Kind, value : Int \cup {NoNumber}]
  <2> DEFINE S == [reading : Nat, kind : Kind, value : Int \cup {NoNumber}]
  <2>1. t.decoded \in Seq(S)
    BY <1>1
  <2> HIDE DEF S
  <2>2. /\ Len(t.decoded) \in Nat /\ DOMAIN t.decoded = 1 .. Len(t.decoded)
        /\ \A i \in DOMAIN t.decoded : t.decoded[i] \in S
    BY <2>1
  <2> QED BY <2>2 DEF S
<1> QED BY <1>1, <1>2, <1>3

\* The latest event about a payload kind, of the first n.
About(t, k, n) == Latest(t.calibrations, n, LAMBDA e : e.kind = k)

\* What the calibration job knows, in a state it has or returns to, is what the events
\* it has applied say.
Configs(t) == {NoConfig} \cup {t.calibrations[i].config : i \in DOMAIN t.calibrations}

CalibFollows(t, c) ==
    /\ c \in [done : Nat, applied : Nat, config : [Kind -> Configs(t)]]
    /\ c.applied <= Len(t.calibrations)
    /\ \A k \in Kind :
          /\ About(t, k, c.applied) = {} => c.config[k] = NoConfig
          /\ \A e \in About(t, k, c.applied) : c.config[k] = IF e.op = "delete" THEN NoConfig ELSE e.config

\* CalibratedByCurve, of one record.
Curved(t, record) ==
    LET latest == About(t, record.kind, record.under) IN
    IF record.raw = NoNumber THEN record.value = NoNumber
    ELSE IF latest = {} THEN record.value = record.raw
    ELSE \A e \in latest :
            IF e.op = "put" /\ e.config.function = "lookup_table" /\ e.config.params # <<>>
            THEN OnCurve(e.config.params, record.raw, record.value)
            ELSE IF e.op = "put" /\ e.config.function = "offset_scale"
            THEN record.value - e.config.params.offset = e.config.params.scale * record.raw
            ELSE record.value = record.raw

Record == [reading : Nat, kind : Kind, raw : Int \cup {NoNumber}, value : Int \cup {NoNumber}, under : Nat]

\* One more event is the latest about its kind, and changes nothing about the others.
LEMMA AboutNext ==
    ASSUME NEW t, NEW n \in Nat, NEW k
    PROVE  About(t, k, n + 1) = IF t.calibrations[n + 1].kind = k THEN {t.calibrations[n + 1]}
                             ELSE About(t, k, n)
<1> DEFINE concerns(j) == t.calibrations[j].kind = k
           last(m) == {j \in 1 .. m : concerns(j) /\ \A i \in j + 1 .. m : ~concerns(i)}
<1>1. \A m : About(t, k, m) = {t.calibrations[j] : j \in last(m)}
  BY DEF About, Latest
<1> HIDE DEF concerns
<1>2. CASE concerns(n + 1)
  <2>1. last(n + 1) = {n + 1}
    BY <1>2
  <2> QED BY <1>1, <1>2, <2>1 DEF concerns
<1>3. CASE ~concerns(n + 1)
  <2>1. last(n + 1) = last(n)
    BY <1>3
  <2> QED BY <1>1, <1>3, <2>1 DEF concerns
<1> QED BY <1>2, <1>3

\* Before any event, none is the latest.
LEMMA AboutNothing == ASSUME NEW t, NEW k PROVE About(t, k, 0) = {}
  BY DEF About, Latest

\* The latest event is one of the topic's.
LEMMA AboutFacts ==
    ASSUME NEW t \in Scenario, NEW n \in Nat, n <= Len(t.calibrations), NEW k, NEW e \in About(t, k, n)
    PROVE  \E i \in DOMAIN t.calibrations : e = t.calibrations[i]
<1>1. PICK j \in 1 .. n : e = t.calibrations[j]
  BY DEF About, Latest
<1> QED BY <1>1, TopicFacts

\* A job that follows the topic and applies one more event, follows it still.
LEMMA FollowsNext ==
    ASSUME NEW t \in Scenario, NEW c, CalibFollows(t, c), c.applied < Len(t.calibrations),
           NEW e, e = t.calibrations[c.applied + 1]
    PROVE  CalibFollows(t, [c EXCEPT !.applied = @ + 1,
                                  !.config[e.kind] = IF e.op = "delete" THEN NoConfig ELSE e.config])
<1> DEFINE new == IF e.op = "delete" THEN NoConfig ELSE e.config
           d == [c EXCEPT !.applied = @ + 1, !.config[e.kind] = new]
           n == c.applied
<1>1. /\ c \in [done : Nat, applied : Nat, config : [Kind -> Configs(t)]]
      /\ n \in Nat /\ n + 1 \in Nat /\ n + 1 <= Len(t.calibrations)
      /\ n + 1 \in DOMAIN t.calibrations
  BY TopicFacts DEF CalibFollows
<1>2. new \in Configs(t) /\ e.kind \in Kind
  BY <1>1, TopicFacts DEF Configs
<1> HIDE DEF new
<1> DEFINE a == [c EXCEPT !.applied = @ + 1]
<1>3. d = [a EXCEPT !.config[e.kind] = new]
  BY <1>1, <1>2
<1>4. d \in [done : Nat, applied : Nat, config : [Kind -> Configs(t)]] /\ d.applied = n + 1
      /\ \A k \in Kind : d.config[k] = IF k = e.kind THEN new ELSE c.config[k]
  <2>1. /\ a \in [done : Nat, applied : Nat, config : [Kind -> Configs(t)]]
        /\ a.applied = n + 1 /\ a.config = c.config
    BY <1>1
  <2> HIDE DEF a, d
  <2> QED BY <1>1, <1>2, <1>3, <2>1
<1> HIDE DEF a, d
<1>5. ASSUME NEW k \in Kind
      PROVE  /\ About(t, k, n + 1) = {} => d.config[k] = NoConfig
             /\ \A x \in About(t, k, n + 1) : d.config[k] = IF x.op = "delete" THEN NoConfig ELSE x.config
  <2>1. About(t, k, n + 1) = IF e.kind = k THEN {e} ELSE About(t, k, n)
    BY <1>1, AboutNext
  <2>2. CASE e.kind = k
    BY <2>1, <2>2, <1>4 DEF new
  <2>3. CASE e.kind # k
    BY <2>1, <2>3, <1>4 DEF CalibFollows
  <2> QED BY <2>2, <2>3
<1>6. CalibFollows(t, d)
  BY <1>1, <1>4, <1>5 DEF CalibFollows
<1> QED BY <1>6 DEF d, new

\* What a job that follows the topic makes of a message is what CalibratedByCurve says.
LEMMA CalibrateCurved ==
    ASSUME NEW t \in Scenario, NEW c, CalibFollows(t, c), NEW k \in DOMAIN t.decoded,
           NEW event, event = t.decoded[k],
           NEW record, record = [reading |-> event.reading, kind |-> event.kind, raw |-> event.value,
                                 value |-> Calibrate(event, c.config), under |-> c.applied]
    PROVE  Curved(t, record) /\ record \in Record
<1> DEFINE raw == event.value
           value == Calibrate(event, c.config)
           config == c.config[event.kind]
           latest == About(t, event.kind, c.applied)
<1>1. event.reading \in Nat /\ event.kind \in Kind /\ raw \in Int \cup {NoNumber} /\ c.applied \in Nat
      /\ c.applied <= Len(t.calibrations)
  BY TopicFacts DEF CalibFollows
<1>2. record.kind = event.kind /\ record.raw = raw /\ record.value = value /\ record.under = c.applied
  OBVIOUS
<1>3. /\ latest = {} => config = NoConfig
      /\ \A e \in latest : config = IF e.op = "delete" THEN NoConfig ELSE e.config
  BY <1>1 DEF CalibFollows
<1>4. \A e \in latest : /\ e.op \in {"put", "delete"}
                        /\ e.op = "put" => e.config # NoConfig /\ WellFormed(e.config)
  BY <1>1, AboutFacts, TopicFacts
<1>5. Curved(t, record) /\ value \in Int \cup {NoNumber}
  <2>1. CASE raw = NoNumber
    BY <1>1, <1>2, <2>1 DEF Curved, Calibrate
  <2>2. CASE raw # NoNumber /\ config = NoConfig
    <3>1. value = raw
      BY <2>2 DEF Calibrate
    <3>2. \A e \in latest : e.op # "put"
      BY <1>3, <1>4, <2>2
    <3> QED BY <1>1, <1>2, <2>2, <3>1, <3>2 DEF Curved
  <2>3. CASE raw # NoNumber /\ config # NoConfig
    <3>1. PICK e \in latest : TRUE
      BY <1>3, <2>3
    <3>2. \A x \in latest : x.op = "put" /\ x.config = config
      BY <1>3, <1>4, <2>3
    <3>3. e.op = "put" /\ e.config = config /\ WellFormed(config)
      BY <1>4, <3>2
    <3>4. value = ApplyCalibration(config, raw) /\ raw \in Int
      BY <1>1, <2>3 DEF Calibrate
    <3>5. PICK i \in DOMAIN t.calibrations : e = t.calibrations[i]
      BY <1>1, AboutFacts
    <3> HIDE DEF latest, config, value
    <3>6. CASE config.function = "lookup_table" /\ config.params # <<>>
      <4>1. value = LookupTable(raw, config.params)
        BY <3>4, <3>6 DEF ApplyCalibration
      <4>2. Table(config.params)
        BY <3>3, <3>6 DEF WellFormed, Table
      <4>3. Exact(raw, config.params)
        <5>1. e.op = "put" /\ e.config.function = "lookup_table" /\ t.decoded[k].value # NoNumber
          BY <2>3, <3>3, <3>6
        <5> QED BY <3>3, <3>5, <5>1, UnitAssumption
      <4>4. OnCurve(config.params, raw, value) /\ value \in Int
        BY <3>4, <3>6, <4>1, <4>2, <4>3, LookupOnCurve
      <4> QED BY <1>2, <2>3, <3>1, <3>2, <3>6, <4>4 DEF Curved, latest
    <3>7. CASE config.function = "offset_scale"
      <4>1. value = raw * config.params.scale + config.params.offset
        BY <3>4, <3>7 DEF ApplyCalibration, OffsetScale
      <4>2. config.params.scale \in Int /\ config.params.offset \in Int
        BY <3>3, <3>7 DEF WellFormed
      <4>3. value \in Int /\ value - config.params.offset = config.params.scale * raw
        <5>1. \A a, b, x \in Int : a * b + x \in Int /\ (a * b + x) - x = b * a
          OBVIOUS
        <5> QED BY <3>4, <4>1, <4>2, <5>1
      <4> QED BY <1>2, <2>3, <3>1, <3>2, <3>7, <4>3 DEF Curved, latest
    <3>8. CASE config.function # "offset_scale" /\ ~(config.function = "lookup_table" /\ config.params # <<>>)
      <4>1. value = raw
        BY <3>4, <3>8 DEF ApplyCalibration, Identity
      <4> QED BY <1>2, <2>3, <3>1, <3>2, <3>4, <3>8, <4>1 DEF Curved, latest
    <3> QED BY <3>6, <3>7, <3>8
  <2> QED BY <2>1, <2>2, <2>3
<1>6. record \in Record
  BY <1>1, <1>5 DEF Record
<1> QED BY <1>5, <1>6

-----------------------------------------------------------------------------
(* The detection job's window. *)

\* The places a window holds are the last numbers up to place n: in order, all of them
\* as long as there are no more than Window.
Remembers(seq, w, n) ==
    /\ w \in Seq(Nat) /\ Len(w) <= Window
    /\ \A i \in 1 .. Len(w) : w[i] \in 1 .. n /\ seq[w[i]].value # NoNumber
    /\ \A i, j \in 1 .. Len(w) : i < j => w[i] < w[j]
    /\ \A p \in 1 .. n : seq[p].value # NoNumber =>
          \/ \E i \in 1 .. Len(w) : w[i] = p
          \/ Len(w) = Window /\ \A i \in 1 .. Len(w) : p < w[i]

\* The window after one more place.
Slid(w, p) == LastN(Append(w, p), Window)

\* A window holds no more than it did: the new place is last, and one too many goes.
LEMMA LastNFacts ==
    ASSUME NEW w \in Seq(Nat), Len(w) <= Window, NEW p \in Nat
    PROVE  /\ Slid(w, p) \in Seq(Nat)
           /\ Len(w) < Window => /\ Len(Slid(w, p)) = Len(w) + 1 /\ Slid(w, p)[Len(w) + 1] = p
                                 /\ \A i \in 1 .. Len(w) : Slid(w, p)[i] = w[i]
           /\ Len(w) = Window => /\ Len(Slid(w, p)) = Window /\ Slid(w, p)[Window] = p
                                 /\ \A i \in 1 .. Window - 1 : Slid(w, p)[i] = w[i + 1]
<1> DEFINE v == Slid(w, p)
<1> DEFINE s == Append(w, p)
<1>1. /\ Window \in Nat \ {0} /\ Len(w) \in Nat /\ s \in Seq(Nat) /\ Len(s) = Len(w) + 1
      /\ s[Len(w) + 1] = p /\ \A i \in 1 .. Len(w) : s[i] = w[i]
  BY WindowAssumption
<1> HIDE DEF s
<1>2. CASE Len(w) < Window
  <2>1. v = s
    BY <1>1, <1>2 DEF LastN, s, Slid
  <2> QED BY <1>1, <1>2, <2>1
<1>3. CASE Len(w) = Window
  <2>1. v = SubSeq(s, 2, Window + 1)
    BY <1>1, <1>3 DEF LastN, s, Slid
  <2>2. v \in Seq(Nat) /\ Len(v) = Window /\ \A i \in 1 .. Window : v[i] = s[i + 1]
    BY <1>1, <1>3, <2>1
  <2>3. v[Window] = s[Window + 1]
    BY <1>1, <2>2
  <2>4. ASSUME NEW i \in 1 .. Window - 1 PROVE v[i] = w[i + 1]
    <3>1. i \in 1 .. Window /\ i + 1 \in 1 .. Len(w)
      BY <1>1, <1>3
    <3> QED BY <1>1, <2>2, <3>1
  <2> QED BY <1>1, <1>3, <2>2, <2>3, <2>4
<1> QED BY <1>1, <1>2, <1>3

\* A window that takes the next number has the last numbers up to it.
LEMMA RemembersNumber ==
    ASSUME NEW seq, NEW w, NEW n \in Nat, Remembers(seq, w, n), seq[n + 1].value # NoNumber
    PROVE  Remembers(seq, Slid(w, n + 1), n + 1)
<1> DEFINE v == Slid(w, n + 1)
<1>1. /\ w \in Seq(Nat) /\ Len(w) \in Nat /\ Window \in Nat \ {0} /\ Len(w) <= Window
      /\ \A i \in 1 .. Len(w) : w[i] \in 1 .. n /\ w[i] \in Nat
  BY WindowAssumption DEF Remembers
<1>2. /\ v \in Seq(Nat)
      /\ Len(w) < Window => /\ Len(v) = Len(w) + 1 /\ v[Len(w) + 1] = n + 1
                            /\ \A i \in 1 .. Len(w) : v[i] = w[i]
      /\ Len(w) = Window => /\ Len(v) = Window /\ v[Window] = n + 1
                            /\ \A i \in 1 .. Window - 1 : v[i] = w[i + 1]
  <2>1. n + 1 \in Nat
    OBVIOUS
  <2> QED BY <1>1, <2>1, LastNFacts
<1> HIDE DEF v
<1> SUFFICES Remembers(seq, v, n + 1)
  BY DEF v
<1>3. /\ \A i \in 1 .. Len(w) : seq[w[i]].value # NoNumber
      /\ \A i, j \in 1 .. Len(w) : i < j => w[i] < w[j]
      /\ \A p \in 1 .. n : seq[p].value # NoNumber =>
            \/ \E i \in 1 .. Len(w) : w[i] = p
            \/ Len(w) = Window /\ \A i \in 1 .. Len(w) : p < w[i]
  BY DEF Remembers
<1>4. CASE Len(w) < Window
  <2>1. Len(v) = Len(w) + 1 /\ v[Len(w) + 1] = n + 1 /\ \A i \in 1 .. Len(w) : v[i] = w[i]
    BY <1>1, <1>2, <1>4
  <2> DEFINE m == Len(w) + 1
  <2>5. Len(v) = m /\ v[m] = n + 1 /\ m \in Nat /\ \A i \in 1 .. m : i = m \/ i \in 1 .. Len(w)
    BY <1>1, <2>1
  <2> HIDE DEF m
  <2>2. \A i \in 1 .. Len(v) : v[i] \in 1 .. n + 1 /\ seq[v[i]].value # NoNumber
    BY <1>1, <1>3, <2>1, <2>5
  <2>3. ASSUME NEW i \in 1 .. Len(v), NEW j \in 1 .. Len(v), i < j PROVE v[i] < v[j]
    <3>1. i \in 1 .. Len(w)
      BY <1>1, <2>3, <2>5
    <3>2. v[i] = w[i] /\ w[i] < n + 1
      BY <1>1, <2>1, <3>1
    <3> QED BY <1>1, <1>3, <2>1, <2>3, <2>5, <3>1, <3>2
  <2>4. ASSUME NEW p \in 1 .. n + 1, seq[p].value # NoNumber
        PROVE  \E i \in 1 .. Len(v) : v[i] = p
    <3>1. CASE p = n + 1
      BY <1>1, <2>1, <3>1
    <3>2. CASE p # n + 1
      <4>1. PICK i \in 1 .. Len(w) : w[i] = p
        BY <1>3, <1>4, <2>4, <3>2
      <4> QED BY <1>1, <2>1, <4>1
    <3> QED BY <3>1, <3>2
  <2> QED BY <1>1, <1>2, <1>4, <2>1, <2>2, <2>3, <2>4 DEF Remembers
<1>5. CASE Len(w) = Window
  <2>1. Len(v) = Window /\ v[Window] = n + 1 /\ \A i \in 1 .. Window - 1 : v[i] = w[i + 1]
    BY <1>1, <1>2, <1>5
  <2>5. \A i \in 1 .. Window : i = Window \/ (i \in 1 .. Window - 1 /\ i + 1 \in 1 .. Len(w) /\ v[i] = w[i + 1])
    BY <1>1, <1>5, <2>1
  <2>2. ASSUME NEW i \in 1 .. Len(v) PROVE v[i] \in 1 .. n + 1 /\ seq[v[i]].value # NoNumber
    <3>1. CASE i = Window
      BY <2>1, <3>1
    <3>2. CASE i # Window
      <4>1. i + 1 \in 1 .. Len(w) /\ v[i] = w[i + 1]
        BY <2>1, <2>5, <3>2
      <4> QED BY <1>1, <1>3, <4>1
    <3> QED BY <3>1, <3>2
  <2>3. ASSUME NEW i \in 1 .. Len(v), NEW j \in 1 .. Len(v), i < j PROVE v[i] < v[j]
    <3>1. i \in 1 .. Window /\ i # Window /\ j \in 1 .. Window
      BY <1>1, <2>1, <2>3
    <3>2. i + 1 \in 1 .. Len(w) /\ v[i] = w[i + 1] /\ w[i + 1] < n + 1
      BY <1>1, <2>5, <3>1
    <3>3. CASE j = Window
      BY <2>1, <3>2, <3>3
    <3>4. CASE j # Window
      <4>1. j + 1 \in 1 .. Len(w) /\ v[j] = w[j + 1]
        BY <2>5, <3>1, <3>4
      <4> QED BY <1>3, <2>3, <3>2, <4>1
    <3> QED BY <3>3, <3>4
  <2>4. ASSUME NEW p \in 1 .. n + 1, seq[p].value # NoNumber
        PROVE  (\E i \in 1 .. Len(v) : v[i] = p) \/ \A i \in 1 .. Len(v) : p < v[i]
    <3>1. CASE p = n + 1
      <4>1. Window \in 1 .. Len(v)
        BY <1>1, <2>1
      <4> QED BY <2>1, <3>1, <4>1
    <3>2. CASE p # n + 1
      <4>1. p \in 1 .. n
        BY <3>2
      <4>2. CASE \E i \in 1 .. Len(w) : w[i] = p
        <5>1. PICK i \in 1 .. Len(w) : w[i] = p
          BY <4>2
        <5>2. CASE i = 1
          <6>1. \A j \in 1 .. Window - 1 : w[1] < w[j + 1]
            BY <1>1, <1>3, <1>5
          <6> QED BY <1>1, <2>1, <4>1, <5>1, <5>2, <6>1
        <5>3. CASE i # 1
          <6>1. i - 1 \in 1 .. Window - 1 /\ v[i - 1] = p
            BY <1>1, <1>5, <2>1, <5>1, <5>3
          <6> QED BY <1>1, <2>1, <6>1
        <5> QED BY <5>2, <5>3
      <4>3. CASE \A i \in 1 .. Len(w) : p < w[i]
        <5>1. ASSUME NEW i \in 1 .. Len(v) PROVE p < v[i]
          <6>1. CASE i = Window
            BY <2>1, <4>1, <6>1
          <6>2. CASE i # Window
            <7>1. i + 1 \in 1 .. Len(w) /\ v[i] = w[i + 1]
              BY <2>1, <2>5, <6>2
            <7> QED BY <4>3, <7>1
          <6> QED BY <6>1, <6>2
        <5> QED BY <5>1
      <4> QED BY <1>3, <2>4, <4>1, <4>2, <4>3
    <3> QED BY <3>1, <3>2
  <2> QED BY <1>1, <1>2, <2>1, <2>2, <2>3, <2>4 DEF Remembers
<1> QED BY <1>1, <1>4, <1>5

\* A place without a number leaves the window as it is.
LEMMA RemembersNothing ==
    ASSUME NEW seq, NEW w, NEW n \in Nat, Remembers(seq, w, n), seq[n + 1].value = NoNumber
    PROVE  Remembers(seq, w, n + 1)
<1>1. \A p \in 1 .. n + 1 : p \in 1 .. n \/ p = n + 1
  OBVIOUS
<1>2. \A i \in 1 .. Len(w) : w[i] \in 1 .. n + 1
  BY DEF Remembers
<1> QED BY <1>1, <1>2 DEF Remembers

\* What is before place n stays as it is when the topic grows.
LEMMA RemembersGrown ==
    ASSUME NEW S, NEW seq \in Seq(S), NEW r, NEW w, NEW n \in Nat, n <= Len(seq), Remembers(seq, w, n)
    PROVE  Remembers(Append(seq, r), w, n)
<1>1. \A p \in 1 .. n : Append(seq, r)[p] = seq[p]
  OBVIOUS
<1> QED BY <1>1 DEF Remembers

-----------------------------------------------------------------------------
(* The alarms. *)

\* The places a window holds.
Places(w) == {w[i] : i \in DOMAIN w}

\* A full window is what the reference says: the last Window numbers up to its place.
LEMMA WindowIsStuckPlaces ==
    ASSUME NEW w, NEW n \in Nat, Remembers(calibrated, w, n), Len(w) = Window
    PROVE  /\ Places(w) = StuckPlaces(n) /\ IsFiniteSet(Places(w)) /\ Cardinality(Places(w)) = Window
           /\ Places(w) \subseteq 1 .. n
<1> DEFINE W == Places(w)
<1>1. /\ Window \in Nat \ {0} /\ w \in Seq(Nat) /\ DOMAIN w = 1 .. Window
      /\ \A i \in 1 .. Window : w[i] \in 1 .. n /\ Numeric(w[i])
      /\ \A i, j \in 1 .. Window : i < j => w[i] < w[j]
  BY WindowAssumption DEF Remembers, Numeric
<1>2. W \subseteq 1 .. n /\ \A p \in W : Numeric(p) /\ \E i \in 1 .. Window : w[i] = p
  BY <1>1 DEF Places
<1>10. \A i \in 1 .. Window : w[i] \in W
  BY <1>1 DEF Places
<1>11. ASSUME NEW p \in 1 .. n, Numeric(p) PROVE p \in W \/ \A i \in 1 .. Window : p < w[i]
  <2>1. (\E i \in 1 .. Window : w[i] = p) \/ \A i \in 1 .. Window : p < w[i]
    BY <1>11 DEF Remembers, Numeric
  <2> QED BY <1>10, <2>1
<1> HIDE DEF W
<1>3. IsFiniteSet(W) /\ Cardinality(W) = Window
  <2> DEFINE f == [i \in 1 .. Window |-> w[i]]
  <2>1. f \in Bijection(1 .. Window, W)
    <3>1. f \in [1 .. Window -> W]
      BY <1>10
    <3>2. \A i, j \in 1 .. Window : f[i] = f[j] => i = j
      <4> SUFFICES ASSUME NEW i \in 1 .. Window, NEW j \in 1 .. Window, w[i] = w[j] PROVE i = j
        OBVIOUS
      <4>1. ~(i < j) /\ ~(j < i)
        <5>1. w[i] \in Nat
          BY <1>1
        <5> QED BY <1>1, <5>1
      <4> QED BY <4>1
    <3>3. \A p \in W : \E i \in 1 .. Window : f[i] = p
      BY <1>2
    <3> HIDE DEF f
    <3>4. f \in Injection(1 .. Window, W)
      BY <3>1, <3>2 DEF Injection, IsInjective
    <3>5. f \in Surjection(1 .. Window, W)
      BY <3>1, <3>3 DEF Surjection
    <3> QED BY <3>4, <3>5 DEF Bijection
  <2> HIDE DEF f
  <2>2. IsFiniteSet(1 .. Window) /\ Cardinality(1 .. Window) = Window
    BY <1>1, FS_Interval
  <2>3. ExistsBijection(1 .. Window, W)
    BY <2>1 DEF ExistsBijection
  <2> QED BY <2>2, <2>3, FS_Bijection
<1> DEFINE later(j) == {m \in j .. n : Numeric(m)}
<1>4. \A j \in 1 .. n : IsFiniteSet(later(j))
  <2> SUFFICES ASSUME NEW j \in 1 .. n PROVE IsFiniteSet(later(j))
    OBVIOUS
  <2>1. IsFiniteSet(j .. n)
    BY FS_Interval
  <2>2. later(j) \in SUBSET (j .. n)
    OBVIOUS
  <2> QED BY <2>1, <2>2, FS_Subset
<1>5. ASSUME NEW j \in W PROVE Numeric(j) /\ Cardinality(later(j)) <= Window
  <2>1. later(j) \in SUBSET W
    <3> SUFFICES ASSUME NEW m \in later(j) PROVE m \in W
      OBVIOUS
    <3>1. j \in 1 .. n /\ m \in 1 .. n /\ j <= m /\ Numeric(m)
      <4>1. j \in 1 .. n
        BY <1>2
      <4>2. m \in j .. n /\ Numeric(m)
        OBVIOUS
      <4> QED BY <4>1, <4>2
    <3>2. PICK i \in 1 .. Window : w[i] = j
      BY <1>2
    <3>3. ~(m < w[i])
      BY <3>1, <3>2
    <3> QED BY <1>1, <1>11, <3>1, <3>2, <3>3
  <2> HIDE DEF later
  <2> QED BY <1>2, <1>3, <2>1, FS_Subset
<1>6. ASSUME NEW j \in 1 .. n, Numeric(j), j \notin W PROVE Cardinality(later(j)) > Window
  <2>1. \A i \in 1 .. Window : j < w[i]
    BY <1>6, <1>11
  <2>2. W \cup {j} \in SUBSET later(j)
    <3>1. \A p \in W : p \in 1 .. n /\ j < p /\ Numeric(p)
      BY <1>2, <2>1
    <3>2. j \in later(j)
      BY <1>6
    <3>3. \A p \in W : p \in later(j)
      BY <3>1
    <3> HIDE DEF later
    <3> QED BY <3>2, <3>3
  <2>3. IsFiniteSet(W \cup {j}) /\ Cardinality(W \cup {j}) = Window + 1
    BY <1>1, <1>3, <1>6, FS_AddElement
  <2>4. IsFiniteSet(later(j))
    BY <1>4
  <2> HIDE DEF later
  <2>5. Cardinality(W \cup {j}) <= Cardinality(later(j)) /\ Cardinality(later(j)) \in Nat
    BY <2>2, <2>4, FS_Subset, FS_CardinalityType
  <2> QED BY <1>1, <2>3, <2>5
<1>7. ASSUME NEW j \in 1 .. n, Cardinality(later(j)) <= Window
      PROVE  ~(Cardinality(later(j)) > Window)
  <2>1. Cardinality(later(j)) \in Nat
    BY <1>4, FS_CardinalityType
  <2> HIDE DEF later
  <2> QED BY <1>1, <1>7, <2>1
<1>8. StuckPlaces(n) = {j \in 1 .. n : Numeric(j) /\ Cardinality(later(j)) <= Window}
  BY DEF StuckPlaces
<1> HIDE DEF later
<1>9. W = StuckPlaces(n)
  BY <1>2, <1>5, <1>6, <1>7, <1>8
<1> QED BY <1>2, <1>3, <1>9 DEF W

\* What an alarm says, of the topic as it is and as it may grow.
AlarmOK(t, seq, a) ==
    /\ a.at \in 1 .. Len(seq) /\ seq[a.at].value # NoNumber
    /\ Remembers(seq, a.window, a.at)
    /\ a.detector \in {"stuck_value", "range_check"}
    /\ a.detector = "stuck_value" =>
          /\ Len(a.window) = Window
          /\ \A i, j \in 1 .. Window : seq[a.window[i]].value = seq[a.window[j]].value
    /\ a.detector = "range_check" =>
          /\ a.under \in DOMAIN t.rules
          /\ t.rules[a.under].op = "put" /\ t.rules[a.under].rule.detector = "range_check"
          /\ RangeCheckTriggered(seq[a.at].value, t.rules[a.under].rule)

\* An alarm stays what it was when the topic grows.
LEMMA AlarmGrown ==
    ASSUME NEW t, NEW S, NEW seq \in Seq(S), NEW r, NEW a, AlarmOK(t, seq, a)
    PROVE  AlarmOK(t, Append(seq, r), a)
<1> DEFINE next == Append(seq, r)
<1>1. /\ Len(seq) \in Nat /\ a.at \in 1 .. Len(seq) /\ a.at \in Nat /\ a.at <= Len(seq)
      /\ Len(next) = Len(seq) + 1 /\ \A i \in 1 .. Len(seq) : next[i] = seq[i]
  BY DEF AlarmOK
<1>2. Remembers(seq, a.window, a.at)
  BY DEF AlarmOK
<1>3. Remembers(next, a.window, a.at)
  BY <1>1, <1>2, RemembersGrown
<1>4. \A i \in 1 .. Len(a.window) : a.window[i] \in 1 .. Len(seq)
  BY <1>1, <1>2 DEF Remembers
<1> HIDE DEF next
<1>5. a.at \in 1 .. Len(next) /\ next[a.at] = seq[a.at]
  BY <1>1
<1>6. Len(a.window) = Window => \A i \in 1 .. Window : next[a.window[i]] = seq[a.window[i]]
  BY <1>1, <1>4
<1>7. AlarmOK(t, next, a)
  BY <1>3, <1>5, <1>6 DEF AlarmOK
<1> QED BY <1>7 DEF next

\* The latest of the first n events is the n-th one.
LEMMA LatestOfAll ==
    ASSUME NEW events, NEW n \in Nat \ {0}
    PROVE  events[n] \in Latest(events, n, LAMBDA x : TRUE)
  BY DEF Latest

\* Each alarm is what AlarmsAreBacked says.
LEMMA BackedAlarm ==
    ASSUME topics \in Scenario, calibrated \in Seq(Record), recalibrated \in BOOLEAN,
           ~recalibrated => \A i \in DOMAIN calibrated :
                               /\ i \in DOMAIN topics.decoded
                               /\ calibrated[i].reading = topics.decoded[i].reading,
           \A a \in alarms : AlarmOK(topics, calibrated, a)
    PROVE  AlarmsAreBacked
<1> DEFINE copied == \E i, j \in DOMAIN topics.decoded :
                        i # j /\ topics.decoded[i].reading = topics.decoded[j].reading
<1> SUFFICES ASSUME NEW a \in alarms
             PROVE  LET places == {a.window[n] : n \in DOMAIN a.window}
                        values == {calibrated[j].value : j \in places}
                    IN
                    IF a.detector = "stuck_value"
                    THEN /\ places = StuckPlaces(a.at) /\ Cardinality(places) = Window
                         /\ Cardinality(values) = 1
                         /\ copied \/ recalibrated
                              \/ Cardinality({calibrated[j].reading : j \in places}) = Window
                    ELSE \E e \in Latest(topics.rules, a.under, LAMBDA x : TRUE) :
                            LET v == calibrated[a.at].value IN
                            /\ e.op = "put" /\ e.rule.detector = "range_check"
                            /\ ~ /\ e.rule.min = NoLimit \/ e.rule.min <= v
                                 /\ e.rule.max = NoLimit \/ v <= e.rule.max
  BY DEF AlarmsAreBacked
<1> HIDE DEF copied
<1>1. AlarmOK(topics, calibrated, a)
  OBVIOUS
<1>2. CASE a.detector = "stuck_value"
  <2> DEFINE w == a.window
             places == Places(w)
             values == {calibrated[j].value : j \in places}
             readings == {calibrated[j].reading : j \in places}
  <2>1. /\ Len(w) = Window /\ Window \in Nat \ {0} /\ DOMAIN w = 1 .. Window
        /\ \A i, j \in 1 .. Window : calibrated[w[i]].value = calibrated[w[j]].value
        /\ Remembers(calibrated, w, a.at) /\ a.at \in Nat /\ a.at <= Len(calibrated)
    BY <1>1, <1>2, WindowAssumption DEF AlarmOK, Remembers
  <2>2. /\ places = StuckPlaces(a.at) /\ IsFiniteSet(places) /\ Cardinality(places) = Window
        /\ places \subseteq 1 .. a.at
    BY <2>1, WindowIsStuckPlaces
  <2>3. Cardinality(values) = 1
    <3>1. 1 \in 1 .. Window
      BY <2>1
    <3>2. values = {calibrated[w[1]].value}
      BY <2>1, <3>1 DEF Places
    <3> HIDE DEF values
    <3> QED BY <3>2, FS_Singleton
  <2>4. ASSUME ~copied, ~recalibrated PROVE Cardinality(readings) = Window
    <3>1. \A i \in places : i \in DOMAIN calibrated
      <4>1. DOMAIN calibrated = 1 .. Len(calibrated) /\ Len(calibrated) \in Nat
        OBVIOUS
      <4> QED BY <2>1, <2>2, <4>1
    <3>2. \A i \in places : i \in DOMAIN topics.decoded /\ calibrated[i].reading = topics.decoded[i].reading
      BY <2>4, <3>1
    <3> HIDE DEF places
    <3>3. \A i, j \in places : calibrated[i].reading = calibrated[j].reading => i = j
      BY <2>4, <3>2 DEF copied
    <3> DEFINE f == [i \in places |-> calibrated[i].reading]
    <3>4. f \in Bijection(places, readings)
      <4>1. f \in [places -> readings]
        OBVIOUS
      <4>2. \A i, j \in places : f[i] = f[j] => i = j
        BY <3>3
      <4>3. \A r \in readings : \E i \in places : f[i] = r
        OBVIOUS
      <4> HIDE DEF f, readings
      <4>4. f \in Injection(places, readings)
        BY <4>1, <4>2 DEF Injection, IsInjective
      <4>5. f \in Surjection(places, readings)
        BY <4>1, <4>3 DEF Surjection
      <4> QED BY <4>4, <4>5 DEF Bijection
    <3> HIDE DEF f, readings
    <3>5. ExistsBijection(places, readings)
      BY <3>4 DEF ExistsBijection
    <3> QED BY <2>2, <3>5, FS_Bijection
  <2> HIDE DEF places, values, readings
  <2>5. /\ places = StuckPlaces(a.at) /\ Cardinality(places) = Window
        /\ Cardinality(values) = 1
        /\ copied \/ recalibrated \/ Cardinality(readings) = Window
    BY <2>2, <2>3, <2>4
  <2> QED BY <1>2, <2>5 DEF places, values, readings, Places
<1>3. CASE a.detector = "range_check"
  <2> DEFINE e == topics.rules[a.under]
             v == calibrated[a.at].value
  <2>1. /\ a.under \in DOMAIN topics.rules /\ e.op = "put" /\ e.rule.detector = "range_check"
        /\ RangeCheckTriggered(v, e.rule)
        /\ v # NoNumber /\ a.at \in 1 .. Len(calibrated)
    BY <1>1, <1>3 DEF AlarmOK
  <2>2. v \in Int
    <3> HIDE DEF v
    <3>1. calibrated[a.at] \in Record
      <4> DEFINE R == Record
      <4>1. calibrated \in Seq(R)
        OBVIOUS
      <4> HIDE DEF R
      <4>2. calibrated[a.at] \in R
        BY <2>1, <4>1
      <4> QED BY <4>2 DEF R
    <3> QED BY <2>1, <3>1 DEF Record, v
  <2>3. a.under \in Nat \ {0} /\ {e.rule.min, e.rule.max} \subseteq Int \cup {NoLimit}
    BY <2>1, TopicFacts, ScenarioAssumption
  <2>4. e \in Latest(topics.rules, a.under, LAMBDA x : TRUE)
    BY <2>3, LatestOfAll
  <2> HIDE DEF e, v
  <2>5. ~ /\ e.rule.min = NoLimit \/ e.rule.min <= v
          /\ e.rule.max = NoLimit \/ v <= e.rule.max
    BY <2>1, <2>2, <2>3 DEF RangeCheckTriggered
  <2> QED BY <1>3, <2>1, <2>4, <2>5 DEF v
<1> QED BY <1>1, <1>2, <1>3 DEF AlarmOK

-----------------------------------------------------------------------------
(* The invariant. *)

\* The states of the two jobs: what one of them has at a checkpoint, too.
CalibStates(t) == [done : Nat, applied : Nat, config : [Kind -> Configs(t)]]

Rules(t) == {NoRule} \cup {t.rules[i].rule : i \in DOMAIN t.rules}

DetectStates(t) == [done : Nat, applied : Nat, rule : Rules(t), recent : Seq(Nat)]

\* What the detection job knows is what the rules it has applied, and the numbers it
\* has processed, say.
DetectFollows(t, seq, d) ==
    /\ d.done <= Len(seq) /\ d.applied <= Len(t.rules)
    /\ d.rule # NoRule => /\ d.applied \in DOMAIN t.rules
                          /\ t.rules[d.applied].op = "put" /\ d.rule = t.rules[d.applied].rule
    /\ Remembers(seq, d.recent, d.done)

StatesOK ==
    /\ topics \in Scenario /\ calibrated \in Seq(Record) /\ recalibrated \in BOOLEAN
    /\ calib \in CalibStates(topics) /\ detect \in DetectStates(topics)
    /\ saved \in [calib : CalibStates(topics), detect : DetectStates(topics)]

\* The calibration job knows, now and at its checkpoint, what its configs say; the
\* topic between the jobs is on the curves, and in step with the decoded one until
\* the job is set back.
CalibOK ==
    /\ CalibFollows(topics, calib) /\ CalibFollows(topics, saved.calib)
    /\ \A i \in DOMAIN calibrated : Curved(topics, calibrated[i])
    /\ ~recalibrated => calib.done = Len(calibrated)
    /\ ~recalibrated => \A i \in DOMAIN calibrated :
                           /\ i \in DOMAIN topics.decoded
                           /\ calibrated[i].reading = topics.decoded[i].reading

\* The same of the detection job, and of the alarms.
DetectOK ==
    /\ DetectFollows(topics, calibrated, detect)
    /\ DetectFollows(topics, calibrated, saved.detect)
    /\ \A a \in alarms : AlarmOK(topics, calibrated, a)

StreamInv == StatesOK /\ CalibOK /\ DetectOK

\* A job that starts anew knows nothing.
LEMMA FreshFollows ==
    ASSUME NEW t \in Scenario, NEW S, NEW seq \in Seq(S)
    PROVE  /\ FreshCalib \in CalibStates(t) /\ CalibFollows(t, FreshCalib)
           /\ FreshDetect \in DetectStates(t) /\ DetectFollows(t, seq, FreshDetect)
<1>1. FreshCalib \in CalibStates(t)
  BY DEF FreshCalib, CalibStates, Configs
<1>2. CalibFollows(t, FreshCalib)
  <2>1. \A k : About(t, k, 0) = {}
    BY AboutNothing
  <2>2. FreshCalib.applied = 0 /\ \A k \in Kind : FreshCalib.config[k] = NoConfig
    BY DEF FreshCalib
  <2>3. 0 <= Len(t.calibrations)
    BY TopicFacts
  <2> QED BY <1>1, <2>1, <2>2, <2>3 DEF CalibFollows, CalibStates
<1>3. FreshDetect \in DetectStates(t)
  BY DEF FreshDetect, DetectStates, Rules
<1>4. DetectFollows(t, seq, FreshDetect)
  <2>1. /\ FreshDetect.done = 0 /\ FreshDetect.applied = 0 /\ FreshDetect.rule = NoRule
        /\ FreshDetect.recent = <<>>
    BY DEF FreshDetect
  <2>2. 0 <= Len(seq) /\ 0 <= Len(t.rules)
    BY TopicFacts
  <2>3. Remembers(seq, <<>>, 0)
    BY WindowAssumption DEF Remembers
  <2> QED BY <2>1, <2>2, <2>3 DEF DetectFollows
<1> QED BY <1>1, <1>2, <1>3, <1>4

\* A job's state follows a topic that has grown.
LEMMA DetectGrown ==
    ASSUME NEW t \in Scenario, NEW S, NEW seq \in Seq(S), NEW r, NEW d \in DetectStates(t),
           DetectFollows(t, seq, d)
    PROVE  DetectFollows(t, Append(seq, r), d)
<1>1. d.done \in Nat /\ d.done <= Len(seq) /\ Remembers(seq, d.recent, d.done)
  BY DEF DetectStates, DetectFollows
<1>2. Remembers(Append(seq, r), d.recent, d.done)
  BY <1>1, RemembersGrown
<1>3. d.done <= Len(Append(seq, r))
  BY <1>1
<1> QED BY <1>2, <1>3 DEF DetectFollows

\* It is so at the start.
LEMMA StreamInitOK == StreamInit => StreamInv
<1> SUFFICES ASSUME StreamInit PROVE StreamInv
  OBVIOUS
<1>1. /\ topics \in Scenario /\ calib = FreshCalib /\ detect = FreshDetect
      /\ saved = [calib |-> FreshCalib, detect |-> FreshDetect]
      /\ calibrated = <<>> /\ alarms = {} /\ recalibrated = FALSE
  BY DEF StreamInit
<1>2. calibrated \in Seq(Record) /\ DOMAIN calibrated = {} /\ Len(calibrated) = 0
  BY <1>1
<1>3. /\ FreshCalib \in CalibStates(topics) /\ CalibFollows(topics, FreshCalib)
      /\ FreshDetect \in DetectStates(topics) /\ DetectFollows(topics, calibrated, FreshDetect)
  BY <1>1, <1>2, FreshFollows
<1>4. saved.calib = FreshCalib /\ saved.detect = FreshDetect
  BY <1>1
<1>5. FreshCalib.done = 0
  BY DEF FreshCalib
<1> QED BY <1>1, <1>2, <1>3, <1>4, <1>5 DEF StreamInv, StatesOK, CalibOK, DetectOK

\* One more message: what is made of it is on its curve, and all that was said of the
\* topic so far holds as it grows.
LEMMA DecodedKeeps == StreamInv /\ ProcessDecoded => StreamInv'
<1> SUFFICES ASSUME StreamInv, ProcessDecoded PROVE StreamInv'
  OBVIOUS
<1> DEFINE i == calib.done + 1
           event == topics.decoded[i]
           record == [reading |-> event.reading, kind |-> event.kind, raw |-> event.value,
                      value |-> Calibrate(event, calib.config), under |-> calib.applied]
<1>1. /\ StatesOK /\ CalibOK /\ DetectOK
      /\ calib.done < Len(topics.decoded) /\ calibrated' = Append(calibrated, record)
      /\ calib' = [calib EXCEPT !.done = @ + 1]
      /\ topics' = topics /\ detect' = detect /\ saved' = saved /\ alarms' = alarms
      /\ recalibrated' = recalibrated
  BY DEF StreamInv, ProcessDecoded
<1>2. topics \in Scenario /\ calibrated \in Seq(Record) /\ calib \in CalibStates(topics)
  BY <1>1 DEF StatesOK
<1>3. i \in DOMAIN topics.decoded
  BY <1>1, <1>2, TopicFacts DEF CalibStates
<1>4. Curved(topics, record) /\ record \in Record /\ record.reading = event.reading
  <2>1. CalibFollows(topics, calib)
    BY <1>1 DEF CalibOK
  <2>2. Curved(topics, record) /\ record \in Record
    BY <1>2, <1>3, <2>1, CalibrateCurved
  <2> QED BY <2>2
<1> HIDE DEF record
<1>5. /\ calibrated' \in Seq(Record) /\ Len(calibrated') = Len(calibrated) + 1
      /\ DOMAIN calibrated = 1 .. Len(calibrated) /\ DOMAIN calibrated' = 1 .. Len(calibrated) + 1
      /\ \A j \in DOMAIN calibrated : calibrated'[j] = calibrated[j]
      /\ calibrated'[Len(calibrated) + 1] = record /\ Len(calibrated) \in Nat
  <2> DEFINE R == Record
  <2>1. calibrated \in Seq(R) /\ record \in R
    BY <1>2, <1>4
  <2> HIDE DEF R
  <2>2. Append(calibrated, record) \in Seq(R)
    BY <2>1
  <2>3. /\ Len(calibrated') = Len(calibrated) + 1
        /\ DOMAIN calibrated = 1 .. Len(calibrated) /\ DOMAIN calibrated' = 1 .. Len(calibrated) + 1
        /\ \A j \in DOMAIN calibrated : calibrated'[j] = calibrated[j]
        /\ calibrated'[Len(calibrated) + 1] = record /\ Len(calibrated) \in Nat
    BY <1>1, <2>1
  <2> QED BY <1>1, <2>2, <2>3 DEF R
<1>6. /\ calib' \in CalibStates(topics) /\ calib'.done = i
      /\ calib'.applied = calib.applied /\ calib'.config = calib.config
  BY <1>1, <1>2 DEF CalibStates
<1>7. StatesOK'
  BY <1>1, <1>5, <1>6 DEF StatesOK
<1>8. CalibOK'
  <2>1. CalibFollows(topics, calib')
    <3>1. CalibFollows(topics, calib)
      BY <1>1 DEF CalibOK
    <3> QED BY <1>6, <3>1 DEF CalibFollows, CalibStates
  <2>2. CalibFollows(topics', saved.calib')
    BY <1>1 DEF CalibOK
  <2>3. \A j \in DOMAIN calibrated' : Curved(topics, calibrated'[j])
    BY <1>1, <1>4, <1>5 DEF CalibOK
  <2>4. ~recalibrated' => calib'.done = Len(calibrated')
    BY <1>1, <1>5, <1>6 DEF CalibOK
  <2>5. ASSUME ~recalibrated', NEW j \in DOMAIN calibrated'
        PROVE  /\ j \in DOMAIN topics.decoded
               /\ calibrated'[j].reading = topics.decoded[j].reading
    <3>1. CASE j \in DOMAIN calibrated
      BY <1>1, <1>5, <2>5, <3>1 DEF CalibOK
    <3>2. CASE j = Len(calibrated) + 1
      <4>1. j = i
        BY <1>1, <2>5, <3>2 DEF CalibOK
      <4> QED BY <1>3, <1>4, <1>5, <3>2, <4>1
    <3> QED BY <1>5, <3>1, <3>2
  <2> QED BY <1>1, <2>1, <2>2, <2>3, <2>4, <2>5 DEF CalibOK
<1>9. DetectOK'
  <2>1. detect \in DetectStates(topics) /\ saved.detect \in DetectStates(topics)
    BY <1>1 DEF StatesOK
  <2>2. /\ DetectFollows(topics, calibrated, detect)
        /\ DetectFollows(topics, calibrated, saved.detect)
        /\ \A a \in alarms : AlarmOK(topics, calibrated, a)
    BY <1>1 DEF DetectOK
  <2>3. DetectFollows(topics, calibrated', detect) /\ DetectFollows(topics, calibrated', saved.detect)
    BY <1>1, <1>2, <2>1, <2>2, DetectGrown
  <2>4. \A a \in alarms : AlarmOK(topics, calibrated', a)
    BY <1>1, <1>2, <2>2, AlarmGrown
  <2> QED BY <1>1, <2>3, <2>4 DEF DetectOK
<1> QED BY <1>7, <1>8, <1>9 DEF StreamInv

\* One more config: what the job knows is what the configs say, as FollowsNext shows.
LEMMA CalibrationKeeps == StreamInv /\ ProcessCalibration => StreamInv'
<1> SUFFICES ASSUME StreamInv, ProcessCalibration PROVE StreamInv'
  OBVIOUS
<1> DEFINE e == topics.calibrations[calib.applied + 1]
<1>1. /\ StatesOK /\ CalibOK /\ DetectOK /\ calib.applied < Len(topics.calibrations)
      /\ calib' = [calib EXCEPT !.applied = @ + 1,
                                !.config[e.kind] = IF e.op = "delete" THEN NoConfig ELSE e.config]
      /\ UNCHANGED <<topics, calibrated, detect, saved, alarms, recalibrated>>
  BY DEF StreamInv, ProcessCalibration
<1>2. CalibFollows(topics, calib')
  <2>1. topics \in Scenario /\ CalibFollows(topics, calib)
    BY <1>1 DEF StatesOK, CalibOK
  <2> QED BY <1>1, <2>1, FollowsNext
<1>3. calib' \in CalibStates(topics) /\ calib'.done = calib.done
  <2>1. calib' \in CalibStates(topics)
    BY <1>2 DEF CalibFollows, CalibStates
  <2>2. calib'.done = calib.done
    <3>1. calib \in CalibStates(topics)
      BY <1>1 DEF StatesOK
    <3> QED BY <1>1, <3>1 DEF CalibStates
  <2> QED BY <2>1, <2>2
<1>4. StatesOK'
  BY <1>1, <1>3 DEF StatesOK
<1>5. CalibOK'
  BY <1>1, <1>2, <1>3 DEF CalibOK
<1>6. DetectOK'
  BY <1>1 DEF DetectOK
<1> QED BY <1>4, <1>5, <1>6 DEF StreamInv

\* One more rule.
LEMMA RuleKeeps == StreamInv /\ ProcessRule => StreamInv'
<1> SUFFICES ASSUME StreamInv, ProcessRule PROVE StreamInv'
  OBVIOUS
<1> DEFINE e == topics.rules[detect.applied + 1]
           rule == IF e.op = "delete" THEN NoRule ELSE e.rule
<1>1. /\ StatesOK /\ CalibOK /\ DetectOK /\ detect.applied < Len(topics.rules)
      /\ detect' = [detect EXCEPT !.applied = @ + 1, !.rule = rule]
      /\ UNCHANGED <<topics, calib, calibrated, saved, alarms, recalibrated>>
  BY DEF StreamInv, ProcessRule
<1>2. topics \in Scenario /\ detect \in DetectStates(topics)
  BY <1>1 DEF StatesOK
<1>3. detect.applied + 1 \in DOMAIN topics.rules /\ e.op \in {"put", "delete"}
  BY <1>1, <1>2, TopicFacts, ScenarioAssumption DEF DetectStates
<1>4. rule \in Rules(topics) /\ (rule # NoRule => e.op = "put" /\ rule = e.rule)
  BY <1>3 DEF Rules
<1> HIDE DEF rule
<1>5. /\ detect' \in DetectStates(topics)
      /\ detect'.done = detect.done /\ detect'.recent = detect.recent
      /\ detect'.applied = detect.applied + 1 /\ detect'.rule = rule
  <2> DEFINE one == [detect EXCEPT !.applied = @ + 1]
  <2>1. /\ one \in DetectStates(topics) /\ one.applied = detect.applied + 1
        /\ one.done = detect.done /\ one.recent = detect.recent
    BY <1>2 DEF DetectStates
  <2>2. detect' = [one EXCEPT !.rule = rule]
    BY <1>1, <1>2 DEF DetectStates
  <2> HIDE DEF one
  <2> QED BY <1>4, <2>1, <2>2 DEF DetectStates
<1>6. StatesOK'
  BY <1>1, <1>5 DEF StatesOK
<1>7. CalibOK'
  BY <1>1 DEF CalibOK
<1>8. DetectFollows(topics, calibrated, detect')
  <2>1. DetectFollows(topics, calibrated, detect)
    BY <1>1 DEF DetectOK
  <2>2. detect'.applied <= Len(topics.rules)
    BY <1>2, <1>3, <1>5, TopicFacts
  <2> QED BY <1>3, <1>4, <1>5, <2>1, <2>2 DEF DetectFollows
<1>9. DetectOK'
  BY <1>1, <1>8 DEF DetectOK
<1> QED BY <1>6, <1>7, <1>9 DEF StreamInv

\* One more value: the window takes it, and what it raises is backed.
LEMMA ObservationKeeps == StreamInv /\ ProcessObservation => StreamInv'
<1> SUFFICES ASSUME StreamInv, ProcessObservation PROVE StreamInv'
  OBVIOUS
<1> DEFINE i == detect.done + 1
           recent == Slid(detect.recent, i)
           raised == {[detector |-> d, at |-> i, window |-> recent, under |-> detect.applied] :
                         d \in Triggered(i, recent, detect.rule)}
<1>1. /\ StatesOK /\ CalibOK /\ DetectOK /\ detect.done < Len(calibrated)
      /\ \/ /\ Numeric(i) /\ alarms' = alarms \cup raised
            /\ detect' = [detect EXCEPT !.done = i, !.recent = recent]
         \/ /\ ~Numeric(i) /\ alarms' = alarms
            /\ detect' = [detect EXCEPT !.done = i]
      /\ UNCHANGED <<topics, calib, calibrated, saved, recalibrated>>
  BY DEF StreamInv, ProcessObservation, Slid
<1>2. /\ topics \in Scenario /\ detect \in DetectStates(topics) /\ detect.done \in Nat
      /\ detect.recent \in Seq(Nat) /\ calibrated \in Seq(Record)
  BY <1>1 DEF StatesOK, DetectStates
<1>3. i \in Nat /\ i \in 1 .. Len(calibrated) /\ i <= Len(calibrated) /\ Len(calibrated) \in Nat
  BY <1>1, <1>2
<1>4. DetectFollows(topics, calibrated, detect)
  BY <1>1 DEF DetectOK
<1>5. Remembers(calibrated, detect.recent, detect.done)
  BY <1>4 DEF DetectFollows
<1>6. Numeric(i) => Remembers(calibrated, recent, i)
  BY <1>2, <1>5, RemembersNumber DEF Numeric
<1>7. ~Numeric(i) => Remembers(calibrated, detect.recent, i)
  BY <1>2, <1>5, RemembersNothing DEF Numeric
<1> HIDE DEF i, recent
<1>8. /\ detect' \in DetectStates(topics) /\ detect'.done = i
      /\ detect'.applied = detect.applied /\ detect'.rule = detect.rule
      /\ Remembers(calibrated, detect'.recent, i)
  <2>1. CASE Numeric(i)
    <3> DEFINE one == [detect EXCEPT !.done = i]
    <3>1. /\ one \in DetectStates(topics) /\ one.done = i
          /\ one.applied = detect.applied /\ one.rule = detect.rule
      BY <1>2, <1>3 DEF DetectStates
    <3>2. detect' = [one EXCEPT !.recent = recent]
      BY <1>1, <1>2, <2>1 DEF DetectStates
    <3>3. recent \in Seq(Nat)
      BY <1>6, <2>1 DEF Remembers
    <3> HIDE DEF one
    <3>4. /\ detect' \in DetectStates(topics) /\ detect'.done = i
          /\ detect'.applied = detect.applied /\ detect'.rule = detect.rule
          /\ detect'.recent = recent
      BY <3>1, <3>2, <3>3 DEF DetectStates
    <3> QED BY <1>6, <2>1, <3>4
  <2>2. CASE ~Numeric(i)
    <3>1. /\ detect' \in DetectStates(topics) /\ detect'.done = i
          /\ detect'.applied = detect.applied /\ detect'.rule = detect.rule
          /\ detect'.recent = detect.recent
      BY <1>1, <1>2, <1>3, <2>2 DEF DetectStates
    <3> QED BY <1>7, <2>2, <3>1
  <2> QED BY <2>1, <2>2
<1>9. DetectFollows(topics, calibrated, detect')
  BY <1>3, <1>4, <1>8 DEF DetectFollows
<1>10. ASSUME Numeric(i), NEW a \in raised PROVE AlarmOK(topics, calibrated, a)
  <2>1. PICK d \in Triggered(i, recent, detect.rule) :
           a = [detector |-> d, at |-> i, window |-> recent, under |-> detect.applied]
    BY <1>10
  <2>2. a.detector = d /\ a.at = i /\ a.window = recent /\ a.under = detect.applied
    BY <2>1
  <2>3. d \in {"stuck_value", "range_check"}
    BY <2>1 DEF Triggered
  <2>4. Remembers(calibrated, recent, i)
    BY <1>6, <1>10
  <2>5. ASSUME d = "stuck_value"
        PROVE  /\ Len(recent) = Window
               /\ \A m, n \in 1 .. Window :
                     calibrated[recent[m]].value = calibrated[recent[n]].value
    <3>1. StuckValueTriggered(recent)
      BY <2>1, <2>5 DEF Triggered
    <3>2. Len(recent) = Window /\ DOMAIN recent = 1 .. Window /\ Window \in Nat \ {0}
      BY <2>4, <3>1, WindowAssumption DEF Remembers, StuckValueTriggered
    <3> DEFINE values == {calibrated[recent[m]].value : m \in DOMAIN recent}
    <3>3. Cardinality(values) = 1
      BY <3>1 DEF StuckValueTriggered
    <3>4. IsFiniteSet(values)
      <4>1. IsFiniteSet(1 .. Window)
        BY <3>2, FS_Interval
      <4> DEFINE f == [m \in 1 .. Window |-> calibrated[recent[m]].value]
      <4>2. f \in [1 .. Window -> values] /\ \A v \in values : \E m \in 1 .. Window : f[m] = v
        BY <3>2
      <4> HIDE DEF f, values
      <4>3. f \in Surjection(1 .. Window, values)
        BY <4>2 DEF Surjection
      <4> QED BY <4>1, <4>3, FS_Surjection
    <3>5. \A m \in 1 .. Window : calibrated[recent[m]].value \in values
      BY <3>2
    <3> HIDE DEF values
    <3>6. PICK x : values = {x}
      BY <3>3, <3>4, FS_Singleton
    <3> QED BY <3>2, <3>5, <3>6
  <2>6. ASSUME d = "range_check"
        PROVE  /\ detect.applied \in DOMAIN topics.rules
               /\ topics.rules[detect.applied].op = "put"
               /\ topics.rules[detect.applied].rule.detector = "range_check"
               /\ RangeCheckTriggered(calibrated[i].value, topics.rules[detect.applied].rule)
    <3>1. /\ detect.rule # NoRule /\ detect.rule.detector = "range_check"
          /\ RangeCheckTriggered(calibrated[i].value, detect.rule)
      BY <2>1, <2>6 DEF Triggered
    <3> QED BY <1>4, <3>1 DEF DetectFollows
  <2> HIDE DEF raised
  <2> QED BY <1>3, <1>10, <2>2, <2>3, <2>4, <2>5, <2>6 DEF AlarmOK, Numeric
<1> HIDE DEF raised
<1>11. DetectOK'
  <2>1. \A a \in alarms' : AlarmOK(topics, calibrated, a)
    BY <1>1, <1>10 DEF DetectOK
  <2> QED BY <1>1, <1>9, <2>1 DEF DetectOK
<1>12. StatesOK'
  BY <1>1, <1>8 DEF StatesOK
<1>13. CalibOK'
  BY <1>1 DEF CalibOK
<1> QED BY <1>11, <1>12, <1>13 DEF StreamInv

\* A checkpoint is a copy of a state that follows, and going back to one follows.
LEMMA SetbacksKeep ==
    StreamInv /\ (Checkpoint \/ RestartCalibration \/ RestartDetection \/ Submit) => StreamInv'
<1> SUFFICES ASSUME StreamInv PROVE Checkpoint \/ RestartCalibration \/ RestartDetection \/ Submit => StreamInv'
  OBVIOUS
<1>1. /\ StatesOK /\ CalibOK /\ DetectOK /\ topics \in Scenario /\ calibrated \in Seq(Record)
      /\ calib \in CalibStates(topics) /\ detect \in DetectStates(topics)
      /\ saved \in [calib : CalibStates(topics), detect : DetectStates(topics)]
  BY DEF StreamInv, StatesOK
<1>2. /\ FreshCalib \in CalibStates(topics) /\ CalibFollows(topics, FreshCalib)
      /\ FreshDetect \in DetectStates(topics) /\ DetectFollows(topics, calibrated, FreshDetect)
  BY <1>1, FreshFollows
<1>3. ASSUME Checkpoint PROVE StreamInv'
  <2>1. /\ UNCHANGED <<topics, calib, calibrated, detect, alarms, recalibrated>>
        /\ saved' = [saved EXCEPT !.calib = calib] \/ saved' = [saved EXCEPT !.detect = detect]
    BY <1>3 DEF Checkpoint
  <2>2. /\ saved' \in [calib : CalibStates(topics), detect : DetectStates(topics)]
        /\ saved'.calib \in {calib, saved.calib} /\ saved'.detect \in {detect, saved.detect}
    BY <1>1, <2>1
  <2>3. StatesOK'
    BY <1>1, <2>1, <2>2 DEF StatesOK
  <2>4. CalibOK'
    BY <1>1, <2>1, <2>2 DEF CalibOK
  <2>5. DetectOK'
    BY <1>1, <2>1, <2>2 DEF DetectOK
  <2> QED BY <2>3, <2>4, <2>5 DEF StreamInv
<1>4. ASSUME RestartCalibration PROVE StreamInv'
  <2>1. /\ UNCHANGED <<topics, calibrated, detect, saved, alarms>>
        /\ calib' = saved.calib /\ recalibrated' = TRUE
    BY <1>4 DEF RestartCalibration
  <2>2. StatesOK'
    BY <1>1, <2>1 DEF StatesOK
  <2>3. CalibOK'
    BY <1>1, <2>1 DEF CalibOK
  <2>4. DetectOK'
    BY <1>1, <2>1 DEF DetectOK
  <2> QED BY <2>2, <2>3, <2>4 DEF StreamInv
<1>5. ASSUME RestartDetection PROVE StreamInv'
  <2>1. /\ UNCHANGED <<topics, calib, calibrated, saved, alarms, recalibrated>>
        /\ detect' = saved.detect
    BY <1>5 DEF RestartDetection
  <2>2. StatesOK'
    BY <1>1, <2>1 DEF StatesOK
  <2>3. CalibOK'
    BY <1>1, <2>1 DEF CalibOK
  <2>4. DetectOK'
    BY <1>1, <2>1 DEF DetectOK
  <2> QED BY <2>2, <2>3, <2>4 DEF StreamInv
<1>6. ASSUME Submit PROVE StreamInv'
  <2>1. UNCHANGED <<topics, calibrated, alarms>>
    BY <1>6 DEF Submit
  <2>2. CASE /\ calib' = FreshCalib /\ recalibrated' = TRUE /\ detect' = detect
             /\ saved' = [saved EXCEPT !.calib = FreshCalib]
    <3>1. /\ saved' \in [calib : CalibStates(topics), detect : DetectStates(topics)]
          /\ saved'.calib = FreshCalib /\ saved'.detect = saved.detect
      BY <1>1, <1>2, <2>2
    <3>2. StatesOK'
      BY <1>1, <1>2, <2>1, <2>2, <3>1 DEF StatesOK
    <3>3. CalibOK'
      BY <1>1, <1>2, <2>1, <2>2, <3>1 DEF CalibOK
    <3>4. DetectOK'
      BY <1>1, <2>1, <2>2, <3>1 DEF DetectOK
    <3> QED BY <3>2, <3>3, <3>4 DEF StreamInv
  <2>3. CASE /\ detect' = FreshDetect /\ saved' = [saved EXCEPT !.detect = FreshDetect]
             /\ calib' = calib /\ recalibrated' = recalibrated
    <3>1. /\ saved' \in [calib : CalibStates(topics), detect : DetectStates(topics)]
          /\ saved'.calib = saved.calib /\ saved'.detect = FreshDetect
      BY <1>1, <1>2, <2>3
    <3>2. StatesOK'
      BY <1>1, <1>2, <2>1, <2>3, <3>1 DEF StatesOK
    <3>3. CalibOK'
      BY <1>1, <2>1, <2>3, <3>1 DEF CalibOK
    <3>4. DetectOK'
      BY <1>1, <1>2, <2>1, <2>3, <3>1 DEF DetectOK
    <3> QED BY <3>2, <3>3, <3>4 DEF StreamInv
  <2> QED BY <1>6, <2>2, <2>3 DEF Submit
<1> QED BY <1>3, <1>4, <1>5, <1>6

\* StreamInv is an invariant of the jobs.
LEMMA StreamInvariant == StreamSpec => []StreamInv
<1>1. StreamInit => StreamInv
  BY StreamInitOK
<1>2. StreamInv /\ [StreamNext]_streamVars => StreamInv'
  <2> SUFFICES ASSUME StreamInv, [StreamNext]_streamVars PROVE StreamInv'
    OBVIOUS
  <2>1. CASE ProcessDecoded
    BY <2>1, DecodedKeeps
  <2>2. CASE ProcessCalibration
    BY <2>2, CalibrationKeeps
  <2>3. CASE ProcessObservation
    BY <2>3, ObservationKeeps
  <2>4. CASE ProcessRule
    BY <2>4, RuleKeeps
  <2>5. CASE Checkpoint \/ RestartCalibration \/ RestartDetection \/ Submit
    BY <2>5, SetbacksKeep
  <2>6. CASE UNCHANGED streamVars
    <3>1. UNCHANGED <<topics, calib, calibrated, detect, saved, alarms, recalibrated>>
      BY <2>6 DEF streamVars
    <3>2. StatesOK' /\ CalibOK' /\ DetectOK'
      BY <3>1 DEF StreamInv, StatesOK, CalibOK, DetectOK
    <3> QED BY <3>2 DEF StreamInv
  <2> QED BY <2>1, <2>2, <2>3, <2>4, <2>5, <2>6 DEF StreamNext
<1> QED BY <1>1, <1>2, PTL DEF StreamSpec

\* However restarts, checkpoints and submissions fall, and in whatever order the jobs take
\* their inputs, each value on the calibrated topic is the reading's under the latest
\* config for its payload kind: scaled, or on the curve of the table as its author
\* wrote it (calibration_job.py, calibration.py).
THEOREM CalibratedAsConfigured == StreamSpec => []CalibratedByCurve
<1>1. StreamInv => CalibratedByCurve
  <2>1. StreamInv => \A i \in DOMAIN calibrated : Curved(topics, calibrated[i])
    BY DEF StreamInv, CalibOK
  <2> QED BY <2>1 DEF CalibratedByCurve, Curved, About
<1> QED BY <1>1, StreamInvariant, PTL

\* An alarm on the alarms topic is about what it says: the last Window numbers, all
\* alike and none of them twice however a restart falls among them, or a value that
\* breaks the rule that was the latest (pattern_detection_job.py).
THEOREM AlarmsBacked == StreamSpec => []AlarmsAreBacked
<1>1. StreamInv => AlarmsAreBacked
  BY BackedAlarm DEF StreamInv, StatesOK, CalibOK, DetectOK
<1> QED BY <1>1, StreamInvariant, PTL

-----------------------------------------------------------------------------
(* InfluxWriter. *)

USE SentAssumption, BoundsAssumption

\* What a poll reads and is neither stored nor given up is in its points until the
\* batch ends; what a commit covers is stored or was given up.
Covered ==
    /\ \A o \in Storable : o[2] <= position[o[1]] => o \in stored \cup unwritten \cup points
    /\ \A o \in Storable : o[2] <= committed[o[1]] => o \in stored \cup unwritten
    /\ pc = "commit" => points \subseteq stored
    /\ pc = "poll" => points = {}

IInv == TypeOK /\ Covered

-----------------------------------------------------------------------------
\* A storable event has an offset of a record of its topic.
LEMMA StorableFacts ==
    ASSUME TypeOK, NEW o \in Storable
    PROVE  /\ o \in Topic \X (1..MaxLog)
           /\ o[1] \in Topic /\ o[2] \in Nat /\ o[2] <= Len(log[o[1]])
           /\ HasPoints(log[o[1]][o[2]])
  BY DEF Storable, Offsets, TypeOK

\* While the topics stay as they are, so do the events worth storing.
LEMMA StorableStays == ASSUME UNCHANGED log PROVE Storable' = Storable
  BY DEF Storable, Offsets, HasPoints

\* A record that is produced takes no record away and comes behind all positions.
LEMMA ProduceFacts ==
    ASSUME TypeOK, Produce
    PROVE  /\ log' \in [Topic -> Seq(Event)]
           /\ \A t \in Topic : /\ log'[t] \in Seq(Sent[t]) /\ Len(log'[t]) <= MaxLog
                               /\ Len(log[t]) <= Len(log'[t])
           /\ Storable \subseteq Storable'
           /\ \A o \in Storable' : o \in Storable \/ o[2] > Len(log[o[1]])
<1>1. PICK t \in Topic : /\ Len(log[t]) < MaxLog
                         /\ \E e \in Sent[t] : log' = [log EXCEPT ![t] = Append(@, e)]
  BY DEF Produce
<1>2. PICK e \in Sent[t] : log' = [log EXCEPT ![t] = Append(@, e)]
  BY <1>1
<1>3. e \in Event
  OBVIOUS
<1>4. log[t] \in Seq(Sent[t]) /\ log[t] \in Seq(Event)
  BY DEF TypeOK
<1>5. /\ Append(log[t], e) \in Seq(Sent[t])
      /\ Append(log[t], e) \in Seq(Event)
      /\ Len(Append(log[t], e)) = Len(log[t]) + 1
      /\ \A i \in 1..Len(log[t]) : Append(log[t], e)[i] = log[t][i]
  BY <1>3, <1>4
<1>6. log'[t] = Append(log[t], e) /\ \A u \in Topic \ {t} : log'[u] = log[u]
  BY <1>2 DEF TypeOK
<1>7. log' \in [Topic -> Seq(Event)]
  BY <1>2, <1>5 DEF TypeOK
<1>8. \A u \in Topic : /\ log'[u] \in Seq(Sent[u]) /\ Len(log'[u]) <= MaxLog
                       /\ Len(log[u]) \in Nat /\ Len(log[u]) <= Len(log'[u])
                       /\ \A i \in 1..Len(log[u]) : log'[u][i] = log[u][i]
  <2> TAKE u \in Topic
  <2>0. Len(log[u]) \in Nat
    BY DEF TypeOK
  <2>1. CASE u = t
    BY <2>0, <2>1, <1>1, <1>5, <1>6
  <2>2. CASE u # t
    BY <2>0, <2>2, <1>6 DEF TypeOK
  <2> QED BY <2>1, <2>2
<1>9. \A o \in Offsets : o \in Offsets' /\ log'[o[1]][o[2]] = log[o[1]][o[2]]
  <2> TAKE o \in Offsets
  <2>1. o[1] \in Topic /\ o[2] \in 1..MaxLog /\ o[2] <= Len(log[o[1]])
    BY DEF Offsets
  <2>2. o[2] <= Len(log'[o[1]]) /\ log'[o[1]][o[2]] = log[o[1]][o[2]]
    BY <2>1, <1>7, <1>8
  <2> QED BY <2>2 DEF Offsets
<1>10. Storable \subseteq Storable'
  BY <1>9 DEF Storable, HasPoints
<1>11. \A o \in Storable' : o \in Storable \/ o[2] > Len(log[o[1]])
  <2> TAKE o \in Storable'
  <2>1. o \in Offsets' /\ HasPoints(log'[o[1]][o[2]])
    BY DEF Storable, HasPoints
  <2>2. o \in Topic \X (1..MaxLog) /\ o[1] \in Topic /\ o[2] \in 1..MaxLog
    BY <2>1 DEF Offsets
  <2>3. CASE o[2] <= Len(log[o[1]])
    <3>1. o \in Offsets
      BY <2>2, <2>3 DEF Offsets
    <3> QED BY <3>1, <2>1, <1>9 DEF Storable
  <2>4. CASE ~(o[2] <= Len(log[o[1]]))
    BY <2>2, <2>4, <1>8
  <2> QED BY <2>3, <2>4
<1> QED BY <1>7, <1>8, <1>10, <1>11

-----------------------------------------------------------------------------
\* A writer that has just been installed has read and committed nothing.
LEMMA InitIInv == Init => IInv
<1> SUFFICES ASSUME Init PROVE IInv
  OBVIOUS
<1>1. log \in [Topic -> Seq(Event)] /\ \A t \in Topic : log[t] = <<>>
  BY DEF Init
<1>2. TypeOK
  BY <1>1 DEF Init, TypeOK
<1>3. Covered
  BY <1>2, StorableFacts DEF Init, Covered
<1> QED BY <1>2, <1>3 DEF IInv

\* A poll puts what it passes and is worth storing into the points.
LEMMA PollIInv == ASSUME IInv, Poll PROVE IInv'
<1> USE DEF IInv
<1>1. PICK reached \in [Topic -> 0..MaxLog] :
         /\ \A t \in Topic : position[t] <= reached[t] /\ reached[t] <= Len(log[t])
         /\ position' = reached
         /\ points' = Between(reached) \cap Storable
  BY DEF Poll
<1>2. Storable' = Storable
  BY StorableStays DEF Poll
<1>3. UNCHANGED <<log, committed, stored, unwritten, faults>> /\ pc' \in {"poll", "write"}
  BY DEF Poll
<1>4. \A t \in Topic : /\ committed[t] \in Nat /\ position[t] \in Nat /\ reached[t] \in Nat
                       /\ committed[t] <= position[t]
  BY DEF TypeOK
<1>5. TypeOK'
  <2>1. \A t \in Topic : committed'[t] <= position'[t] /\ position'[t] <= Len(log'[t])
    BY <1>1, <1>3, <1>4
  <2>2. position' \in [Topic -> Nat]
    BY <1>1
  <2>3. points' \subseteq Storable' /\ stored' \subseteq Storable' /\ unwritten' \subseteq Storable'
    BY <1>1, <1>2, <1>3 DEF TypeOK
  <2> QED BY <1>3, <2>1, <2>2, <2>3 DEF TypeOK
<1>6. ASSUME NEW o \in Storable', o[2] <= position'[o[1]]
      PROVE  o \in stored' \cup unwritten' \cup points'
  <2>1. o \in Storable /\ o \in Offsets /\ o[1] \in Topic /\ o[2] \in Nat
    BY <1>2, <1>6, StorableFacts DEF Storable
  <2>2. CASE o[2] <= position[o[1]]
    BY <2>1, <2>2, <1>3 DEF Covered, Poll, TypeOK
  <2>3. CASE ~(o[2] <= position[o[1]])
    <3>1. o \in Between(reached)
      BY <2>1, <2>3, <1>1, <1>4, <1>6 DEF Between
    <3> QED BY <3>1, <2>1, <1>1
  <2> QED BY <2>2, <2>3
<1>7. Covered'
  BY <1>2, <1>3, <1>6 DEF Covered, Poll
<1> QED BY <1>5, <1>7

\* Every step of the writer, of its environment and of a failure preserves it.
LEMMA StepIInv == ASSUME IInv, [Next]_vars PROVE IInv'
<1> USE DEF IInv
<1>0. \A t \in Topic : /\ committed[t] \in Nat /\ position[t] \in Nat /\ Len(log[t]) \in Nat
                       /\ committed[t] <= position[t] /\ position[t] <= Len(log[t])
  BY DEF TypeOK
<1>1. CASE Produce
  <2>1. UNCHANGED <<committed, position, points, pc, stored, unwritten, faults>>
    BY <1>1 DEF Produce, consumer
  <2>2. \A t \in Topic : Len(log'[t]) \in Nat
    BY <1>1, ProduceFacts
  <2>3. TypeOK'
    BY <1>0, <1>1, <2>1, <2>2, ProduceFacts DEF TypeOK
  <2>4. \A o \in Storable' : o \in Storable \/ (o[2] > position[o[1]] /\ o[2] > committed[o[1]])
    <3> TAKE o \in Storable'
    <3>1. o[1] \in Topic /\ o[2] \in Nat
      BY DEF Storable, Offsets
    <3> QED BY <3>1, <1>0, <1>1, ProduceFacts
  <2>5. \A o \in Storable' : ~(o[2] > position[o[1]] /\ o[2] <= position[o[1]])
                             /\ ~(o[2] > committed[o[1]] /\ o[2] <= committed[o[1]])
    <3> TAKE o \in Storable'
    <3>1. o[1] \in Topic /\ o[2] \in Nat
      BY DEF Storable, Offsets
    <3> QED BY <3>1, <1>0
  <2>6. Covered'
    BY <2>1, <2>4, <2>5 DEF Covered
  <2> QED BY <2>3, <2>6
<1>2. CASE Poll
  BY <1>2, PollIInv
<1>3. CASE Write
  <2>1. Storable' = Storable
    BY <1>3, StorableStays DEF Write
  <2> QED BY <1>3, <2>1 DEF Write, consumer, TypeOK, Covered
<1>4. CASE WriteFails
  <2>1. Storable' = Storable
    BY <1>4, StorableStays DEF WriteFails
  <2>2. PICK accepted \in SUBSET points : stored' = stored \cup accepted
    BY <1>4 DEF WriteFails
  <2>3. faults' \in 0..MaxFaults
    BY <1>4 DEF WriteFails, TypeOK
  <2> QED BY <1>4, <2>1, <2>2, <2>3 DEF WriteFails, consumer, TypeOK, Covered
<1>5. CASE CommitOffsets
  <2>1. Storable' = Storable
    BY <1>5, StorableStays DEF CommitOffsets
  <2> QED BY <1>0, <1>5, <2>1 DEF CommitOffsets, TypeOK, Covered
<1>6. CASE CommitFails
  <2>1. Storable' = Storable
    BY <1>6, StorableStays DEF CommitFails
  <2>2. faults' \in 0..MaxFaults
    BY <1>6 DEF CommitFails, TypeOK
  <2> QED BY <1>0, <1>6, <2>1, <2>2 DEF CommitFails, TypeOK, Covered
<1>7. CASE Restart
  <2>1. Storable' = Storable
    BY <1>7, StorableStays DEF Restart
  <2>2. faults' \in 0..MaxFaults
    BY <1>7 DEF Restart, TypeOK
  <2> QED BY <1>0, <1>7, <2>1, <2>2 DEF Restart, TypeOK, Covered
<1>8. CASE UNCHANGED vars
  <2>1. Storable' = Storable
    BY <1>8, StorableStays DEF vars
  <2> QED BY <1>8, <2>1 DEF vars, consumer, TypeOK, Covered
<1> QED
  BY <1>1, <1>2, <1>3, <1>4, <1>5, <1>6, <1>7, <1>8 DEF Next

\* Whatever crashes, whichever commit fails and however polls split the topics: an
\* event behind a committed offset is in InfluxDB, or the write of a batch that had it
\* raised (influx_writer.py:72-80).
THEOREM LossExplained == Spec => []LossNeedsFailedWrite
<1>1. IInv => LossNeedsFailedWrite
  <2> SUFFICES ASSUME IInv PROVE LossNeedsFailedWrite
    OBVIOUS
  <2>1. \A o \in Committed \cap Storable : o \in stored \cup unwritten
    BY DEF IInv, Covered, Committed
  <2> QED BY <2>1 DEF IInv, LossNeedsFailedWrite
<1> QED
  BY <1>1, InitIInv, StepIInv, PTL DEF Spec
=============================================================================
