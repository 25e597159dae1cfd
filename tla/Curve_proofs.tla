---------------------------- MODULE Curve_proofs ----------------------------
(***************************************************************************)
(* What curve.py and the editor compute and do, for every list of points,  *)
(* curve, temperature, hysteresis, window and floor: the arithmetic first, *)
(* then a curve's round trip through daemon, editor and disk, then the     *)
(* profile engine.                                                         *)
(***************************************************************************)
EXTENDS CurveEdit, ProfileEngine, FiniteSetTheorems, SequenceTheorems, TLAPS

-----------------------------------------------------------------------------
(* CurveMath: normalize() gives a valid curve and leaves a valid one as it is, *)
(* its sort is a stable one, and duty_for() rises through the curve's points   *)
(* and stays between its ends.                                                 *)

Points == Seq(Int \X Int)
Grid == (0 .. 100) \X (0 .. 100)

-----------------------------------------------------------------------------
(* round() *)

LEMMA Euclid ==
  ASSUME NEW n \in Nat, NEW d \in Nat \ {0}
  PROVE  /\ n \div d \in Nat
         /\ n % d \in 0 .. d - 1
         /\ n = d * (n \div d) + (n % d)
  OBVIOUS

LEMMA RoundIsNear ==
  ASSUME NEW n \in Nat, NEW d \in Nat \ {0}
  PROVE  RoundHalfEven(n, d) \in {n \div d, n \div d + 1}
  BY Euclid DEF RoundHalfEven

LEMMA RoundIsNat ==
  ASSUME NEW n \in Nat, NEW d \in Nat \ {0}
  PROVE  RoundHalfEven(n, d) \in Nat
<1>1. n \div d \in Nat
  BY Euclid
<1>2. QED
  BY <1>1, RoundIsNear

(* A larger number never rounds lower. *)
LEMMA RoundRises ==
  ASSUME NEW m \in Nat, NEW n \in Nat, NEW d \in Nat \ {0}, m <= n
  PROVE  RoundHalfEven(m, d) <= RoundHalfEven(n, d)
<1> DEFINE p == m \div d
           q == n \div d
<1>1. /\ p \in Nat /\ q \in Nat /\ m % d \in 0 .. d - 1 /\ n % d \in 0 .. d - 1
      /\ m = d * p + (m % d) /\ n = d * q + (n % d)
  BY Euclid
<1>2. p <= q
  <2>1. SUFFICES ASSUME p >= q + 1
                 PROVE  FALSE
    BY <1>1
  <2>2. d * p >= d * q + d
    <3>1. PICK k \in Nat : p = q + 1 + k
      BY <1>1, <2>1
    <3>2. d * p = d * q + d + d * k /\ d * k \in Nat
      BY <1>1, <3>1
    <3>3. d * q \in Nat /\ d * p \in Nat
      BY <1>1
    <3>4. QED
      BY <3>2, <3>3
  <2>3. d * p \in Nat /\ d * q \in Nat
    BY <1>1
  <2>4. QED
    BY <1>1, <2>2, <2>3
<1>3. CASE p < q
  <2>1. RoundHalfEven(m, d) \in {p, p + 1} /\ RoundHalfEven(n, d) \in {q, q + 1}
    BY RoundIsNear
  <2>2. QED
    BY <1>1, <1>3, <2>1
<1>4. CASE p = q
  <2>1. m % d <= n % d
    BY <1>1, <1>4
  <2>2. QED
    BY <1>1, <1>4, <2>1 DEF RoundHalfEven
<1>5. QED
  BY <1>1, <1>2, <1>3, <1>4

(* A whole multiple rounds to itself. *)
LEMMA RoundOfMultiple ==
  ASSUME NEW k \in Nat, NEW d \in Nat \ {0}
  PROVE  RoundHalfEven(k * d, d) = k
<1> DEFINE n == k * d
           q == n \div d
<1>1. n \in Nat
  OBVIOUS
<1>2. q \in Nat /\ n % d \in 0 .. d - 1 /\ n = d * q + (n % d)
  BY <1>1, Euclid
<1>3. q = k
  <2>1. CASE q < k
    <3>1. PICK j \in Nat : k = q + 1 + j
      BY <1>2, <2>1
    <3>2. k * d = d * q + d + d * j /\ d * j \in Nat /\ d * q \in Nat
      BY <1>2, <3>1
    <3>3. QED
      BY <1>2, <3>2
  <2>2. CASE q > k
    <3>1. PICK j \in Nat : q = k + 1 + j
      BY <1>2, <2>2
    <3>2. d * q = k * d + d + d * j /\ d * j \in Nat /\ k * d \in Nat
      BY <1>2, <3>1
    <3>3. QED
      BY <1>2, <3>2
  <2>3. QED
    BY <1>2, <2>1, <2>2
<1>4. n % d = 0
  <2>1. d * q = n
    BY <1>3
  <2>2. QED
    BY <1>1, <1>2, <2>1
<1>5. QED
  BY <1>3, <1>4 DEF RoundHalfEven

-----------------------------------------------------------------------------
(* list.sort(): counting the points that go before each one finds a place    *)
(* for every point.                                                           *)

(* In a finite set ordered by strict inclusion of what lies below, every rank  *)
(* from 1 to the size of the set is somebody's.                                *)
LEMMA EveryRankIsTaken ==
  ASSUME NEW S, IsFiniteSet(S), NEW below \in [S -> SUBSET S],
         \A x \in S : x \in below[x],
         \A x, y \in S : x # y => \/ below[x] \subseteq below[y] /\ y \notin below[x]
                                  \/ below[y] \subseteq below[x] /\ x \notin below[y]
  PROVE  /\ \A x \in S : Cardinality(below[x]) \in 1 .. Cardinality(S)
         /\ \A x, y \in S : Cardinality(below[x]) = Cardinality(below[y]) => x = y
         /\ \A k \in 1 .. Cardinality(S) : \E x \in S : Cardinality(below[x]) = k
<1> DEFINE n == Cardinality(S)
           rank == [x \in S |-> Cardinality(below[x])]
<1>1. n \in Nat
  BY FS_CardinalityType
<1>2. ASSUME NEW x \in S
      PROVE  IsFiniteSet(below[x]) /\ Cardinality(below[x]) \in 1 .. n
  <2>1. below[x] \in SUBSET S
    OBVIOUS
  <2>2. IsFiniteSet(below[x]) /\ Cardinality(below[x]) <= n
    BY <2>1, FS_Subset
  <2>3. Cardinality(below[x]) \in Nat
    BY <2>2, FS_CardinalityType
  <2>4. Cardinality(below[x]) # 0
    BY <2>2, FS_EmptySet
  <2>5. QED
    BY <1>1, <2>2, <2>3, <2>4
<1>3. ASSUME NEW x \in S, NEW y \in S, Cardinality(below[x]) = Cardinality(below[y])
      PROVE  x = y
  <2>1. SUFFICES ASSUME x # y
                 PROVE  FALSE
    OBVIOUS
  <2>2. CASE below[x] \subseteq below[y] /\ y \notin below[x]
    <3>1. below[x] = below[y]
      BY <1>2, <1>3, <2>2, FS_Subset
    <3>2. QED
      BY <2>2, <3>1
  <2>3. CASE below[y] \subseteq below[x] /\ x \notin below[y]
    <3>1. below[y] = below[x]
      BY <1>2, <1>3, <2>3, FS_Subset
    <3>2. QED
      BY <2>3, <3>1
  <2>4. QED
    BY <2>1, <2>2, <2>3
<1>4. rank \in [S -> 1 .. n]
  BY <1>2
<1>5. rank \in Injection(S, 1 .. n)
  <2>1. \A x, y \in S : rank[x] = rank[y] => x = y
    BY <1>3
  <2>2. QED
    BY <1>4, <2>1 DEF Injection, IsInjective
<1>6. IsFiniteSet(1 .. n) /\ Cardinality(1 .. n) = n
  BY <1>1, FS_Interval
<1>7. rank \in Surjection(S, 1 .. n)
  BY <1>5, <1>6, FS_Injection
<1>8. \A k \in 1 .. n : \E x \in S : rank[x] = k
  BY <1>7 DEF Surjection
<1>9. QED
  BY <1>2, <1>3, <1>8

(* The places from the first to i's own, as the sort counts them. *)
UpTo(pts, i) == {j \in DOMAIN pts : \/ Temp(pts[j]) < Temp(pts[i])
                                    \/ Temp(pts[j]) = Temp(pts[i]) /\ j <= i}

Place(pts, i) == Cardinality(UpTo(pts, i))

LEMMA FirstNumbers == \A n \in Nat : IsFiniteSet(1 .. n) /\ Cardinality(1 .. n) = n
  BY FS_Interval

LEMMA ListOfPoints ==
  ASSUME NEW pts \in Points
  PROVE  /\ Len(pts) \in Nat /\ DOMAIN pts = 1 .. Len(pts)
         /\ pts \in [1 .. Len(pts) -> Int \X Int]
         /\ \A i \in DOMAIN pts : i \in Int /\ Temp(pts[i]) \in Int /\ Duty(pts[i]) \in Int
         /\ IsFiniteSet(DOMAIN pts) /\ Cardinality(DOMAIN pts) = Len(pts)
<1>1. /\ Len(pts) \in Nat /\ DOMAIN pts = 1 .. Len(pts)
      /\ pts \in [1 .. Len(pts) -> Int \X Int]
  BY LenProperties DEF Points
<1>2. \A n \in Nat : IsFiniteSet(1 .. n) /\ Cardinality(1 .. n) = n
  BY FirstNumbers
<1>3. \A i \in DOMAIN pts : i \in Int /\ Temp(pts[i]) \in Int /\ Duty(pts[i]) \in Int
  BY <1>1 DEF Temp, Duty
<1>4. QED
  BY <1>1, <1>2, <1>3

LEMMA PlacesAreRanks ==
  ASSUME NEW pts \in Points
  PROVE  /\ \A i \in DOMAIN pts : Place(pts, i) \in DOMAIN pts
         /\ \A i, j \in DOMAIN pts : Place(pts, i) = Place(pts, j) => i = j
         /\ \A k \in DOMAIN pts : \E i \in DOMAIN pts : Place(pts, i) = k
<1> DEFINE S == DOMAIN pts
           below == [i \in S |-> UpTo(pts, i)]
<1>1. Len(pts) \in Nat /\ S = 1 .. Len(pts) /\ pts \in [S -> Int \X Int]
  BY ListOfPoints
<1>2. IsFiniteSet(S) /\ Cardinality(S) = Len(pts)
  BY ListOfPoints
<1>3. \A i \in S : Temp(pts[i]) \in Int /\ i \in Int
  BY ListOfPoints
<1>4. below \in [S -> SUBSET S]
  BY DEF UpTo
<1>5. \A i \in S : i \in below[i]
  BY <1>3 DEF UpTo
<1>6. ASSUME NEW i \in S, NEW j \in S, i # j
      PROVE  \/ below[i] \subseteq below[j] /\ j \notin below[i]
             \/ below[j] \subseteq below[i] /\ i \notin below[j]
  <2>1. CASE Temp(pts[i]) < Temp(pts[j]) \/ (Temp(pts[i]) = Temp(pts[j]) /\ i < j)
    <3>1. UpTo(pts, i) \subseteq UpTo(pts, j) /\ j \notin UpTo(pts, i)
      BY <1>3, <2>1 DEF UpTo
    <3>2. QED
      BY <3>1
  <2>2. CASE Temp(pts[j]) < Temp(pts[i]) \/ (Temp(pts[j]) = Temp(pts[i]) /\ j < i)
    <3>1. UpTo(pts, j) \subseteq UpTo(pts, i) /\ i \notin UpTo(pts, j)
      BY <1>3, <2>2 DEF UpTo
    <3>2. QED
      BY <3>1
  <2>3. /\ Temp(pts[i]) \in Int /\ Temp(pts[j]) \in Int /\ i \in Int /\ j \in Int
    BY <1>3
  <2> HIDE DEF below
  <2>4. \/ Temp(pts[i]) < Temp(pts[j])
        \/ Temp(pts[i]) = Temp(pts[j]) /\ i < j
        \/ Temp(pts[j]) < Temp(pts[i])
        \/ Temp(pts[j]) = Temp(pts[i]) /\ j < i
    BY <1>6, <2>3
  <2>5. QED
    BY <2>1, <2>2, <2>4
<1> HIDE DEF below
<1>7. /\ \A i \in S : Cardinality(below[i]) \in 1 .. Cardinality(S)
      /\ \A i, j \in S : Cardinality(below[i]) = Cardinality(below[j]) => i = j
      /\ \A k \in 1 .. Cardinality(S) : \E i \in S : Cardinality(below[i]) = k
  BY <1>2, <1>4, <1>5, <1>6, EveryRankIsTaken
<1>8. QED
  BY <1>1, <1>2, <1>7 DEF below, Place

(* The sort gives the same points, each once, in order of temperature, and in  *)
(* the order they were given where temperatures are equal: at[k] is where the  *)
(* k-th of them stood.                                                          *)
LEMMA SortIsStable ==
  ASSUME NEW pts \in Points
  PROVE  \E at \in Bijection(DOMAIN pts, DOMAIN pts) :
           /\ SortedByTemp(pts) = [k \in DOMAIN pts |-> pts[at[k]]]
           /\ \A k, l \in DOMAIN pts : k < l =>
                \/ Temp(pts[at[k]]) < Temp(pts[at[l]])
                \/ Temp(pts[at[k]]) = Temp(pts[at[l]]) /\ at[k] < at[l]
<1> DEFINE S == DOMAIN pts
           at == [k \in S |-> CHOOSE i \in S : Place(pts, i) = k]
<1>1. \A i \in S : i \in Int /\ Temp(pts[i]) \in Int
  BY ListOfPoints
<1>2. \A k \in S : at[k] \in S /\ Place(pts, at[k]) = k
  BY PlacesAreRanks
<1>3. \A i \in S : at[Place(pts, i)] = i
  BY <1>2, PlacesAreRanks
<1>4. at \in Bijection(S, S)
  <2>1. at \in [S -> S] /\ \A k, l \in S : at[k] = at[l] => k = l
    BY <1>2
  <2>2. \A i \in S : \E k \in S : at[k] = i
    BY <1>3, PlacesAreRanks
  <2>3. QED
    BY <2>1, <2>2 DEF Bijection, Injection, Surjection, IsInjective
<1>5. SortedByTemp(pts) = [k \in S |-> pts[at[k]]]
  BY DEF SortedByTemp, Place, UpTo
<1>6. ASSUME NEW k \in S, NEW l \in S, k < l
      PROVE  \/ Temp(pts[at[k]]) < Temp(pts[at[l]])
             \/ Temp(pts[at[k]]) = Temp(pts[at[l]]) /\ at[k] < at[l]
  <2> DEFINE i == at[k]
             j == at[l]
  <2>1. i \in S /\ j \in S /\ Place(pts, i) = k /\ Place(pts, j) = l
    BY <1>2
  <2>2. /\ Temp(pts[i]) \in Int /\ Temp(pts[j]) \in Int /\ i \in Int /\ j \in Int
        /\ k \in Int /\ l \in Int
    BY <1>1, <2>1
  <2> HIDE DEF at, i, j
  <2>3. SUFFICES ASSUME Temp(pts[j]) < Temp(pts[i]) \/ (Temp(pts[j]) = Temp(pts[i]) /\ j <= i)
                 PROVE  FALSE
    <3>1. \/ Temp(pts[i]) < Temp(pts[j])
          \/ Temp(pts[i]) = Temp(pts[j]) /\ i < j
          \/ Temp(pts[j]) < Temp(pts[i])
          \/ Temp(pts[j]) = Temp(pts[i]) /\ j <= i
      BY <2>2
    <3>2. QED
      BY <3>1 DEF i, j
  <2>4. UpTo(pts, j) \in SUBSET UpTo(pts, i)
    BY <1>1, <2>1, <2>2, <2>3 DEF UpTo
  <2>5. IsFiniteSet(UpTo(pts, i))
    <3>1. UpTo(pts, i) \in SUBSET S
      BY DEF UpTo
    <3>2. QED
      BY <3>1, ListOfPoints, FS_Subset
  <2>6. l <= k
    BY <2>1, <2>4, <2>5, FS_Subset DEF Place
  <2>7. QED
    BY <1>6, <2>2, <2>6
<1>7. QED
  BY <1>4, <1>5, <1>6

-----------------------------------------------------------------------------
(* normalize() *)

LEMMA ClampIsInRange ==
  ASSUME NEW n \in Int
  PROVE  Clamp100(n) \in 0 .. 100 /\ (n \in 0 .. 100 => Clamp100(n) = n)
  BY DEF Clamp100, Larger, Smaller

LEMMA ClampedIsOnTheGrid ==
  ASSUME NEW points \in Points
  PROVE  Clamped(points) \in Seq(Grid) /\ Len(Clamped(points)) = Len(points)
<1>1. Len(points) \in Nat /\ DOMAIN points = 1 .. Len(points)
  BY ListOfPoints
<1>2. Clamped(points) \in [1 .. Len(points) -> Grid]
  BY <1>1, ListOfPoints, ClampIsInRange DEF Clamped, Grid
<1>3. QED
  BY <1>1, <1>2, SeqDef

LEMMA GridPointsArePoints ==
  ASSUME NEW pts \in Seq(Grid)
  PROVE  /\ pts \in Points
         /\ Len(pts) \in Nat /\ pts \in [1 .. Len(pts) -> Grid] /\ DOMAIN pts = 1 .. Len(pts)
<1>1. Grid \subseteq Int \X Int
  <2>1. 0 .. 100 \subseteq Int
    OBVIOUS
  <2>2. QED
    BY <2>1 DEF Grid
<1>2. QED
  BY <1>1, SeqMonotonic, LenProperties DEF Points

LEMMA SortedIsOnTheGrid ==
  ASSUME NEW pts \in Seq(Grid)
  PROVE  SortedByTemp(pts) \in Seq(Grid) /\ Len(SortedByTemp(pts)) = Len(pts)
<1>1. pts \in Points /\ Len(pts) \in Nat /\ pts \in [1 .. Len(pts) -> Grid] /\ DOMAIN pts = 1 .. Len(pts)
  BY GridPointsArePoints
<1>2. PICK at \in Bijection(DOMAIN pts, DOMAIN pts) : SortedByTemp(pts) = [k \in DOMAIN pts |-> pts[at[k]]]
  BY <1>1, SortIsStable
<1>3. at \in [DOMAIN pts -> DOMAIN pts]
  BY DEF Bijection, Injection
<1>4. SortedByTemp(pts) \in [1 .. Len(pts) -> Grid]
  BY <1>1, <1>2, <1>3
<1>5. QED
  BY <1>1, <1>4, SeqDef

(* The list of at least one point that is left to reduce or pad. *)
LEMMA ReducedIsOnTheGrid ==
  ASSUME NEW pts \in Seq(Grid), pts # <<>>
  PROVE  Reduced(pts) \in Seq(Grid) /\ Len(Reduced(pts)) \in Nat \ {0}
<1> DEFINE n == Len(pts)
           kept == {1 + RoundHalfEven(i * (n - 1), POINTS - 1) : i \in 0 .. POINTS - 1}
           nth(k) == CHOOSE i \in kept : Cardinality({j \in kept : j <= i}) = k
           m == Cardinality(kept)
<1>1. n \in Nat \ {0} /\ pts \in [1 .. n -> Grid]
  BY EmptySeq, LenProperties
<1>2. CASE n <= POINTS
  BY <1>1, <1>2 DEF Reduced, POINTS
<1>3. CASE n > POINTS
  <2>1. \A i \in 0 .. 4 : i * (n - 1) \in Nat /\ i * (n - 1) <= (n - 1) * 4
    BY <1>1
  <2>2. \A i \in 0 .. 4 : RoundHalfEven(i * (n - 1), 4) \in 0 .. n - 1
    <3>1. n - 1 \in Nat /\ (n - 1) * 4 \in Nat
      BY <1>1
    <3>2. RoundHalfEven((n - 1) * 4, 4) = n - 1
      BY <3>1, RoundOfMultiple
    <3>3. SUFFICES ASSUME NEW i \in 0 .. 4
                   PROVE  RoundHalfEven(i * (n - 1), 4) \in 0 .. n - 1
      OBVIOUS
    <3>4. i * (n - 1) \in Nat /\ i * (n - 1) <= (n - 1) * 4
      BY <2>1
    <3>5. RoundHalfEven(i * (n - 1), 4) <= RoundHalfEven((n - 1) * 4, 4)
      BY <3>1, <3>4, RoundRises
    <3>6. RoundHalfEven(i * (n - 1), 4) \in Nat
      <4>1. 4 \in Nat \ {0}
        OBVIOUS
      <4>2. \A x \in Nat : RoundHalfEven(x, 4) \in Nat
        BY <4>1, RoundIsNat, Zenon
      <4>3. QED
        BY <3>4, <4>2
    <3>7. QED
      BY <3>1, <3>2, <3>5, <3>6
  <2>3. kept \in SUBSET (1 .. n)
    <3>1. \A k \in 0 .. n - 1 : 1 + k \in 1 .. n
      BY <1>1
    <3>2. kept = {1 + RoundHalfEven(i * (n - 1), 4) : i \in 0 .. 4}
      BY DEF POINTS
    <3> HIDE DEF kept
    <3>3. QED
      BY <2>2, <3>1, <3>2
  <2>4. IsFiniteSet(kept)
    <3>1. IsFiniteSet(1 .. n)
      BY <1>1, FS_Interval
    <3>2. QED
      BY <2>3, <3>1, FS_Subset
  <2>5. kept # {}
    BY DEF POINTS
  <2> HIDE DEF kept
  <2>6. m \in Nat \ {0}
    BY <2>4, <2>5, FS_CardinalityType, FS_EmptySet
  <2>7. \A k \in 1 .. m : \E i \in kept : Cardinality({j \in kept : j <= i}) = k
    <3> DEFINE below == [i \in kept |-> {j \in kept : j <= i}]
    <3>1. below \in [kept -> SUBSET kept] /\ \A i \in kept : i \in below[i]
      BY <2>3
    <3>2. ASSUME NEW i \in kept, NEW j \in kept, i # j
          PROVE  \/ below[i] \subseteq below[j] /\ j \notin below[i]
                 \/ below[j] \subseteq below[i] /\ i \notin below[j]
      <4>1. i \in Int /\ j \in Int /\ \A l \in kept : l \in Int
        BY <2>3
      <4>2. CASE i < j
        <5>1. ~(j <= i) /\ \A l \in kept : l <= i => l <= j
          BY <4>1, <4>2
        <5>2. QED
          BY <5>1, Zenon
      <4>3. CASE j < i
        <5>1. ~(i <= j) /\ \A l \in kept : l <= j => l <= i
          BY <4>1, <4>3
        <5>2. QED
          BY <5>1, Zenon
      <4>4. QED
        BY <3>2, <4>1, <4>2, <4>3
    <3> HIDE DEF below
    <3>3. \A k \in 1 .. m : \E i \in kept : Cardinality(below[i]) = k
      BY <2>4, <3>1, <3>2, EveryRankIsTaken
    <3>4. QED
      BY <3>3 DEF below
  <2>8. \A k \in 1 .. m : nth(k) \in 1 .. n
    BY <2>3, <2>7
  <2> HIDE DEF nth, m
  <2>9. Reduced(pts) = [k \in 1 .. m |-> pts[nth(k)]]
    BY <1>1, <1>3 DEF Reduced, kept, nth, m
  <2>10. Reduced(pts) \in [1 .. m -> Grid]
    BY <1>1, <2>8, <2>9
  <2>11. QED
    BY <2>6, <2>10, SeqDef
<1>4. QED
  BY <1>1, <1>2, <1>3 DEF POINTS

LEMMA FunctionsAreLists ==
  ASSUME NEW S, NEW n \in Nat, NEW f \in [1 .. n -> S] PROVE f \in Seq(S)
  BY SeqDef

(* Two ways to write a list of five points. *)
LEMMA FivePoints ==
  ASSUME NEW pts \in [1 .. POINTS -> Int \X Int]
  PROVE  /\ pts \in Points /\ Len(pts) = POINTS /\ DOMAIN pts = 1 .. POINTS
         /\ \A i \in 1 .. POINTS : /\ Temp(pts[i]) \in Int /\ Duty(pts[i]) \in Int
                                   /\ pts[i] = <<Temp(pts[i]), Duty(pts[i])>>
<1>1. pts \in Points
  <2>1. POINTS \in Nat
    BY DEF POINTS
  <2>2. QED
    BY <2>1, FunctionsAreLists, ZenonT(30) DEF Points
<1>2. Len(pts) \in Nat /\ DOMAIN pts = 1 .. Len(pts) /\ DOMAIN pts = 1 .. 5
  <2>1. Len(pts) \in Nat /\ DOMAIN pts = 1 .. Len(pts)
    BY <1>1, ListOfPoints
  <2>2. DOMAIN pts = 1 .. 5
    BY DEF POINTS
  <2>3. QED
    BY <2>1, <2>2
<1>3. Len(pts) = 5
  <2>1. Cardinality(1 .. 5) = 5
    BY FirstNumbers
  <2>2. QED
    BY <1>1, <1>2, <2>1, ListOfPoints
<1>4. QED
  BY <1>1, <1>2, <1>3 DEF POINTS, Temp, Duty

LEMMA PaddedIsFive ==
  ASSUME NEW pts \in Seq(Grid), Len(pts) \in Nat \ {0}
  PROVE  Padded(pts) \in [1 .. POINTS -> Grid]
<1>1. pts \in [1 .. Len(pts) -> Grid]
  BY LenProperties
<1>2. \A k \in 1 .. POINTS : Smaller(k, Len(pts)) \in 1 .. Len(pts)
  BY DEF Smaller, POINTS
<1>3. QED
  BY <1>1, <1>2 DEF Padded

(* The temperatures of a spaced list, one lift after the other. *)
LEMMA SpacedRises ==
  ASSUME NEW pts \in [1 .. POINTS -> Grid]
  PROVE  /\ Spaced(pts) \in [1 .. POINTS -> Grid]
         /\ \A i \in 1 .. POINTS - 1 : Temp(Spaced(pts)[i]) < Temp(Spaced(pts)[i + 1])
<1> DEFINE T(i) == Temp(pts[i])
           D(i) == Duty(pts[i])
           t1 == Lifted(T(1), -1, 1)
           t2 == Lifted(T(2), t1, 2)
           t3 == Lifted(T(3), t2, 3)
           t4 == Lifted(T(4), t3, 4)
           t5 == Lifted(T(5), t4, 5)
<1>1. \A i \in 1 .. 5 : T(i) \in 0 .. 100 /\ D(i) \in 0 .. 100
  BY DEF Grid, Temp, Duty, POINTS
<1> HIDE DEF T, D
<1>2. t1 \in 0 .. 96
  BY <1>1 DEF Lifted, Larger, Smaller, POINTS
<1> HIDE DEF t1
<1>3. t2 \in 1 .. 97 /\ t1 < t2
  BY <1>1, <1>2 DEF Lifted, Larger, Smaller, POINTS
<1> HIDE DEF t2
<1>4. t3 \in 2 .. 98 /\ t2 < t3
  BY <1>1, <1>3 DEF Lifted, Larger, Smaller, POINTS
<1> HIDE DEF t3
<1>5. t4 \in 3 .. 99 /\ t3 < t4
  BY <1>1, <1>4 DEF Lifted, Larger, Smaller, POINTS
<1> HIDE DEF t4
<1>6. t5 \in 4 .. 100 /\ t4 < t5
  BY <1>1, <1>5 DEF Lifted, Larger, Smaller, POINTS
<1> HIDE DEF t5
<1>7. Spaced(pts) = << <<t1, D(1)>>, <<t2, D(2)>>, <<t3, D(3)>>, <<t4, D(4)>>, <<t5, D(5)>> >>
  BY DEF Spaced, T, D, t1, t2, t3, t4, t5
<1>8. QED
  BY <1>1, <1>2, <1>3, <1>4, <1>5, <1>6, <1>7 DEF Grid, Temp, POINTS

LEMMA RaisedIsACurve ==
  ASSUME NEW pts \in [1 .. POINTS -> Grid],
         \A i \in 1 .. POINTS - 1 : Temp(pts[i]) < Temp(pts[i + 1])
  PROVE  IsCurve(NonDecreasing(pts))
<1> DEFINE T(i) == Temp(pts[i])
           D(i) == Duty(pts[i])
           d1 == Larger(D(1), 0)
           d2 == Larger(D(2), d1)
           d3 == Larger(D(3), d2)
           d4 == Larger(D(4), d3)
           d5 == Larger(D(5), d4)
<1>1. \A i \in 1 .. 5 : T(i) \in 0 .. 100 /\ D(i) \in 0 .. 100
  BY DEF Grid, Temp, Duty, POINTS
<1>2. T(1) < T(2) /\ T(2) < T(3) /\ T(3) < T(4) /\ T(4) < T(5)
  BY DEF POINTS
<1> HIDE DEF T, D
<1>3. /\ d1 \in 0 .. 100 /\ d2 \in 0 .. 100 /\ d3 \in 0 .. 100 /\ d4 \in 0 .. 100 /\ d5 \in 0 .. 100
      /\ d1 <= d2 /\ d2 <= d3 /\ d3 <= d4 /\ d4 <= d5
  <2>1. /\ D(1) \in 0 .. 100 /\ D(2) \in 0 .. 100 /\ D(3) \in 0 .. 100
        /\ D(4) \in 0 .. 100 /\ D(5) \in 0 .. 100
    BY <1>1
  <2>2. d1 \in 0 .. 100
    BY <2>1 DEF Larger
  <2> HIDE DEF d1
  <2>3. d2 \in 0 .. 100 /\ d1 <= d2
    BY <2>1, <2>2 DEF Larger
  <2> HIDE DEF d2
  <2>4. d3 \in 0 .. 100 /\ d2 <= d3
    BY <2>1, <2>3 DEF Larger
  <2> HIDE DEF d3
  <2>5. d4 \in 0 .. 100 /\ d3 <= d4
    BY <2>1, <2>4 DEF Larger
  <2> HIDE DEF d4
  <2>6. d5 \in 0 .. 100 /\ d4 <= d5
    BY <2>1, <2>5 DEF Larger
  <2>7. QED
    BY <2>2, <2>3, <2>4, <2>5, <2>6
<1> HIDE DEF d1, d2, d3, d4, d5
<1>4. NonDecreasing(pts) = << <<T(1), d1>>, <<T(2), d2>>, <<T(3), d3>>, <<T(4), d4>>, <<T(5), d5>> >>
  BY DEF NonDecreasing, T, D, d1, d2, d3, d4, d5
<1>5. QED
  BY <1>1, <1>2, <1>3, <1>4 DEF IsCurve, Temp, Duty, POINTS

(* The stages of normalize(), one after the other. *)
LEMMA NormalizeInStages ==
  ASSUME NEW points
  PROVE  LET sorted == SortedByTemp(Clamped(points))
             filled == IF sorted = <<>> THEN <<<<40, FLOOR_PCT>>>> ELSE sorted
         IN  Normalize(points) = NonDecreasing(Spaced(Padded(Reduced(filled))))
  BY DEF Normalize, The

(* Whatever points a client sends, normalize() gives a valid curve. *)
THEOREM NormalizeGivesACurve ==
  ASSUME NEW points \in Points
  PROVE  IsCurve(Normalize(points))
<1> DEFINE sorted == SortedByTemp(Clamped(points))
           filled == IF sorted = <<>> THEN <<<<40, FLOOR_PCT>>>> ELSE sorted
<1>1. sorted \in Seq(Grid)
  BY ClampedIsOnTheGrid, SortedIsOnTheGrid
<1> HIDE DEF sorted
<1>2. filled \in Seq(Grid) /\ filled # <<>>
  <2>1. CASE sorted = <<>>
    BY <2>1 DEF Grid, FLOOR_PCT
  <2>2. CASE sorted # <<>>
    BY <1>1, <2>2
  <2>3. QED
    BY <2>1, <2>2
<1> HIDE DEF filled
<1>3. Padded(Reduced(filled)) \in [1 .. POINTS -> Grid]
  BY <1>2, ReducedIsOnTheGrid, PaddedIsFive
<1>4. IsCurve(NonDecreasing(Spaced(Padded(Reduced(filled)))))
  BY <1>3, SpacedRises, RaisedIsACurve
<1>5. QED
  BY <1>4, NormalizeInStages DEF filled, sorted

-----------------------------------------------------------------------------
(* normalize() of a curve. *)

LEMMA CurvePoints ==
  ASSUME NEW c, IsCurve(c)
  PROVE  /\ c \in [1 .. POINTS -> Grid] /\ c \in Seq(Grid) /\ c \in Points
         /\ Len(c) = POINTS /\ DOMAIN c = 1 .. POINTS
         /\ \A i \in 1 .. POINTS : /\ Temp(c[i]) \in 0 .. 100 /\ Duty(c[i]) \in 0 .. 100
                                   /\ c[i] = <<Temp(c[i]), Duty(c[i])>>
<1>1. c \in [1 .. POINTS -> Grid]
  BY DEF IsCurve, Grid
<1>2. Grid \subseteq Int \X Int
  <2>1. 0 .. 100 \subseteq Int
    OBVIOUS
  <2>2. QED
    BY <2>1 DEF Grid
<1>3. c \in [1 .. POINTS -> Int \X Int]
  BY <1>1, <1>2
<1>4. \A i \in 1 .. POINTS : /\ Temp(c[i]) \in 0 .. 100 /\ Duty(c[i]) \in 0 .. 100
                             /\ c[i] = <<Temp(c[i]), Duty(c[i])>>
  <2>1. \A p \in Grid : p[1] \in 0 .. 100 /\ p[2] \in 0 .. 100 /\ p = <<p[1], p[2]>>
    BY DEF Grid
  <2>2. \A i \in 1 .. POINTS : c[i] \in Grid
    BY <1>1
  <2>3. QED
    BY <2>1, <2>2, Zenon DEF Temp, Duty
<1>5. c \in Seq(Grid)
  BY <1>1, SeqDef DEF POINTS
<1>6. QED
  BY <1>1, <1>3, <1>4, <1>5, FivePoints

(* The segments of a curve, spelt out. *)
LEMMA CurveSteps ==
  ASSUME NEW c, IsCurve(c)
  PROVE  /\ Temp(c[1]) < Temp(c[2]) /\ Temp(c[2]) < Temp(c[3])
         /\ Temp(c[3]) < Temp(c[4]) /\ Temp(c[4]) < Temp(c[5])
         /\ Duty(c[1]) <= Duty(c[2]) /\ Duty(c[2]) <= Duty(c[3])
         /\ Duty(c[3]) <= Duty(c[4]) /\ Duty(c[4]) <= Duty(c[5])
         /\ \A i \in 1 .. 5 : Temp(c[i]) \in 0 .. 100 /\ Duty(c[i]) \in 0 .. 100
<1>1. \A i \in 1 .. 5 : Temp(c[i]) \in 0 .. 100 /\ Duty(c[i]) \in 0 .. 100
  BY CurvePoints DEF POINTS
<1>2. \A i \in 1 .. 4 : Temp(c[i]) < Temp(c[i + 1]) /\ Duty(c[i]) <= Duty(c[i + 1])
  BY DEF IsCurve, POINTS
<1>3. /\ Temp(c[1]) < Temp(c[1 + 1]) /\ Duty(c[1]) <= Duty(c[1 + 1])
      /\ Temp(c[2]) < Temp(c[2 + 1]) /\ Duty(c[2]) <= Duty(c[2 + 1])
      /\ Temp(c[3]) < Temp(c[3 + 1]) /\ Duty(c[3]) <= Duty(c[3 + 1])
      /\ Temp(c[4]) < Temp(c[4 + 1]) /\ Duty(c[4]) <= Duty(c[4 + 1])
  BY <1>2
<1>4. 1 + 1 = 2 /\ 2 + 1 = 3 /\ 3 + 1 = 4 /\ 4 + 1 = 5
  OBVIOUS
<1>5. Temp(c[1]) < Temp(c[2]) /\ Duty(c[1]) <= Duty(c[2])
  BY <1>3, <1>4
<1>6. Temp(c[2]) < Temp(c[3]) /\ Duty(c[2]) <= Duty(c[3])
  BY <1>3, <1>4
<1>7. Temp(c[3]) < Temp(c[4]) /\ Duty(c[3]) <= Duty(c[4])
  BY <1>3, <1>4
<1>8. Temp(c[4]) < Temp(c[5]) /\ Duty(c[4]) <= Duty(c[5])
  BY <1>3, <1>4
<1>9. QED
  BY <1>1, <1>5, <1>6, <1>7, <1>8

(* A list already in order is left in it. *)
LEMMA SortedCurve ==
  ASSUME NEW c, IsCurve(c)
  PROVE  SortedByTemp(c) = c
<1>1. /\ c \in Points /\ DOMAIN c = 1 .. 5
      /\ c \in [1 .. 5 -> Grid]
  BY CurvePoints DEF POINTS
<1>2. ASSUME NEW i \in 1 .. 5, NEW j \in 1 .. 5, j < i
      PROVE  Temp(c[j]) < Temp(c[i])
  <2>1. \A k \in 1 .. 5 : Temp(c[k]) \in Int
    BY CurveSteps
  <2>2. /\ Temp(c[1]) < Temp(c[2]) /\ Temp(c[2]) < Temp(c[3])
        /\ Temp(c[3]) < Temp(c[4]) /\ Temp(c[4]) < Temp(c[5])
    BY CurveSteps
  <2>3. j \in {1, 2, 3, 4, 5} /\ i \in {1, 2, 3, 4, 5}
    OBVIOUS
  <2>4. QED
    BY <1>2, <2>1, <2>2, <2>3
<1>3. \A i \in 1 .. 5 : Place(c, i) = i
  <2>1. SUFFICES ASSUME NEW i \in 1 .. 5
                 PROVE  Place(c, i) = i
    OBVIOUS
  <2>2. \A j \in 1 .. 5 : Temp(c[j]) \in Int
    BY CurveSteps
  <2>3. UpTo(c, i) = 1 .. i
    BY <1>1, <1>2, <2>2 DEF UpTo
  <2>4. i \in Nat /\ Cardinality(1 .. i) = i
    BY FirstNumbers
  <2>5. QED
    BY <2>3, <2>4 DEF Place
<1>4. \A k \in 1 .. 5 : (CHOOSE i \in 1 .. 5 : Place(c, i) = k) = k
  BY <1>3
<1>5. SortedByTemp(c) = [k \in 1 .. 5 |-> c[CHOOSE i \in 1 .. 5 : Place(c, i) = k]]
  BY <1>1 DEF SortedByTemp, Place, UpTo
<1>6. QED
  BY <1>1, <1>4, <1>5

(* normalize() leaves a valid curve as it is. *)
THEOREM NormalizeKeepsACurve ==
  ASSUME NEW c, IsCurve(c)
  PROVE  Normalize(c) = c
<1>1. /\ c \in [1 .. 5 -> Grid] /\ Len(c) = 5 /\ DOMAIN c = 1 .. 5
      /\ \A i \in 1 .. 5 : /\ Temp(c[i]) \in 0 .. 100 /\ Duty(c[i]) \in 0 .. 100
                           /\ c[i] = <<Temp(c[i]), Duty(c[i])>>
  BY CurvePoints DEF POINTS
<1>2. Clamped(c) = c
  <2>1. \A i \in 1 .. 5 : Clamp100(Temp(c[i])) = Temp(c[i]) /\ Clamp100(Duty(c[i])) = Duty(c[i])
    BY <1>1, ClampIsInRange
  <2>2. QED
    BY <1>1, <2>1 DEF Clamped
<1>3. c # <<>>
  BY <1>1
<1>4. Reduced(c) = c
  BY <1>1 DEF Reduced, POINTS
<1>5. Padded(c) = c
  BY <1>1 DEF Padded, Smaller, POINTS
<1>6. Spaced(c) = c
  <2>1. /\ Lifted(Temp(c[1]), -1, 1) = Temp(c[1])
        /\ Lifted(Temp(c[2]), Temp(c[1]), 2) = Temp(c[2])
        /\ Lifted(Temp(c[3]), Temp(c[2]), 3) = Temp(c[3])
        /\ Lifted(Temp(c[4]), Temp(c[3]), 4) = Temp(c[4])
        /\ Lifted(Temp(c[5]), Temp(c[4]), 5) = Temp(c[5])
    <3>1. /\ Temp(c[1]) \in 0 .. 100 /\ Temp(c[2]) \in 0 .. 100 /\ Temp(c[3]) \in 0 .. 100
          /\ Temp(c[4]) \in 0 .. 100 /\ Temp(c[5]) \in 0 .. 100
      BY CurveSteps
    <3>2. /\ Temp(c[1]) < Temp(c[2]) /\ Temp(c[2]) < Temp(c[3])
          /\ Temp(c[3]) < Temp(c[4]) /\ Temp(c[4]) < Temp(c[5])
      BY CurveSteps
    <3>3. /\ Temp(c[1]) <= 96 /\ Temp(c[2]) <= 97 /\ Temp(c[3]) <= 98
          /\ Temp(c[4]) <= 99
      BY <3>1, <3>2
    <3>4. Lifted(Temp(c[1]), -1, 1) = Temp(c[1])
      BY <3>1, <3>3 DEF Lifted, Larger, Smaller, POINTS
    <3>5. Lifted(Temp(c[2]), Temp(c[1]), 2) = Temp(c[2])
      BY <3>1, <3>2, <3>3 DEF Lifted, Larger, Smaller, POINTS
    <3>6. Lifted(Temp(c[3]), Temp(c[2]), 3) = Temp(c[3])
      BY <3>1, <3>2, <3>3 DEF Lifted, Larger, Smaller, POINTS
    <3>7. Lifted(Temp(c[4]), Temp(c[3]), 4) = Temp(c[4])
      BY <3>1, <3>2, <3>3 DEF Lifted, Larger, Smaller, POINTS
    <3>8. Lifted(Temp(c[5]), Temp(c[4]), 5) = Temp(c[5])
      BY <3>1, <3>2 DEF Lifted, Larger, Smaller, POINTS
    <3>9. QED
      BY <3>4, <3>5, <3>6, <3>7, <3>8
  <2>2. Spaced(c) = <<c[1], c[2], c[3], c[4], c[5]>>
    BY <1>1, <2>1 DEF Spaced
  <2>3. QED
    BY <1>1, <2>2
<1>7. NonDecreasing(c) = c
  <2>1. /\ Larger(Duty(c[1]), 0) = Duty(c[1])
        /\ Larger(Duty(c[2]), Duty(c[1])) = Duty(c[2])
        /\ Larger(Duty(c[3]), Duty(c[2])) = Duty(c[3])
        /\ Larger(Duty(c[4]), Duty(c[3])) = Duty(c[4])
        /\ Larger(Duty(c[5]), Duty(c[4])) = Duty(c[5])
    BY CurveSteps DEF Larger
  <2>2. NonDecreasing(c) = <<c[1], c[2], c[3], c[4], c[5]>>
    BY <1>1, <2>1 DEF NonDecreasing
  <2>3. QED
    BY <1>1, <2>2
<1>8. QED
  BY <1>2, <1>3, <1>4, <1>5, <1>6, <1>7, SortedCurve, NormalizeInStages

-----------------------------------------------------------------------------
(* duty_for() *)

(* On one segment the duty starts at one end, rises, and arrives at the other. *)
LEMMA InterpolateRises ==
  ASSUME NEW p \in Grid, NEW q \in Grid, Temp(p) < Temp(q), Duty(p) <= Duty(q),
         NEW s \in Int, NEW t \in Int, Temp(p) <= s, s <= t, t <= Temp(q)
  PROVE  /\ Interpolate(p, q, s) \in Duty(p) .. Duty(q)
         /\ Interpolate(p, q, s) <= Interpolate(p, q, t)
         /\ Interpolate(p, q, Temp(q)) = Duty(q)
<1> DEFINE span == Temp(q) - Temp(p)
           rise == Duty(q) - Duty(p)
           start == Duty(p) * span
           at(u) == start + rise * (u - Temp(p))
<1>1. /\ Temp(p) \in 0 .. 100 /\ Temp(q) \in 0 .. 100
      /\ Duty(p) \in 0 .. 100 /\ Duty(q) \in 0 .. 100
  BY DEF Grid, Temp, Duty
<1>2. span \in Nat \ {0} /\ rise \in Nat /\ start \in Nat
  <2>1. span \in Nat \ {0}
    BY <1>1
  <2>2. rise \in Nat
    BY <1>1
  <2> HIDE DEF span
  <2>3. Duty(p) \in Nat /\ Duty(p) * span \in Nat
    BY <1>1, <2>1
  <2>4. QED
    BY <2>1, <2>2, <2>3
<1>3. \A u : Interpolate(p, q, u) = RoundHalfEven(at(u), span)
  BY <1>2 DEF Interpolate
<1>4. at(Temp(p)) = Duty(p) * span
  <2>1. Temp(p) - Temp(p) = 0 /\ rise * 0 = 0
    BY <1>1, <1>2
  <2>2. QED
    BY <1>2, <2>1, SMTT(30)
<1>5. at(Temp(q)) = Duty(q) * span
  <2>1. \A a, b, n \in Int : a * n + b * n = (a + b) * n
    OBVIOUS
  <2>2. Duty(p) + rise = Duty(q) /\ Duty(p) \in Int /\ rise \in Int /\ span \in Int
    BY <1>1, <1>2
  <2>3. at(Temp(q)) = Duty(p) * span + rise * span
    OBVIOUS
  <2> HIDE DEF at, rise, span
  <2>4. Duty(p) * span + rise * span = (Duty(p) + rise) * span
    BY <2>1, <2>2
  <2>5. QED
    BY <2>2, <2>3, <2>4
<1>6. ASSUME NEW u \in Int, NEW v \in Int, Temp(p) <= u, u <= v
      PROVE  at(u) \in Nat /\ at(v) \in Nat /\ at(u) <= at(v)
  <2>1. u - Temp(p) \in Nat /\ v - Temp(p) \in Nat /\ v - u \in Nat
    BY <1>1, <1>6
  <2>2. /\ rise * (u - Temp(p)) \in Nat /\ rise * (v - u) \in Nat
        /\ rise * (v - Temp(p)) = rise * (u - Temp(p)) + rise * (v - u)
    BY <1>1, <1>2, <2>1
  <2>3. QED
    BY <1>2, <2>2
<1> HIDE DEF span, at, rise, start
<1>7. /\ at(Temp(p)) \in Nat /\ at(s) \in Nat /\ at(t) \in Nat /\ at(Temp(q)) \in Nat
      /\ at(Temp(p)) <= at(s) /\ at(s) <= at(t) /\ at(s) <= at(Temp(q))
  <2>1. Temp(p) \in Int /\ Temp(q) \in Int /\ Temp(p) <= Temp(p) /\ s <= Temp(q)
    BY <1>1
  <2>2. at(Temp(p)) \in Nat /\ at(s) \in Nat /\ at(Temp(p)) <= at(s)
    BY <1>6, <2>1
  <2>3. at(t) \in Nat /\ at(s) <= at(t)
    BY <1>6
  <2>4. at(Temp(q)) \in Nat /\ at(s) <= at(Temp(q))
    BY <1>6, <2>1
  <2>5. QED
    BY <2>2, <2>3, <2>4
<1>8. /\ RoundHalfEven(at(Temp(p)), span) = Duty(p)
      /\ RoundHalfEven(at(Temp(q)), span) = Duty(q)
  <2>1. Duty(p) \in Nat /\ Duty(q) \in Nat
    BY <1>1
  <2>2. /\ RoundHalfEven(Duty(p) * span, span) = Duty(p)
        /\ RoundHalfEven(Duty(q) * span, span) = Duty(q)
    BY <1>2, <2>1, RoundOfMultiple
  <2>3. QED
    BY <1>4, <1>5, <2>2
<1>9. /\ Duty(p) <= RoundHalfEven(at(s), span)
      /\ RoundHalfEven(at(s), span) <= Duty(q)
      /\ RoundHalfEven(at(s), span) <= RoundHalfEven(at(t), span)
  BY <1>2, <1>7, <1>8, RoundRises
<1>10. RoundHalfEven(at(s), span) \in Nat
  BY <1>2, <1>7, RoundIsNat
<1>11. QED
  BY <1>1, <1>3, <1>8, <1>9, <1>10

(* Between its ends a curve has a segment for every temperature, and the zip   *)
(* loop takes the one that ends there when two meet.                            *)
LEMMA SegmentFound ==
  ASSUME NEW c, IsCurve(c), NEW t \in Int, Temp(c[1]) < t, t < Temp(c[5])
  PROVE  /\ Segment(c, t) \in 1 .. 4
         /\ Temp(c[Segment(c, t)]) < t
         /\ t <= Temp(c[Segment(c, t) + 1])
<1> DEFINE In(i) == Temp(c[i]) <= t /\ t <= Temp(c[i + 1])
           First(i) == In(i) /\ \A j \in 1 .. i - 1 : ~In(j)
<1>1. Len(c) - 1 = 4
  BY CurvePoints DEF POINTS
<1>2. /\ Temp(c[1]) < Temp(c[2]) /\ Temp(c[2]) < Temp(c[3])
      /\ Temp(c[3]) < Temp(c[4]) /\ Temp(c[4]) < Temp(c[5])
      /\ \A i \in 1 .. 5 : Temp(c[i]) \in 0 .. 100
  BY CurveSteps
<1>3. /\ In(1) <=> Temp(c[1]) <= t /\ t <= Temp(c[2])
      /\ In(2) <=> Temp(c[2]) <= t /\ t <= Temp(c[3])
      /\ In(3) <=> Temp(c[3]) <= t /\ t <= Temp(c[4])
      /\ In(4) <=> Temp(c[4]) <= t /\ t <= Temp(c[5])
  OBVIOUS
<1>4. In(1) \/ In(2) \/ In(3) \/ In(4)
  BY <1>2, <1>3
<1> HIDE DEF In
<1>5. \E i \in 1 .. 4 : First(i)
  <2>1. CASE In(1)
    BY <2>1
  <2>2. CASE ~In(1) /\ In(2)
    BY <2>2
  <2>3. CASE ~In(1) /\ ~In(2) /\ In(3)
    BY <2>3
  <2>4. CASE ~In(1) /\ ~In(2) /\ ~In(3) /\ In(4)
    <3>1. \A j \in 1 .. 3 : ~In(j)
      <4>1. 1 .. 3 = {1, 2, 3}
        OBVIOUS
      <4>2. QED
        BY <2>4, <4>1
    <3>2. QED
      BY <2>4, <3>1
  <2>5. QED
    BY <1>4, <2>1, <2>2, <2>3, <2>4
<1>6. PICK i \in 1 .. 4 : i = Segment(c, t) /\ First(i)
  <2>1. Segment(c, t) = CHOOSE i \in 1 .. 4 : First(i)
    BY <1>1 DEF Segment, In
  <2>2. QED
    BY <1>5, <2>1
<1>7. Temp(c[i]) # t
  <2>1. SUFFICES ASSUME Temp(c[i]) = t
                 PROVE  FALSE
    OBVIOUS
  <2>2. i \in 2 .. 4
    BY <1>2, <2>1
  <2>3. i - 1 \in 1 .. i - 1 /\ i - 1 \in 1 .. 3 /\ (i - 1) + 1 = i
    BY <2>2
  <2>4. Temp(c[i - 1]) < Temp(c[i])
    <3>1. i \in {2, 3, 4}
      BY <2>2
    <3>2. QED
      BY <1>2, <3>1
  <2>5. In(i - 1)
    BY <1>2, <2>1, <2>3, <2>4 DEF In
  <2>6. QED
    BY <1>6, <2>3, <2>5
<1>8. QED
  BY <1>2, <1>6, <1>7 DEF In

LEMMA DutyOutside ==
  ASSUME NEW c, IsCurve(c), NEW t \in Int
  PROVE  /\ t <= Temp(c[1]) => DutyFor(c, t) = Duty(c[1])
         /\ t >= Temp(c[5]) => DutyFor(c, t) = Duty(c[5])
<1>1. Len(c) = 5
  BY CurvePoints DEF POINTS
<1>2. Temp(c[1]) \in Int /\ Temp(c[5]) \in Int /\ Temp(c[1]) < Temp(c[5])
  BY CurveSteps, SMTT(30)
<1>3. ASSUME t <= Temp(c[1]) PROVE DutyFor(c, t) = Duty(c[1])
  <2>1. ~(t > Temp(c[1])) /\ ~(t >= Temp(c[5]))
    BY <1>2, <1>3
  <2>2. QED
    BY <1>1, <1>3, <2>1 DEF DutyFor
<1>4. ASSUME t >= Temp(c[5]) PROVE DutyFor(c, t) = Duty(c[5])
  <2>1. t > Temp(c[1]) /\ ~(t <= Temp(c[1]))
    BY <1>2, <1>4
  <2>2. QED
    BY <1>1, <1>4, <2>1 DEF DutyFor
<1>5. QED
  BY <1>3, <1>4

LEMMA DutyInside ==
  ASSUME NEW c, IsCurve(c), NEW t \in Int, Temp(c[1]) < t, t < Temp(c[5])
  PROVE  \E i \in 1 .. 4 :
           /\ Temp(c[i]) < t /\ t <= Temp(c[i + 1])
           /\ DutyFor(c, t) = Interpolate(c[i], c[i + 1], t)
<1>1. Len(c) = 5
  BY CurvePoints DEF POINTS
<1>2. Temp(c[1]) \in Int /\ Temp(c[5]) \in Int
  BY CurveSteps
<1>3. DutyFor(c, t) = Interpolate(c[Segment(c, t)], c[Segment(c, t) + 1], t)
  BY <1>1, <1>2 DEF DutyFor
<1>4. QED
  BY <1>3, SegmentFound

(* The ends of a segment, as InterpolateRises wants them, and the order of     *)
(* all points.                                                                 *)
LEMMA CurveOrder ==
  ASSUME NEW c, IsCurve(c)
  PROVE  /\ \A i \in 1 .. 4 : /\ c[i] \in Grid /\ c[i + 1] \in Grid
                              /\ Temp(c[i]) < Temp(c[i + 1])
                              /\ Duty(c[i]) <= Duty(c[i + 1])
         /\ \A i, j \in 1 .. 5 : i <= j => /\ Temp(c[i]) <= Temp(c[j])
                                           /\ Duty(c[i]) <= Duty(c[j])
<1>1. \A i \in 1 .. 4 : Temp(c[i]) < Temp(c[i + 1]) /\ Duty(c[i]) <= Duty(c[i + 1])
  BY DEF IsCurve, POINTS
<1>2. \A i \in 1 .. 4 : c[i] \in Grid /\ c[i + 1] \in Grid
  BY CurvePoints DEF POINTS
<1>3. ASSUME NEW i \in 1 .. 5, NEW j \in 1 .. 5, i <= j
      PROVE  Temp(c[i]) <= Temp(c[j]) /\ Duty(c[i]) <= Duty(c[j])
  <2>1. \A k \in 1 .. 5 : Temp(c[k]) \in Int /\ Duty(c[k]) \in Int
    BY CurveSteps
  <2>2. /\ Temp(c[1]) < Temp(c[2]) /\ Temp(c[2]) < Temp(c[3])
        /\ Temp(c[3]) < Temp(c[4]) /\ Temp(c[4]) < Temp(c[5])
        /\ Duty(c[1]) <= Duty(c[2]) /\ Duty(c[2]) <= Duty(c[3])
        /\ Duty(c[3]) <= Duty(c[4]) /\ Duty(c[4]) <= Duty(c[5])
    BY CurveSteps
  <2>3. j \in {1, 2, 3, 4, 5} /\ i \in {1, 2, 3, 4, 5}
    OBVIOUS
  <2>4. QED
    BY <1>3, <2>1, <2>2, <2>3
<1>4. QED
  BY <1>1, <1>2, <1>3

(* The duty is a percentage, and never outside the curve's own ends.           *)
LEMMA DutyIsBetweenTheEnds ==
  ASSUME NEW c, IsCurve(c), NEW t \in Int
  PROVE  /\ DutyFor(c, t) \in 0 .. 100
         /\ Duty(c[1]) <= DutyFor(c, t) /\ DutyFor(c, t) <= Duty(c[5])
<1>1. \A i \in 1 .. 5 : Temp(c[i]) \in 0 .. 100 /\ Duty(c[i]) \in 0 .. 100
  BY CurveSteps
<1>2. \A i, j \in 1 .. 5 : i <= j => Duty(c[i]) <= Duty(c[j])
  BY CurveOrder
<1>3. CASE t <= Temp(c[1])
  BY <1>1, <1>2, <1>3, DutyOutside
<1>4. CASE t >= Temp(c[5])
  BY <1>1, <1>2, <1>4, DutyOutside
<1>5. CASE Temp(c[1]) < t /\ t < Temp(c[5])
  <2>1. PICK i \in 1 .. 4 : /\ Temp(c[i]) < t /\ t <= Temp(c[i + 1])
                            /\ DutyFor(c, t) = Interpolate(c[i], c[i + 1], t)
    BY <1>5, DutyInside
  <2>2. i \in 1 .. 5 /\ i + 1 \in 1 .. 5 /\ 1 <= i /\ i + 1 <= 5 /\ Temp(c[i]) <= t
    BY <1>1, <2>1
  <2>3. DutyFor(c, t) \in Duty(c[i]) .. Duty(c[i + 1])
    BY <2>1, <2>2, CurveOrder, InterpolateRises
  <2>4. Duty(c[1]) <= Duty(c[i]) /\ Duty(c[i + 1]) <= Duty(c[5])
    BY <1>2, <2>2
  <2>5. /\ Duty(c[1]) \in 0 .. 100 /\ Duty(c[5]) \in 0 .. 100
        /\ Duty(c[i]) \in 0 .. 100 /\ Duty(c[i + 1]) \in 0 .. 100
    BY <1>1, <2>2
  <2> DEFINE d == DutyFor(c, t)
             low == Duty(c[i])
             high == Duty(c[i + 1])
  <2> HIDE DEF d, low, high
  <2>6. d \in low .. high /\ Duty(c[1]) <= low /\ high <= Duty(c[5])
    BY <2>3, <2>4 DEF d, low, high
  <2>7. low \in 0 .. 100 /\ high \in 0 .. 100
    BY <2>5 DEF low, high
  <2>8. d \in 0 .. 100 /\ Duty(c[1]) <= d /\ d <= Duty(c[5])
    BY <2>5, <2>6, <2>7
  <2> QED
    BY <2>8 DEF d
<1>6. QED
  BY <1>1, <1>3, <1>4, <1>5

(* A hotter component never gets a slower fan. *)
THEOREM DutyRises ==
  ASSUME NEW c, IsCurve(c), NEW s \in Int, NEW t \in Int, s <= t
  PROVE  DutyFor(c, s) <= DutyFor(c, t)
<1>1. \A i \in 1 .. 5 : Temp(c[i]) \in 0 .. 100 /\ Duty(c[i]) \in 0 .. 100
  BY CurveSteps
<1>2. CASE s <= Temp(c[1])
  BY <1>2, DutyOutside, DutyIsBetweenTheEnds
<1>3. CASE t >= Temp(c[5])
  BY <1>3, DutyOutside, DutyIsBetweenTheEnds
<1>4. CASE Temp(c[1]) < s /\ t < Temp(c[5])
  <2>1. PICK i \in 1 .. 4 : /\ Temp(c[i]) < s /\ s <= Temp(c[i + 1])
                            /\ DutyFor(c, s) = Interpolate(c[i], c[i + 1], s)
    BY <1>1, <1>4, DutyInside
  <2>2. PICK j \in 1 .. 4 : /\ Temp(c[j]) < t /\ t <= Temp(c[j + 1])
                            /\ DutyFor(c, t) = Interpolate(c[j], c[j + 1], t)
    BY <1>1, <1>4, DutyInside
  <2>3. /\ i \in 1 .. 5 /\ i + 1 \in 1 .. 5 /\ j \in 1 .. 5 /\ j + 1 \in 1 .. 5
        /\ Temp(c[i]) \in Int /\ Temp(c[j]) \in Int
        /\ Temp(c[i + 1]) \in Int /\ Temp(c[j + 1]) \in Int
    BY <1>1
  <2>4. i <= j
    <3>1. SUFFICES ASSUME j + 1 <= i
                   PROVE  FALSE
      OBVIOUS
    <3>2. Temp(c[j + 1]) <= Temp(c[i])
      BY <2>3, <3>1, CurveOrder
    <3>3. QED
      BY <2>1, <2>2, <2>3, <3>2
  <2>5. CASE i = j
    <3>1. Temp(c[i]) <= s /\ t <= Temp(c[i + 1])
      BY <2>1, <2>2, <2>3, <2>5
    <3>2. Interpolate(c[i], c[i + 1], s) <= Interpolate(c[i], c[i + 1], t)
      BY <3>1, CurveOrder, InterpolateRises
    <3>3. QED
      BY <2>1, <2>2, <2>5, <3>2
  <2>6. CASE i < j
    <3>1. i + 1 <= j /\ Temp(c[i]) <= s /\ Temp(c[j]) <= t
      BY <2>1, <2>2, <2>3, <2>6
    <3>2. DutyFor(c, s) \in Duty(c[i]) .. Duty(c[i + 1])
      BY <2>1, <3>1, CurveOrder, InterpolateRises
    <3>3. DutyFor(c, t) \in Duty(c[j]) .. Duty(c[j + 1])
      BY <2>2, <3>1, CurveOrder, InterpolateRises
    <3>4. Duty(c[i + 1]) <= Duty(c[j])
      BY <2>3, <3>1, CurveOrder
    <3>5. Duty(c[i + 1]) \in Int /\ Duty(c[j]) \in Int
      BY <1>1, <2>3
    <3>6. DutyFor(c, s) <= Duty(c[i + 1]) /\ DutyFor(c, s) \in Int
      BY <3>2
    <3>7. Duty(c[j]) <= DutyFor(c, t) /\ DutyFor(c, t) \in Int
      BY <3>3
    <3>8. QED
      BY <3>4, <3>5, <3>6, <3>7
  <2>7. QED
    BY <2>4, <2>5, <2>6
<1>5. QED
  BY <1>1, <1>2, <1>3, <1>4

(* The duty at a point is the one drawn there. *)
THEOREM DutyAtAPoint ==
  ASSUME NEW c, IsCurve(c), NEW k \in 1 .. 5
  PROVE  DutyFor(c, Temp(c[k])) = Duty(c[k])
<1> DEFINE t == Temp(c[k])
<1>1. \A i \in 1 .. 5 : Temp(c[i]) \in 0 .. 100 /\ Duty(c[i]) \in 0 .. 100
  BY CurveSteps
<1>2. \A i, j \in 1 .. 5 : i <= j => Temp(c[i]) <= Temp(c[j])
  BY CurveOrder
<1>3. t \in Int
  BY <1>1
<1>4. CASE k = 1
  BY <1>3, <1>4, DutyOutside
<1>5. CASE k = 5
  BY <1>3, <1>5, DutyOutside
<1>6. CASE k \in 2 .. 4
  <2>1. Temp(c[1]) < t /\ t < Temp(c[5])
    <3>1. k \in {2, 3, 4}
      BY <1>6
    <3>2. /\ Temp(c[1]) < Temp(c[2]) /\ Temp(c[2]) < Temp(c[3])
          /\ Temp(c[3]) < Temp(c[4]) /\ Temp(c[4]) < Temp(c[5])
          /\ Temp(c[1]) \in Int /\ Temp(c[2]) \in Int /\ Temp(c[3]) \in Int
          /\ Temp(c[4]) \in Int /\ Temp(c[5]) \in Int
      BY CurveSteps
    <3>3. QED
      BY <3>1, <3>2
  <2>2. PICK i \in 1 .. 4 : /\ Temp(c[i]) < t /\ t <= Temp(c[i + 1])
                            /\ DutyFor(c, t) = Interpolate(c[i], c[i + 1], t)
    BY <1>3, <2>1, DutyInside
  <2>3. i \in 1 .. 5 /\ i + 1 \in 1 .. 5
    OBVIOUS
  <2>4. i + 1 <= k
    <3>1. SUFFICES ASSUME k <= i
                   PROVE  FALSE
      OBVIOUS
    <3>2. t <= Temp(c[i])
      BY <1>2, <2>3, <3>1
    <3>3. Temp(c[i]) \in Int
      BY <1>1, <2>3
    <3>4. QED
      BY <1>3, <2>2, <3>2, <3>3
  <2>5. i + 1 = k
    <3>1. SUFFICES ASSUME i + 1 < k
                   PROVE  FALSE
      BY <2>4
    <3>2. k - 1 \in 1 .. 4 /\ k - 1 \in 1 .. 5 /\ i + 1 <= k - 1 /\ (k - 1) + 1 = k
      BY <1>6, <3>1
    <3>3. Temp(c[k - 1]) < t
      BY <3>2, CurveOrder
    <3>4. Temp(c[i + 1]) <= Temp(c[k - 1])
      BY <1>2, <2>3, <3>2
    <3>5. Temp(c[k - 1]) \in Int /\ Temp(c[i + 1]) \in Int
      BY <1>1, <2>3, <3>2
    <3>6. QED
      BY <1>3, <2>2, <3>3, <3>4, <3>5
  <2>6. Interpolate(c[i], c[i + 1], Temp(c[i + 1])) = Duty(c[i + 1])
    <3>1. Temp(c[i]) <= t /\ t <= t /\ t <= Temp(c[i + 1])
      BY <1>1, <1>3, <2>2, <2>3
    <3>2. QED
      BY <1>3, <3>1, CurveOrder, InterpolateRises
  <2>7. QED
    BY <2>2, <2>5, <2>6
<1>7. QED
  BY <1>4, <1>5, <1>6

-----------------------------------------------------------------------------
(* CurveEdit: the round trip, for all lists of points a client may send and *)
(* all places a point may be dragged to.                                    *)

(* The curve is what normalize() made of a list of points. *)
EditIInv == sent \in Points /\ curve = Normalize(sent)

LEMMA CurveIsValid ==
  ASSUME EditIInv
  PROVE  IsCurve(curve)
  BY NormalizeGivesACurve DEF EditIInv

LEMMA InitGivesEditIInv ==
  ASSUME EditInit
  PROVE  EditIInv
  BY EditParameters DEF EditInit, EditIInv, Points

LEMMA MovedIsAList ==
  ASSUME NEW c, IsCurve(c), NEW i \in 1 .. POINTS, NEW p \in Int \X Int
  PROVE  [c EXCEPT ![i] = p] \in Points
<1>1. c \in Points /\ Len(c) = POINTS
  BY CurvePoints
<1>2. QED
  BY <1>1, ExceptSeq DEF Points

(* The editor's bounds leave a dragged point room between its neighbours, the  *)
(* first one as long as the second is above the drawn range's lower end.       *)
LEMMA DraggedIsACurve ==
  ASSUME NEW c, IsCurve(c), NEW i \in 1 .. POINTS, NEW p \in Int \X Int,
         ~(i = 1 /\ Temp(c[2]) <= TEMP_MIN)
  PROVE  IsCurve(Dragged(c, i, p))
<1> DEFINE loT == IF i = 1 THEN TEMP_MIN ELSE Temp(c[i - 1]) + 1
           hiT == IF i = Len(c) THEN TEMP_MAX ELSE Temp(c[i + 1]) - 1
           loD == IF i = 1 THEN 0 ELSE Duty(c[i - 1])
           hiD == IF i = Len(c) THEN 100 ELSE Duty(c[i + 1])
           t == Clamp(Temp(p), loT, Larger(loT, hiT))
           d == Clamp(Duty(p), loD, Larger(loD, hiD))
           new == Dragged(c, i, p)
<1>1. /\ c \in [1 .. 5 -> Grid] /\ Len(c) = 5
      /\ \A k \in 1 .. 5 : Temp(c[k]) \in 0 .. 100 /\ Duty(c[k]) \in 0 .. 100
  BY CurvePoints DEF POINTS
<1>2. \A k \in 1 .. 4 : Temp(c[k]) < Temp(c[k + 1]) /\ Duty(c[k]) <= Duty(c[k + 1])
  BY CurveOrder
<1>3. i \in 1 .. 5 /\ Temp(p) \in Int /\ Duty(p) \in Int
  BY DEF POINTS, Temp, Duty
<1>4. i # 1 => i - 1 \in 1 .. 4 /\ i - 1 \in 1 .. 5 /\ (i - 1) + 1 = i
  BY <1>3
<1>5. i # 5 => i \in 1 .. 4 /\ i + 1 \in 1 .. 5
  BY <1>3
<1>6. i # 1 => /\ Temp(c[i - 1]) < Temp(c[i]) /\ Duty(c[i - 1]) <= Duty(c[i])
               /\ Temp(c[i - 1]) \in 0 .. 100 /\ Duty(c[i - 1]) \in 0 .. 100
  BY <1>1, <1>2, <1>4
<1>7. i # 5 => /\ Temp(c[i]) < Temp(c[i + 1]) /\ Duty(c[i]) <= Duty(c[i + 1])
               /\ Temp(c[i + 1]) \in 0 .. 100 /\ Duty(c[i + 1]) \in 0 .. 100
  BY <1>1, <1>2, <1>5
<1>8. Temp(c[i]) \in 0 .. 100 /\ Duty(c[i]) \in 0 .. 100
  BY <1>1, <1>3
<1>9. i = 1 => TEMP_MIN < Temp(c[i + 1]) /\ i # 5
  BY <1>1, <1>7 DEF TEMP_MIN
<1>10. /\ loT \in 0 .. 100 /\ hiT \in 0 .. 100 /\ loT <= hiT
       /\ loD \in 0 .. 100 /\ hiD \in 0 .. 100 /\ loD <= hiD
  <2>1. Len(c) = 5
    BY <1>1
  <2>2. CASE i = 1
    BY <1>7, <1>9, <2>1, <2>2 DEF TEMP_MIN
  <2>3. CASE i = 5
    BY <1>6, <1>8, <2>1, <2>3 DEF TEMP_MAX
  <2>4. CASE i # 1 /\ i # 5
    <3>1. /\ Temp(c[i - 1]) < Temp(c[i]) /\ Duty(c[i - 1]) <= Duty(c[i])
          /\ Temp(c[i - 1]) \in 0 .. 100 /\ Duty(c[i - 1]) \in 0 .. 100
      BY <1>6, <2>4
    <3>2. /\ Temp(c[i]) < Temp(c[i + 1]) /\ Duty(c[i]) <= Duty(c[i + 1])
          /\ Temp(c[i + 1]) \in 0 .. 100 /\ Duty(c[i + 1]) \in 0 .. 100
      BY <1>7, <2>4
    <3>3. loT = Temp(c[i - 1]) + 1 /\ hiT = Temp(c[i + 1]) - 1
      BY <2>1, <2>4
    <3>4. loD = Duty(c[i - 1]) /\ hiD = Duty(c[i + 1])
      BY <2>1, <2>4
    <3> HIDE DEF loT, hiT, loD, hiD
    <3>5. loT \in 0 .. 100 /\ hiT \in 0 .. 100 /\ loT <= hiT
      <4>1. loT \in 0 .. 100 /\ loT <= Temp(c[i])
        BY <1>8, <3>1, <3>3
      <4>2. hiT \in 0 .. 100 /\ Temp(c[i]) <= hiT
        BY <1>8, <3>2, <3>3
      <4>3. QED
        BY <1>8, <4>1, <4>2
    <3>6. loD \in 0 .. 100 /\ hiD \in 0 .. 100 /\ loD <= hiD
      BY <1>8, <3>1, <3>2, <3>4, SMTT(30)
    <3>7. QED
      BY <3>5, <3>6
  <2>5. QED
    BY <2>2, <2>3, <2>4
<1>11. t \in loT .. hiT /\ d \in loD .. hiD /\ t \in 0 .. 100 /\ d \in 0 .. 100
  <2> HIDE DEF loT, hiT, loD, hiD
  <2>1. QED
    BY <1>3, <1>10 DEF Clamp, Larger, Smaller
<1>12. /\ i # 1 => Temp(c[i - 1]) < t /\ Duty(c[i - 1]) <= d
       /\ i # 5 => t < Temp(c[i + 1]) /\ d <= Duty(c[i + 1])
  <2> HIDE DEF t, d
  <2>1. QED
    BY <1>1, <1>6, <1>7, <1>11
<1> HIDE DEF t, d
<1>13. new = [c EXCEPT ![i] = <<t, d>>]
  BY DEF Dragged, t, d
<1> HIDE DEF loT, hiT, loD, hiD, new
<1>14. <<t, d>> \in Grid /\ Temp(<<t, d>>) = t /\ Duty(<<t, d>>) = d
  BY <1>11 DEF Grid, Temp, Duty
<1>15. /\ new \in [1 .. 5 -> Grid] /\ new[i] = <<t, d>>
       /\ \A k \in 1 .. 5 : k # i => new[k] = c[k]
  BY <1>1, <1>3, <1>13, <1>14
<1>16. ASSUME NEW k \in 1 .. 4
       PROVE  Temp(new[k]) < Temp(new[k + 1]) /\ Duty(new[k]) <= Duty(new[k + 1])
  <2>1. k \in 1 .. 5 /\ k + 1 \in 1 .. 5
    OBVIOUS
  <2>2. CASE k = i
    <3>1. new[k] = <<t, d>> /\ new[k + 1] = c[k + 1] /\ i # 5
      BY <1>15, <2>1, <2>2
    <3>2. QED
      BY <1>12, <1>14, <2>2, <3>1
  <2>3. CASE k + 1 = i
    <3>1. new[k] = c[k] /\ new[k + 1] = <<t, d>> /\ i # 1 /\ k = i - 1
      BY <1>15, <2>1, <2>3
    <3>2. QED
      BY <1>12, <1>14, <3>1
  <2>4. CASE k # i /\ k + 1 # i
    <3>1. new[k] = c[k] /\ new[k + 1] = c[k + 1]
      BY <1>15, <2>1, <2>4
    <3>2. QED
      BY <1>2, <3>1
  <2>5. QED
    BY <2>2, <2>3, <2>4
<1>17. QED
  BY <1>15, <1>16 DEF IsCurve, Grid, POINTS, new

(* Every step sends the daemon a list of points, and the curve is made of it.  *)
LEMMA StepKeepsEditIInv ==
  ASSUME EditIInv, EditNext
  PROVE  EditIInv'
<1>1. IsCurve(curve)
  BY CurveIsValid
<1>2. CASE Restart
  BY <1>1, <1>2, CurvePoints DEF Restart, EditIInv
<1>3. ASSUME NEW i \in 1 .. POINTS, NEW p \in Moves, MovePoint(i, p)
      PROVE  EditIInv'
  <2>1. p \in Int \X Int
    BY EditParameters
  <2>2. QED
    BY <1>1, <1>3, <2>1, MovedIsAList DEF MovePoint, EditIInv
<1>4. ASSUME NEW i \in 1 .. POINTS, NEW p \in Moves, Drag(i, p)
      PROVE  EditIInv'
  <2>1. p \in Int \X Int
    BY EditParameters
  <2>2. \A k \in 1 .. 5 : Temp(curve[k]) \in Int /\ Duty(curve[k]) \in Int
    BY <1>1, CurveSteps
  <2>3. Dragged(curve, i, p) \in Points
    <3> DEFINE loT == IF i = 1 THEN TEMP_MIN ELSE Temp(curve[i - 1]) + 1
               hiT == IF i = Len(curve) THEN TEMP_MAX ELSE Temp(curve[i + 1]) - 1
               loD == IF i = 1 THEN 0 ELSE Duty(curve[i - 1])
               hiD == IF i = Len(curve) THEN 100 ELSE Duty(curve[i + 1])
               q == <<Clamp(Temp(p), loT, Larger(loT, hiT)), Clamp(Duty(p), loD, Larger(loD, hiD))>>
    <3>1. i \in 1 .. 5 /\ Len(curve) = 5 /\ Temp(p) \in Int /\ Duty(p) \in Int
      BY <1>1, <2>1, CurvePoints DEF POINTS, Temp, Duty
    <3>2. /\ i # 1 => i - 1 \in 1 .. 5
          /\ i # 5 => i + 1 \in 1 .. 5
      BY <3>1
    <3>3. loT \in Int /\ hiT \in Int /\ loD \in Int /\ hiD \in Int
      BY <2>2, <3>1, <3>2 DEF TEMP_MIN, TEMP_MAX
    <3>4. q \in Int \X Int
      <4> HIDE DEF loT, hiT, loD, hiD
      <4>1. QED
        BY <3>1, <3>3 DEF Clamp, Larger, Smaller
    <3>5. Dragged(curve, i, p) = [curve EXCEPT ![i] = q]
      BY DEF Dragged
    <3> HIDE DEF q
    <3>6. [curve EXCEPT ![i] = q] \in Points
      BY <1>1, <3>4, MovedIsAList
    <3>7. QED
      BY <3>5, <3>6
  <2>4. QED
    BY <1>4, <2>3 DEF Drag, EditIInv
<1>5. QED
  BY <1>2, <1>3, <1>4 DEF EditNext

LEMMA CurveInvariant == EditSpec => []EditIInv
<1>1. EditIInv /\ UNCHANGED editVars => EditIInv'
  BY DEF EditIInv, editVars
<1>2. EditIInv /\ [EditNext]_editVars => EditIInv'
  BY <1>1, StepKeepsEditIInv
<1>3. EditInit => EditIInv
  BY InitGivesEditIInv
<1>4. QED
  BY <1>2, <1>3, PTL DEF EditSpec

-----------------------------------------------------------------------------
(* Whatever clients send, drag and save, the engine holds a valid curve. *)
THEOREM EngineCurveIsValid == EditSpec => []ValidCurve
<1>1. EditIInv => ValidCurve
  BY CurveIsValid DEF ValidCurve
<1>2. QED
  BY <1>1, CurveInvariant, PTL

(* Its duty rises with the temperature, through its points, from its first     *)
(* duty to its last.                                                            *)
THEOREM DutyRisesThroughThePoints == EditSpec => []RisesThroughItsPoints
<1>1. ASSUME EditIInv
      PROVE  RisesThroughItsPoints
  <2>1. IsCurve(curve)
    BY <1>1, CurveIsValid
  <2>2. \A t \in 0 .. 100 : DutyFor(curve, t) <= DutyFor(curve, t + 1)
    <3>1. SUFFICES ASSUME NEW t \in 0 .. 100
                   PROVE  DutyFor(curve, t) <= DutyFor(curve, t + 1)
      OBVIOUS
    <3>2. t \in Int /\ t + 1 \in Int /\ t <= t + 1
      OBVIOUS
    <3>3. QED
      BY <2>1, <3>2, DutyRises
  <2>3. \A i \in 1 .. POINTS : DutyFor(curve, Temp(curve[i])) = Duty(curve[i])
    BY <2>1, DutyAtAPoint DEF POINTS
  <2>4. 0 <= Temp(curve[1]) /\ 101 >= Temp(curve[5])
    BY <2>1, CurveSteps
  <2>5. DutyFor(curve, 0) = Duty(curve[1]) /\ DutyFor(curve, 101) = Duty(curve[POINTS])
    BY <2>1, <2>4, DutyOutside DEF POINTS
  <2>6. QED
    BY <2>2, <2>3, <2>5 DEF RisesThroughItsPoints
<1>2. QED
  BY <1>1, CurveInvariant, PTL

(* A restart gives back the curve that was saved, however often it is done.    *)
THEOREM RestartsDoNotDrift == EditSpec => RestartKeepsTheCurve
<1>1. ASSUME EditIInv, [EditNext]_editVars
      PROVE  [sent' = curve => curve' = curve]_editVars
  <2>1. IsCurve(curve)
    BY <1>1, CurveIsValid
  <2>2. CASE EditNext
    <3>1. curve' = Normalize(sent')
      BY <2>2 DEF EditNext, Restart, MovePoint, Drag
    <3>2. QED
      BY <2>1, <3>1, NormalizeKeepsACurve
  <2>3. QED
    BY <1>1, <2>2
<1>2. QED
  BY <1>1, CurveInvariant, PTL DEF EditSpec, RestartKeepsTheCurve

(* What a drag draws is what the daemon drives, unless the first point is      *)
(* dragged under a neighbour below the drawn range.                            *)
THEOREM TheEditorDrawsWhatIsDriven == EditSpec => DrawnIsDriven
<1> DEFINE Honest == \A i \in 1 .. POINTS, p \in Moves :
                       Drag(i, p) /\ ~(i = 1 /\ Temp(curve[2]) <= TEMP_MIN) => curve' = sent'
<1>1. ASSUME EditIInv, [EditNext]_editVars
      PROVE  [Honest]_editVars
  <2>1. SUFFICES ASSUME NEW i \in 1 .. POINTS, NEW p \in Moves,
                        Drag(i, p), ~(i = 1 /\ Temp(curve[2]) <= TEMP_MIN)
                 PROVE  curve' = sent'
    OBVIOUS
  <2>2. IsCurve(curve) /\ p \in Int \X Int
    BY <1>1, CurveIsValid, EditParameters
  <2>3. IsCurve(Dragged(curve, i, p))
    BY <2>1, <2>2, DraggedIsACurve
  <2>4. QED
    BY <2>1, <2>3, NormalizeKeepsACurve DEF Drag
<1> HIDE DEF Honest
<1>2. EditSpec => [][Honest]_editVars
  BY <1>1, CurveInvariant, PTL DEF EditSpec
<1>3. QED
  BY <1>2 DEF DrawnIsDriven, Honest

-----------------------------------------------------------------------------
(* ProfileEngine: the floor, how far a fan may lag behind its curve, and what *)
(* the spike filter lets through, whatever is chosen, polled and refused.     *)

Windows == [1 .. Smoothing -> Temps]
Curves == {c \in Points : IsCurve(c)}
Bases == [at : Temps, now : Temps]

(* What the variables hold. *)
Typed ==
    /\ profile \in {FIRMWARE, CUSTOM, MANUAL} \cup Names
    /\ linked \in BOOLEAN
    /\ curves \in [FANS -> Curves] \cup {None}
    /\ curves = None <=> ~Driving
    /\ recent \in [FANS -> Windows \cup {<<>>}]
    /\ lastTemp \in [FANS -> Temps \cup {None}]
    /\ lastDuty \in [FANS -> Duties \cup {None}]
    /\ told \in [FANS -> Duties \cup {None}]
    /\ hot \in [FANS -> BOOLEAN]
    /\ basis \in [FANS -> Bases \cup {None}]

(* The duty believed in is the one told last; a fan that was polled has settled *)
(* somewhere, less than Hysteresis from the temperature it reads now and from   *)
(* the one its held target was computed for, and was told that target, or the   *)
(* floor when that is more; a believed duty has all of this behind it.          *)
Settled(f) ==
    /\ lastTemp[f] # None /\ told[f] # None
    /\ Apart(basis[f].now, lastTemp[f]) < Hysteresis
    /\ Apart(basis[f].at, lastTemp[f]) < Hysteresis
    /\ DutyFor(curves[f], basis[f].at) <= told[f]
    /\ told[f] <= Larger(DutyFor(curves[f], basis[f].at), FloorPct)

FanInv(f) ==
    /\ lastDuty[f] # None => told[f] = lastDuty[f] /\ basis[f] # None
    /\ basis[f] # None => Driving /\ Settled(f)
    /\ hot[f] => told[f] # None /\ told[f] >= FloorPct

IInv == Typed /\ \A f \in FANS : FanInv(f)

LEMMA Constants ==
  Temps \subseteq Int /\ Temps \subseteq Nat /\ None \notin Temps /\ None \notin Duties
<1>1. Temps \subseteq Nat /\ None \notin Nat
  BY ParameterAssumption, Zenon
<1>2. Nat \subseteq Int /\ Duties \subseteq Nat
  BY DEF Duties
<1>3. QED
  BY <1>1, <1>2, Zenon

-----------------------------------------------------------------------------
(* The lower median of a window. *)

LEMMA WindowIsASequence ==
  ASSUME NEW window \in Windows
  PROVE  window \in Seq(Temps) /\ Len(window) = Smoothing /\ DOMAIN window = 1 .. Smoothing
<1>1. Smoothing \in Nat
  BY ParameterAssumption
<1>2. window \in Seq(Temps) /\ DOMAIN window = 1 .. Smoothing
  BY <1>1, SeqDef DEF Windows
<1>3. Len(window) \in Nat /\ DOMAIN window = 1 .. Len(window)
  BY <1>2, LenProperties
<1>4. Cardinality(1 .. Smoothing) = Smoothing /\ Cardinality(1 .. Len(window)) = Len(window)
  BY <1>1, <1>3, FirstNumbers
<1>5. QED
  BY <1>2, <1>3, <1>4

LEMMA PushedIsAWindow ==
  ASSUME NEW window \in Windows \cup {<<>>}, NEW t \in Temps
  PROVE  Pushed(window, t) \in Windows
<1>1. Smoothing \in Nat \ {0}
  BY ParameterAssumption
<1>2. CASE window = <<>>
  BY <1>2 DEF Pushed, Windows
<1>3. CASE window # <<>>
  <2>1. window \in Windows
    BY <1>3
  <2>2. \A i \in 1 .. Smoothing : i < Smoothing => i + 1 \in 1 .. Smoothing
    BY <1>1
  <2>3. \A i \in 1 .. Smoothing : (IF i < Smoothing THEN window[i + 1] ELSE t) \in Temps
    BY <2>1, <2>2 DEF Windows
  <2>4. QED
    BY <1>3, <2>3 DEF Pushed, Windows
<1>4. QED
  BY <1>2, <1>3

AtOrBelow(window, t) == {i \in DOMAIN window : window[i] <= t}
Below(window, t) == {i \in DOMAIN window : window[i] < t}
MedianRank == (Smoothing - 1) \div 2 + 1

(* It is one of the readings, with fewer than half of them below it and at     *)
(* least half at or below it.                                                   *)
LEMMA MedianIsAReading ==
  ASSUME NEW window \in Windows
  PROVE  /\ LowerMedian(window) \in Temps
         /\ \E i \in DOMAIN window : LowerMedian(window) = window[i]
         /\ Cardinality(Below(window, LowerMedian(window))) < MedianRank
         /\ MedianRank <= Cardinality(AtOrBelow(window, LowerMedian(window)))
<1> DEFINE pts == [i \in 1 .. Smoothing |-> <<window[i], 0>>]
           r == MedianRank
<1>1. Smoothing \in Nat \ {0} /\ Temps \subseteq Nat
  BY ParameterAssumption
<1>2. Len(window) = Smoothing /\ DOMAIN window = 1 .. Smoothing
  BY WindowIsASequence
<1>3. \A i \in 1 .. Smoothing : window[i] \in Temps /\ window[i] \in Nat
  BY <1>1 DEF Windows
<1>4. pts \in Points /\ DOMAIN pts = 1 .. Smoothing
  <2>1. pts \in [1 .. Smoothing -> Int \X Int]
    BY <1>3
  <2>2. QED
    BY <1>1, <2>1, SeqDef DEF Points
<1>5. r \in 1 .. Smoothing
  BY <1>1 DEF MedianRank
<1>6. PICK i \in 1 .. Smoothing : Place(pts, i) = r
  BY <1>4, <1>5, PlacesAreRanks
<1> DEFINE t == window[i]
           upTo == {j \in 1 .. Smoothing : window[j] < t \/ (window[j] = t /\ j <= i)}
<1>7. UpTo(pts, i) = upTo
  BY <1>4 DEF UpTo, Temp
<1> HIDE DEF pts
<1>8. Cardinality(upTo) = r
  BY <1>6, <1>7 DEF Place
<1>9. IsFiniteSet(1 .. Smoothing)
  BY <1>1, FirstNumbers
<1>10. Below(window, t) \in SUBSET upTo /\ i \in upTo /\ i \notin Below(window, t)
  BY <1>2, <1>3 DEF Below
<1>11. upTo \in SUBSET AtOrBelow(window, t)
  BY <1>2, <1>3 DEF AtOrBelow
<1>12. IsFiniteSet(upTo) /\ IsFiniteSet(AtOrBelow(window, t)) /\ IsFiniteSet(Below(window, t))
  <2>1. upTo \in SUBSET (1 .. Smoothing) /\ AtOrBelow(window, t) \in SUBSET (1 .. Smoothing)
        /\ Below(window, t) \in SUBSET (1 .. Smoothing)
    BY <1>2 DEF AtOrBelow, Below
  <2>2. QED
    BY <1>9, <2>1, FS_Subset
<1> HIDE DEF upTo
<1>13. Cardinality(Below(window, t)) < r
  <2>1. Cardinality(Below(window, t)) \in Nat /\ r \in Nat
    BY <1>5, <1>12, FS_CardinalityType
  <2>2. Cardinality(Below(window, t)) <= r /\ Cardinality(Below(window, t)) # r
    BY <1>8, <1>10, <1>12, FS_Subset
  <2>3. QED
    BY <2>1, <2>2
<1>14. r <= Cardinality(AtOrBelow(window, t))
  BY <1>8, <1>11, <1>12, FS_Subset
<1>15. t \in {window[j] : j \in DOMAIN window}
  BY <1>2
<1>16. LowerMedian(window) = CHOOSE s \in {window[j] : j \in DOMAIN window} :
                               Cardinality(Below(window, s)) < r /\ r <= Cardinality(AtOrBelow(window, s))
  BY <1>2 DEF LowerMedian, Below, AtOrBelow, MedianRank
<1> HIDE DEF t, r
<1>17. /\ LowerMedian(window) \in {window[j] : j \in DOMAIN window}
       /\ Cardinality(Below(window, LowerMedian(window))) < r
       /\ r <= Cardinality(AtOrBelow(window, LowerMedian(window)))
  BY <1>13, <1>14, <1>15, <1>16
<1>18. QED
  BY <1>2, <1>3, <1>17 DEF r

-----------------------------------------------------------------------------
(* The choices. *)

LEMMA NamesDrive ==
  ASSUME NEW name \in Names
  PROVE  /\ name \notin {FIRMWARE, MANUAL}
         /\ PROFILES[name] \in Curves
<1>1. name \in {"quiet", "balanced", "performance", "max"}
  BY ParameterAssumption DEF PROFILES
<1>2. /\ PROFILES["quiet"] = << <<40, 20>>, <<60, 25>>, <<75, 40>>, <<85, 60>>, <<95, 100>> >>
      /\ PROFILES["balanced"] = << <<40, 25>>, <<55, 35>>, <<70, 55>>, <<85, 80>>, <<95, 100>> >>
      /\ PROFILES["performance"] = << <<40, 40>>, <<55, 55>>, <<70, 75>>, <<85, 95>>, <<95, 100>> >>
      /\ PROFILES["max"] = << <<40, 100>>, <<55, 100>>, <<70, 100>>, <<85, 100>>, <<95, 100>> >>
  BY DEF PROFILES
<1>3. /\ IsCurve(PROFILES["quiet"]) /\ IsCurve(PROFILES["balanced"])
      /\ IsCurve(PROFILES["performance"]) /\ IsCurve(PROFILES["max"])
  <2>1. IsCurve(PROFILES["quiet"])
    BY <1>2 DEF IsCurve, Temp, Duty, POINTS
  <2>2. IsCurve(PROFILES["balanced"])
    BY <1>2 DEF IsCurve, Temp, Duty, POINTS
  <2>3. IsCurve(PROFILES["performance"])
    BY <1>2 DEF IsCurve, Temp, Duty, POINTS
  <2>4. IsCurve(PROFILES["max"])
    BY <1>2 DEF IsCurve, Temp, Duty, POINTS
  <2>5. QED
    BY <2>1, <2>2, <2>3, <2>4
<1>4. IsCurve(PROFILES[name])
  BY <1>1, <1>3
<1>5. QED
  BY <1>1, <1>4, CurvePoints DEF FIRMWARE, MANUAL, Curves

LEMMA NormalizedIsOne ==
  ASSUME NEW points \in Drawn
  PROVE  Normalize(points) \in Curves
<1>1. IsCurve(Normalize(points))
  BY ParameterAssumption, NormalizeGivesACurve DEF Points
<1>2. QED
  BY <1>1, CurvePoints DEF Curves

LEMMA CurvesAreSomething == \A cs \in [FANS -> Curves] : cs # None
  BY ParameterAssumption DEF Curves, Points

(* A choice leaves no reading, no temperature and no duty behind. *)
LEMMA ResetKeepsIInv ==
  ASSUME IInv, ResetState,
         profile' \in {FIRMWARE, CUSTOM, MANUAL} \cup Names, linked' \in BOOLEAN,
         curves' \in [FANS -> Curves] \cup {None}, curves' = None <=> ~Driving'
  PROVE  IInv'
<1>1. /\ recent' = [f \in FANS |-> <<>>] /\ lastTemp' = [f \in FANS |-> None]
      /\ lastDuty' = [f \in FANS |-> None] /\ told' = [f \in FANS |-> None]
      /\ hot' = [f \in FANS |-> FALSE] /\ basis' = [f \in FANS |-> None]
  BY DEF ResetState, OnBoth
<1>2. Typed'
  BY <1>1 DEF Typed
<1>3. \A f \in FANS : FanInv(f)'
  BY <1>1 DEF FanInv
<1>4. QED
  BY <1>2, <1>3 DEF IInv

LEMMA ChoiceKeepsIInv ==
  ASSUME IInv, Choose
  PROVE  IInv'
<1>1. /\ profile \in {FIRMWARE, CUSTOM, MANUAL} \cup Names /\ linked \in BOOLEAN
      /\ curves \in [FANS -> Curves] \cup {None}
  BY DEF IInv, Typed
<1>2. CASE SetFirmware
  BY <1>1, <1>2, ResetKeepsIInv DEF SetFirmware, Driving
<1>3. CASE SetManual
  BY <1>1, <1>3, ResetKeepsIInv DEF SetManual, Driving
<1>4. CASE SelectCustom
  <2>1. /\ profile' = CUSTOM /\ linked' = linked /\ curves' = curves /\ curves # None /\ ResetState
    BY <1>4 DEF SelectCustom
  <2>2. Driving'
    BY <2>1 DEF Driving, FIRMWARE, MANUAL, CUSTOM
  <2>3. QED
    BY <1>1, <2>1, <2>2, ResetKeepsIInv
<1>5. ASSUME NEW name \in Names, SetBuiltin(name)
      PROVE  IInv'
  <2>1. /\ profile' = name /\ linked' = linked /\ curves' = [f \in FANS |-> PROFILES[name]] /\ ResetState
    BY <1>5 DEF SetBuiltin, OnBoth
  <2>2. curves' \in [FANS -> Curves] /\ curves' # None
    BY <2>1, NamesDrive, CurvesAreSomething
  <2>3. Driving'
    BY <2>1, NamesDrive DEF Driving
  <2>4. QED
    BY <1>1, <2>1, <2>2, <2>3, ResetKeepsIInv
<1>6. ASSUME NEW cpu \in Drawn, NEW gpu \in Drawn, NEW lk \in BOOLEAN, SetCustom(cpu, gpu, lk)
      PROVE  IInv'
  <2>1. /\ profile' = CUSTOM /\ linked' = lk /\ ResetState
        /\ curves' = [f \in FANS |-> IF f = CPU_FAN \/ lk THEN Normalize(cpu) ELSE Normalize(gpu)]
    BY <1>6 DEF SetCustom
  <2>2. curves' \in [FANS -> Curves] /\ curves' # None
    BY <2>1, NormalizedIsOne, CurvesAreSomething
  <2>3. Driving'
    BY <2>1 DEF Driving, FIRMWARE, MANUAL, CUSTOM
  <2>4. QED
    BY <2>1, <2>2, <2>3, ResetKeepsIInv
<1>7. ASSUME NEW which \in FANS, NEW points \in Drawn, NEW lk \in BOOLEAN,
             SetOneCurve(which, points, lk)
      PROVE  IInv'
  <2> DEFINE new == Normalize(points)
  <2>1. /\ profile' = CUSTOM /\ linked' = lk /\ ResetState
        /\ curves' = [f \in FANS |-> IF lk \/ f = which THEN new ELSE Kept(f, new)]
    BY <1>7 DEF SetOneCurve, Edited
  <2>2. \A f \in FANS : Kept(f, new) \in Curves
    BY <1>1, NormalizedIsOne DEF Kept
  <2>3. new \in Curves
    BY NormalizedIsOne
  <2> HIDE DEF new
  <2>4. curves' \in [FANS -> Curves] /\ curves' # None
    BY <2>1, <2>2, <2>3, CurvesAreSomething
  <2>5. Driving'
    BY <2>1 DEF Driving, FIRMWARE, MANUAL, CUSTOM
  <2>6. QED
    BY <2>1, <2>4, <2>5, ResetKeepsIInv
<1>8. QED
  BY <1>2, <1>3, <1>4, <1>5, <1>6, <1>7 DEF Choose

-----------------------------------------------------------------------------
(* decide(). *)

(* The temperature the curve reads is one of the last readings. *)
LEMMA CurveTempIsAReading ==
  ASSUME NEW window \in Windows, NEW src \in Temps
  PROVE  CurveTemp(window, src) \in Temps
  BY MedianIsAReading DEF CurveTemp

(* The temperature the held target is computed for. *)
At(f, ct) == IF Fresh(f, ct) THEN ct ELSE basis[f].at

(* The target is what the curve asks for there, or the floor when that is more. *)
LEMMA TargetIsTheCurves ==
  ASSUME IInv, Driving, NEW f \in FANS, NEW ct \in Temps, NEW src \in Temps, NEW cpu \in Temps
  PROVE  LET asked == DutyFor(curves[f], At(f, ct))
             target == Target(f, ct, src, cpu)
         IN  /\ At(f, ct) \in Temps
             /\ target \in Duties
             /\ asked <= target /\ target <= Larger(asked, FloorPct)
             /\ Larger(src, cpu) >= FloorTemp => target >= FloorPct
             /\ ~(Larger(src, cpu) >= FloorTemp) => target = CurveTarget(f, ct)
<1> DEFINE asked == DutyFor(curves[f], At(f, ct))
           goal == CurveTarget(f, ct)
<1>1. /\ IsCurve(curves[f]) /\ Temps \subseteq Nat /\ FloorPct \in 0 .. 100 /\ FloorTemp \in Nat
      /\ lastDuty[f] \in Duties \cup {None} /\ basis[f] \in Bases \cup {None}
  BY ParameterAssumption DEF IInv, Typed, Curves
<1>2. At(f, ct) \in Temps /\ goal \in Duties /\ asked <= goal /\ goal <= Larger(asked, FloorPct)
  <2>1. CASE Fresh(f, ct)
    <3>1. At(f, ct) = ct /\ goal = DutyFor(curves[f], ct) /\ ct \in Int
      BY <1>1, <2>1 DEF At, CurveTarget
    <3>2. goal \in 0 .. 100
      BY <1>1, <3>1, DutyIsBetweenTheEnds
    <3>3. QED
      BY <1>1, <3>1, <3>2 DEF Duties, Larger
  <2>2. CASE ~Fresh(f, ct)
    <3>1. lastDuty[f] # None /\ goal = lastDuty[f] /\ At(f, ct) = basis[f].at
      BY <2>2 DEF At, CurveTarget, Fresh
    <3>2. told[f] = lastDuty[f] /\ basis[f] # None /\ Settled(f)
      BY <3>1 DEF IInv, FanInv
    <3>3. QED
      BY <1>1, <3>1, <3>2 DEF Settled, Bases
  <2>3. QED
    BY <2>1, <2>2
<1>3. asked \in 0 .. 100
  <2>1. At(f, ct) \in Int
    <3>1. At(f, ct) \in Temps
      BY <1>2
    <3>2. QED
      BY <3>1, Constants, Zenon
  <2>2. QED
    BY <1>1, <2>1, DutyIsBetweenTheEnds
<1>4. Larger(src, cpu) \in Nat
  BY <1>1 DEF Larger
<1> HIDE DEF asked, goal
<1>5. Target(f, ct, src, cpu) = IF Larger(src, cpu) >= FloorTemp THEN Larger(goal, FloorPct) ELSE goal
  BY DEF Target, ApplyFloor, goal
<1>6. CASE Larger(src, cpu) >= FloorTemp
  <2>1. Target(f, ct, src, cpu) = Larger(goal, FloorPct)
    BY <1>5, <1>6
  <2>2. /\ Larger(goal, FloorPct) \in Duties /\ asked <= Larger(goal, FloorPct)
        /\ Larger(goal, FloorPct) <= Larger(asked, FloorPct) /\ Larger(goal, FloorPct) >= FloorPct
    BY <1>1, <1>2, <1>3 DEF Larger, Duties
  <2>3. QED
    BY <1>2, <1>6, <2>1, <2>2 DEF asked
<1>7. CASE ~(Larger(src, cpu) >= FloorTemp)
  <2>1. Target(f, ct, src, cpu) = goal
    BY <1>5, <1>7
  <2>2. QED
    BY <1>2, <1>7, <2>1 DEF asked, goal
<1>8. QED
  BY <1>6, <1>7

(* After a poll the fan has settled less than Hysteresis from the temperature  *)
(* the curve reads, and from the one its target is computed for.               *)
LEMMA SettlesNearby ==
  ASSUME IInv, NEW f \in FANS, NEW ct \in Temps
  PROVE  LET rest == IF Moved(f, ct) THEN ct ELSE lastTemp[f]
         IN  rest \in Temps /\ Apart(ct, rest) < Hysteresis /\ Apart(At(f, ct), rest) < Hysteresis
<1> DEFINE rest == IF Moved(f, ct) THEN ct ELSE lastTemp[f]
<1>1. /\ Temps \subseteq Nat /\ Hysteresis \in Nat \ {0}
      /\ lastTemp[f] \in Temps \cup {None} /\ basis[f] \in Bases \cup {None}
  BY ParameterAssumption DEF IInv, Typed
<1>2. Apart(ct, ct) < Hysteresis
  BY <1>1 DEF Apart
<1>3. CASE Moved(f, ct)
  <2>1. rest = ct /\ At(f, ct) = ct
    BY <1>3 DEF Fresh, At
  <2>2. QED
    BY <1>2, <2>1
<1>4. CASE ~Moved(f, ct)
  <2>1. rest = lastTemp[f] /\ lastTemp[f] \in Temps /\ ~(Apart(ct, lastTemp[f]) >= Hysteresis)
    BY <1>1, <1>4 DEF Moved
  <2>2. ct \in Nat /\ rest \in Nat
    BY <1>1, <2>1
  <2>3. Apart(ct, rest) < Hysteresis
    BY <1>1, <2>1, <2>2 DEF Apart
  <2>4. CASE Fresh(f, ct)
    BY <2>1, <2>3, <2>4 DEF At
  <2>5. CASE ~Fresh(f, ct)
    <3>1. lastDuty[f] # None /\ At(f, ct) = basis[f].at
      BY <2>5 DEF Fresh, At
    <3>2. Settled(f)
      BY <3>1 DEF IInv, FanInv
    <3>3. QED
      BY <2>1, <2>3, <3>1, <3>2 DEF Settled
  <2>6. QED
    BY <2>4, <2>5
<1>5. QED
  BY <1>3, <1>4

(* One poll, spelt out: what it leaves of the fan polled, and of the other.    *)
LEMMA PollOutcome ==
  ASSUME IInv, NEW f \in FANS, NEW src \in Temps, NEW cpu \in Temps, Decide(f, src, cpu)
  PROVE  \E window \in Windows, ct \in Temps :
           /\ ct = CurveTemp(window, src)
           /\ recent' = [recent EXCEPT ![f] = window]
           /\ lastTemp' = [lastTemp EXCEPT ![f] = IF Moved(f, ct) THEN ct ELSE lastTemp[f]]
           /\ lastDuty' = [lastDuty EXCEPT ![f] = Target(f, ct, src, cpu)]
           /\ told' = [told EXCEPT ![f] = Target(f, ct, src, cpu)]
           /\ hot' = [hot EXCEPT ![f] = Larger(src, cpu) >= FloorTemp]
           /\ basis' = [basis EXCEPT ![f] = [at |-> At(f, ct), now |-> ct]]
           /\ Driving /\ UNCHANGED choice
<1> DEFINE window == Pushed(recent[f], src)
           ct == CurveTemp(window, src)
           target == Target(f, ct, src, cpu)
<1>1. recent[f] \in Windows \cup {<<>>} /\ Driving
  BY DEF IInv, Typed, Decide
<1>2. window \in Windows
  BY <1>1, PushedIsAWindow
<1>3. ct \in Temps
  BY <1>2, CurveTempIsAReading
<1>4. target # None
  <2> HIDE DEF window, ct
  <2>1. target \in Duties
    BY <1>1, <1>3, TargetIsTheCurves
  <2>2. QED
    BY <2>1, Constants
<1>5. target = lastDuty[f] => told[f] = target
  BY <1>4 DEF IInv, FanInv
<1>6. told' = [told EXCEPT ![f] = IF target = lastDuty[f] THEN told[f] ELSE target]
  BY DEF Decide
<1>7. told' = [told EXCEPT ![f] = target]
  <2> HIDE DEF target
  <2>1. QED
    BY <1>5, <1>6
<1>8. /\ recent' = [recent EXCEPT ![f] = window]
      /\ lastTemp' = [lastTemp EXCEPT ![f] = IF Moved(f, ct) THEN ct ELSE lastTemp[f]]
      /\ lastDuty' = [lastDuty EXCEPT ![f] = target]
      /\ hot' = [hot EXCEPT ![f] = Larger(src, cpu) >= FloorTemp]
      /\ basis' = [basis EXCEPT ![f] = [at |-> At(f, ct), now |-> ct]]
      /\ UNCHANGED choice
  BY DEF Decide, At
<1>9. QED
  BY <1>1, <1>2, <1>3, <1>7, <1>8

LEMMA PollKeepsIInv ==
  ASSUME IInv, NEW f \in FANS, NEW src \in Temps, NEW cpu \in Temps, Decide(f, src, cpu)
  PROVE  IInv'
<1>1. PICK window \in Windows, ct \in Temps :
           /\ ct = CurveTemp(window, src)
           /\ recent' = [recent EXCEPT ![f] = window]
           /\ lastTemp' = [lastTemp EXCEPT ![f] = IF Moved(f, ct) THEN ct ELSE lastTemp[f]]
           /\ lastDuty' = [lastDuty EXCEPT ![f] = Target(f, ct, src, cpu)]
           /\ told' = [told EXCEPT ![f] = Target(f, ct, src, cpu)]
           /\ hot' = [hot EXCEPT ![f] = Larger(src, cpu) >= FloorTemp]
           /\ basis' = [basis EXCEPT ![f] = [at |-> At(f, ct), now |-> ct]]
           /\ Driving /\ UNCHANGED choice
  BY PollOutcome
<1> DEFINE rest == IF Moved(f, ct) THEN ct ELSE lastTemp[f]
           target == Target(f, ct, src, cpu)
           base == At(f, ct)
<1>2. /\ base \in Temps /\ target \in Duties
      /\ DutyFor(curves[f], base) <= target
      /\ target <= Larger(DutyFor(curves[f], base), FloorPct)
      /\ Larger(src, cpu) >= FloorTemp => target >= FloorPct
  BY <1>1, TargetIsTheCurves
<1>3. rest \in Temps /\ Apart(ct, rest) < Hysteresis /\ Apart(base, rest) < Hysteresis
  BY SettlesNearby
<1> HIDE DEF rest, target, base
<1>4. Typed
  BY DEF IInv
<1>5. /\ recent' = [recent EXCEPT ![f] = window] /\ lastTemp' = [lastTemp EXCEPT ![f] = rest]
      /\ lastDuty' = [lastDuty EXCEPT ![f] = target] /\ told' = [told EXCEPT ![f] = target]
      /\ hot' = [hot EXCEPT ![f] = Larger(src, cpu) >= FloorTemp]
      /\ basis' = [basis EXCEPT ![f] = [at |-> base, now |-> ct]]
      /\ Driving' /\ Driving /\ curves' = curves /\ profile' = profile /\ linked' = linked
  BY <1>1 DEF choice, Driving, rest, target, base
<1>6. Typed'
  <2>1. (Larger(src, cpu) >= FloorTemp) \in BOOLEAN
    OBVIOUS
  <2>2. hot' \in [FANS -> BOOLEAN]
    BY <1>4, <1>5, <2>1 DEF Typed
  <2>3. basis' \in [FANS -> Bases \cup {None}]
    BY <1>2, <1>4, <1>5 DEF Typed, Bases
  <2>4. /\ recent' \in [FANS -> Windows \cup {<<>>}] /\ lastTemp' \in [FANS -> Temps \cup {None}]
        /\ lastDuty' \in [FANS -> Duties \cup {None}] /\ told' \in [FANS -> Duties \cup {None}]
    BY <1>2, <1>3, <1>4, <1>5 DEF Typed
  <2>5. QED
    BY <1>4, <1>5, <2>2, <2>3, <2>4 DEF Typed
<1>7. None \notin Temps /\ None \notin Duties
  BY Constants
<1>8. FanInv(f)'
  <2>1. /\ lastTemp'[f] = rest /\ lastDuty'[f] = target /\ told'[f] = target
        /\ hot'[f] = (Larger(src, cpu) >= FloorTemp)
        /\ basis'[f] = [at |-> base, now |-> ct]
    BY <1>4, <1>5 DEF Typed
  <2>2. rest # None /\ target # None
    BY <1>2, <1>3, <1>7
  <2>3. basis'[f] # None
    BY <1>2, <2>1, ParameterAssumption
  <2>4. basis'[f].at = base /\ basis'[f].now = ct
    BY <2>1
  <2>5. Settled(f)'
    BY <1>2, <1>3, <1>5, <2>1, <2>2, <2>4 DEF Settled, Apart
  <2>6. QED
    BY <1>2, <1>5, <2>1, <2>2, <2>3, <2>5 DEF FanInv
<1>9. ASSUME NEW g \in FANS, g # f
      PROVE  FanInv(g)'
  <2>1. /\ lastTemp'[g] = lastTemp[g] /\ lastDuty'[g] = lastDuty[g] /\ told'[g] = told[g]
        /\ hot'[g] = hot[g] /\ basis'[g] = basis[g] /\ curves'[g] = curves[g]
    BY <1>4, <1>5, <1>9 DEF Typed
  <2>2. FanInv(g)
    BY DEF IInv
  <2>3. QED
    BY <1>5, <2>1, <2>2 DEF FanInv, Settled, Apart
<1>10. QED
  BY <1>6, <1>8, <1>9 DEF IInv

(* A refused write forgets the duties, and nothing else. *)
LEMMA RetryKeepsIInv ==
  ASSUME IInv, RetryNextTick
  PROVE  IInv'
<1>1. /\ lastDuty' = [f \in FANS |-> None] /\ profile' = profile /\ linked' = linked
      /\ curves' = curves /\ recent' = recent /\ lastTemp' = lastTemp /\ told' = told
      /\ hot' = hot /\ basis' = basis
  BY DEF RetryNextTick, OnBoth, choice, history
<1>2. Typed'
  BY <1>1 DEF IInv, Typed, Driving
<1>3. \A f \in FANS : FanInv(f)'
  BY <1>1 DEF IInv, FanInv, Settled, Apart, Driving
<1>4. QED
  BY <1>2, <1>3 DEF IInv

LEMMA StepKeepsIInv ==
  ASSUME IInv, [Next]_vars
  PROVE  IInv'
<1>1. CASE Choose
  BY <1>1, ChoiceKeepsIInv
<1>2. CASE Poll
  <2>1. PICK f \in Polled, src \in Temps, cpu \in Temps : Decide(f, src, cpu)
    BY <1>2 DEF Poll
  <2>2. f \in FANS
    BY ParameterAssumption
  <2>3. QED
    BY <2>1, <2>2, PollKeepsIInv
<1>3. CASE RetryNextTick
  BY <1>3, RetryKeepsIInv
<1>4. CASE UNCHANGED vars
  BY <1>4 DEF vars, IInv, Typed, FanInv, Settled, Apart, Driving
<1>5. QED
  BY <1>1, <1>2, <1>3, <1>4 DEF Next

LEMMA EngineInvariant == Spec => []IInv
<1>1. ASSUME Init
      PROVE  IInv
  <2>1. /\ profile = FIRMWARE /\ linked = TRUE /\ curves = None /\ recent = [f \in FANS |-> <<>>]
        /\ lastTemp = [f \in FANS |-> None] /\ lastDuty = [f \in FANS |-> None]
        /\ told = [f \in FANS |-> None] /\ hot = [f \in FANS |-> FALSE]
        /\ basis = [f \in FANS |-> None]
    BY <1>1 DEF Init, OnBoth
  <2>2. Typed
    BY <2>1 DEF Typed, Driving
  <2>3. \A f \in FANS : FanInv(f)
    BY <2>1 DEF FanInv
  <2>4. QED
    BY <2>2, <2>3 DEF IInv
<1>2. IInv /\ [Next]_vars => IInv'
  BY StepKeepsIInv
<1>3. QED
  BY <1>1, <1>2, PTL DEF Spec

-----------------------------------------------------------------------------
(* The engine's variables stay what they are meant to hold. *)
THEOREM EngineTypes == Spec => []TypeOK
<1>1. IInv => TypeOK
  BY DEF IInv, Typed, TypeOK, Driving, Windows
<1>2. QED
  BY <1>1, EngineInvariant, PTL

(* A fan is told FloorPct or more while its component or the CPU is hot. *)
THEOREM TheFloorHolds == Spec => []FloorHolds
<1>1. IInv => FloorHolds
  BY DEF IInv, FanInv, FloorHolds
<1>2. QED
  BY <1>1, EngineInvariant, PTL

(* What a fan is told lies between what the curve asks Slack degrees below and *)
(* Slack degrees above the temperature it reads now: the held target's         *)
(* temperature is that close, and a curve rises (DutyRises).                   *)
THEOREM TheFanKeepsUp == Spec => []KeepsUpWithTheCurve
<1>1. ASSUME IInv
      PROVE  KeepsUpWithTheCurve
  <2>1. SUFFICES ASSUME NEW f \in FANS, basis[f] # None
                 PROVE  /\ told[f] >= DutyFor(curves[f], basis[f].now - Slack)
                        /\ told[f] <= Larger(DutyFor(curves[f], basis[f].now + Slack), FloorPct)
    BY DEF KeepsUpWithTheCurve
  <2> DEFINE now == basis[f].now
             at == basis[f].at
             rest == lastTemp[f]
             line == curves[f]
  <2>2. Typed /\ Settled(f) /\ Driving
    BY <1>1, <2>1 DEF IInv, FanInv
  <2>3. /\ now \in Nat /\ at \in Nat /\ rest \in Nat /\ Hysteresis \in Nat \ {0}
        /\ FloorPct \in 0 .. 100
    BY <2>1, <2>2, ParameterAssumption DEF Typed, Settled, Bases
  <2>4. IsCurve(line)
    BY <2>2 DEF Typed, Curves
  <2>5. told[f] \in 0 .. 100
    BY <2>2 DEF Typed, Settled, Duties
  <2>6. /\ Apart(now, rest) < Hysteresis /\ Apart(at, rest) < Hysteresis
        /\ DutyFor(line, at) <= told[f] /\ told[f] <= Larger(DutyFor(line, at), FloorPct)
    BY <2>2 DEF Settled
  <2> HIDE DEF now, at, rest, line
  <2>7. now - Slack \in Int /\ now + Slack \in Int /\ now - Slack <= at /\ at <= now + Slack
    BY <2>3, <2>6 DEF Apart, Slack
  <2>8. /\ DutyFor(line, now - Slack) <= DutyFor(line, at)
        /\ DutyFor(line, at) <= DutyFor(line, now + Slack)
    BY <2>3, <2>4, <2>7, DutyRises
  <2>9. /\ DutyFor(line, now - Slack) \in 0 .. 100 /\ DutyFor(line, at) \in 0 .. 100
        /\ DutyFor(line, now + Slack) \in 0 .. 100
    BY <2>3, <2>4, <2>7, DutyIsBetweenTheEnds
  <2>10. /\ told[f] >= DutyFor(line, now - Slack)
         /\ told[f] <= Larger(DutyFor(line, now + Slack), FloorPct)
    <3> DEFINE low == DutyFor(line, now - Slack)
               mid == DutyFor(line, at)
               high == DutyFor(line, now + Slack)
               was == told[f]
    <3>1. /\ low \in 0 .. 100 /\ mid \in 0 .. 100 /\ high \in 0 .. 100 /\ was \in 0 .. 100
          /\ low <= mid /\ mid <= high /\ mid <= was /\ was <= Larger(mid, FloorPct)
          /\ FloorPct \in 0 .. 100
      BY <2>3, <2>5, <2>6, <2>8, <2>9
    <3> HIDE DEF low, mid, high, was
    <3>2. was >= low /\ was <= Larger(high, FloorPct)
      BY <3>1 DEF Larger
    <3>3. QED
      BY <3>2 DEF low, high, was
  <2>11. QED
    BY <2>10 DEF now, line
<1>2. QED
  BY <1>1, EngineInvariant, PTL

-----------------------------------------------------------------------------
(* The spike filter. *)

(* More than half of a window of odd size lies at its lower median or on       *)
(* either side of it.                                                           *)
LEMMA HalfIsBeyondTheMedian ==
  ASSUME NEW window \in Windows, Smoothing % 2 = 1
  PROVE  LET median == LowerMedian(window)
         IN  /\ 2 * Cardinality(AtOrBelow(window, median)) > Smoothing
             /\ 2 * Cardinality({i \in DOMAIN window : window[i] >= median}) > Smoothing
<1> DEFINE median == LowerMedian(window)
           D == DOMAIN window
           low == Below(window, median)
           under == AtOrBelow(window, median)
           over == {i \in D : window[i] >= median}
<1>1. Smoothing \in Nat \ {0}
  BY ParameterAssumption
<1>2. /\ median \in Temps /\ Cardinality(low) < MedianRank /\ MedianRank <= Cardinality(under)
  BY MedianIsAReading
<1> HIDE DEF median
<1>3. D = 1 .. Smoothing /\ IsFiniteSet(D) /\ Cardinality(D) = Smoothing
  BY <1>1, WindowIsASequence, FirstNumbers
<1>4. median \in Int /\ \A i \in D : window[i] \in Int
  BY <1>2, <1>3, Constants DEF Windows
<1>5. over = D \ low /\ D \cap low = low
  BY <1>4 DEF Below
<1>6. low \in SUBSET D /\ under \in SUBSET D
  BY DEF Below, AtOrBelow
<1>7. Cardinality(low) \in Nat /\ Cardinality(under) \in Nat
  BY <1>3, <1>6, FS_Subset, FS_CardinalityType
<1>8. Cardinality(over) = Smoothing - Cardinality(low)
  <2>1. Cardinality(D \ low) = Cardinality(D) - Cardinality(D \cap low)
    BY <1>3, FS_Difference
  <2>2. QED
    BY <1>3, <1>5, <2>1
<1>9. 2 * MedianRank = Smoothing + 1
  BY <1>1 DEF MedianRank
<1>10. MedianRank \in Nat
  BY <1>1 DEF MedianRank
<1>11. 2 * Cardinality(under) > Smoothing /\ 2 * Cardinality(over) > Smoothing
  <2> DEFINE l == Cardinality(low)
             u == Cardinality(under)
             o == Cardinality(over)
  <2> HIDE DEF l, u, o, low, under, over
  <2>1. l \in Nat /\ u \in Nat /\ l < MedianRank /\ MedianRank <= u /\ o = Smoothing - l
    BY <1>2, <1>7, <1>8 DEF l, u, o, low, under, over
  <2>2. 2 * u > Smoothing /\ 2 * o > Smoothing
    BY <1>1, <1>9, <1>10, <2>1
  <2>3. QED
    BY <2>2 DEF u, o
<1>12. QED
  BY <1>11 DEF median

(* A poll that finds nothing hot and changes what a fan is told finds more     *)
(* than half of the last readings Hysteresis or more from where the curve had  *)
(* settled: the median has moved that far, and half of them are beyond it.     *)
(* With a window of even size half of them are enough to move the curve down.  *)
THEOREM SpikesAreFiltered ==
  ASSUME Smoothing % 2 = 1
  PROVE  Spec => SpikeFiltered
<1> DEFINE Far(f) == 2 * Cardinality(FarFrom(recent'[f], lastTemp[f])) > Smoothing
           Stirs(f) == /\ told[f] # None /\ told'[f] # None /\ told'[f] # told[f]
                       /\ lastDuty[f] # None /\ ~hot'[f]
           Filtered == \A f \in FANS : Stirs(f) => Far(f)
<1>1. ASSUME IInv, Next
      PROVE  Filtered
  <2>1. SUFFICES ASSUME NEW f \in FANS, Stirs(f)
                 PROVE  Far(f)
    OBVIOUS
  <2>2. CASE Choose
    <3>1. told' = [g \in FANS |-> None]
      BY <2>2 DEF Choose, SetFirmware, SetManual, SelectCustom, SetBuiltin, SetCustom, SetOneCurve,
                  ResetState, OnBoth
    <3>2. QED
      BY <2>1, <3>1
  <2>3. CASE RetryNextTick
    BY <2>1, <2>3 DEF RetryNextTick, history
  <2>4. ASSUME NEW g \in FANS, NEW src \in Temps, NEW cpu \in Temps, Decide(g, src, cpu)
        PROVE  Far(f)
    <3>1. PICK window \in Windows, ct \in Temps :
           /\ ct = CurveTemp(window, src)
           /\ recent' = [recent EXCEPT ![g] = window]
           /\ lastTemp' = [lastTemp EXCEPT ![g] = IF Moved(g, ct) THEN ct ELSE lastTemp[g]]
           /\ lastDuty' = [lastDuty EXCEPT ![g] = Target(g, ct, src, cpu)]
           /\ told' = [told EXCEPT ![g] = Target(g, ct, src, cpu)]
           /\ hot' = [hot EXCEPT ![g] = Larger(src, cpu) >= FloorTemp]
           /\ basis' = [basis EXCEPT ![g] = [at |-> At(g, ct), now |-> ct]]
           /\ Driving /\ UNCHANGED choice
      BY <1>1, <2>4, PollOutcome
    <3>2. Typed /\ FanInv(f)
      BY <1>1 DEF IInv
    <3>3. f = g
      BY <2>1, <3>1, <3>2 DEF Typed
    <3>4. /\ recent'[f] = window /\ told'[f] = Target(f, ct, src, cpu)
          /\ hot'[f] = (Larger(src, cpu) >= FloorTemp)
      BY <3>1, <3>2, <3>3 DEF Typed
    <3>5. /\ Target(f, ct, src, cpu) = CurveTarget(f, ct)
          /\ src \in Nat /\ cpu \in Nat /\ ~(Larger(src, cpu) >= FloorTemp)
      <4>1. ~(Larger(src, cpu) >= FloorTemp)
        BY <2>1, <3>4
      <4>2. src \in Nat /\ cpu \in Nat
        BY Constants
      <4>3. Target(f, ct, src, cpu) = CurveTarget(f, ct)
        BY <1>1, <3>1, <4>1, TargetIsTheCurves
      <4>4. QED
        BY <4>1, <4>2, <4>3
    <3>6. Fresh(f, ct)
      BY <2>1, <3>2, <3>4, <3>5 DEF CurveTarget, FanInv
    <3>7. lastTemp[f] # None /\ Apart(ct, lastTemp[f]) >= Hysteresis
      BY <2>1, <3>2, <3>6 DEF Fresh, Moved, FanInv, Settled
    <3>8. ct = LowerMedian(window)
      <4>1. FloorTemp \in Nat
        BY ParameterAssumption
      <4>2. ~(src >= FloorTemp)
        BY <3>5, <4>1 DEF Larger
      <4>3. QED
        BY <3>1, <4>2 DEF CurveTemp
    <3> DEFINE rest == lastTemp[f]
               D == DOMAIN window
               far == FarFrom(window, rest)
               under == AtOrBelow(window, ct)
               over == {i \in D : window[i] >= ct}
    <3>9. rest \in Int /\ ct \in Int /\ \A i \in D : window[i] \in Int
      BY <3>2, <3>7, Constants, WindowIsASequence DEF Typed, Windows
    <3>10. IsFiniteSet(D) /\ Smoothing \in Nat
      BY ParameterAssumption, WindowIsASequence, FirstNumbers
    <3>11. far \in SUBSET D /\ IsFiniteSet(far) /\ Cardinality(far) \in Nat
      <4>1. far \in SUBSET D
        BY DEF FarFrom
      <4>2. QED
        BY <3>10, <4>1, FS_Subset, FS_CardinalityType
    <3>12. 2 * Cardinality(under) > Smoothing /\ 2 * Cardinality(over) > Smoothing
      BY <3>8, HalfIsBeyondTheMedian
    <3> HIDE DEF rest, D, far, under, over
    <3>13. Apart(ct, rest) >= Hysteresis /\ Hysteresis \in Nat
      BY <3>7, ParameterAssumption DEF rest
    <3>14. ASSUME NEW half, half \in SUBSET far, 2 * Cardinality(half) > Smoothing
           PROVE  2 * Cardinality(far) > Smoothing
      <4>1. Cardinality(half) <= Cardinality(far) /\ Cardinality(half) \in Nat
        BY <3>11, <3>14, FS_Subset, FS_CardinalityType
      <4>2. QED
        BY <3>10, <3>11, <3>14, <4>1
    <3>15. CASE ct >= rest
      <4>1. over \in SUBSET far
        BY <3>9, <3>13, <3>15 DEF over, far, FarFrom, Apart, D
      <4>2. QED
        BY <3>4, <3>12, <3>14, <4>1 DEF far, rest
    <3>16. CASE ct < rest
      <4>1. under \in SUBSET far
        BY <3>9, <3>13, <3>16 DEF under, far, FarFrom, AtOrBelow, Apart, D
      <4>2. QED
        BY <3>4, <3>12, <3>14, <4>1 DEF far, rest
    <3>17. QED
      BY <3>9, <3>15, <3>16
  <2>5. Polled \subseteq FANS
    BY ParameterAssumption
  <2>6. QED
    BY <1>1, <2>2, <2>3, <2>4, <2>5 DEF Next, Poll
<1> HIDE DEF Filtered
<1>2. ASSUME IInv, [Next]_vars
      PROVE  [Filtered]_vars
  BY <1>1, <1>2
<1>3. Spec => [][Filtered]_vars
  BY <1>2, EngineInvariant, PTL DEF Spec
<1>4. QED
  BY <1>3 DEF SpikeFiltered, Filtered
=============================================================================
