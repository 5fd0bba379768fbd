------------------------------ MODULE Counting ------------------------------
(* Facts about finite sets of numbers that several proofs count with: the    *)
(* rank of an element, the greatest element, and parts of an interval.       *)
EXTENDS Integers, Sequences, FiniteSets, FiniteSetTheorems, TLAPS

(* The rank of i in a set of numbers.                                        *)
Place(places, i) == Cardinality({k \in places : k <= i})

(* The places of a finite set are numbered in their order.                   *)
LEMMA PlacesCount ==
    ASSUME NEW places \in SUBSET Int, IsFiniteSet(places)
    PROVE  /\ Cardinality(places) \in Nat
           /\ \A i \in places : Place(places, i) \in 1 .. Cardinality(places)
           /\ \A i, j \in places : i < j => Place(places, i) < Place(places, j)
           /\ \A i, j \in places : Place(places, i) = Place(places, j) => i = j
           /\ \A m \in 1 .. Cardinality(places) :
                \E i \in places : Place(places, i) = m
<1>1. \A i \in places : i \in Int
  OBVIOUS
<1>2. IsFiniteSet(places) /\ Cardinality(places) \in Nat
  BY FS_CardinalityType
<1>3. ASSUME NEW i \in places
      PROVE  /\ Place(places, i) \in 1 .. Cardinality(places)
             /\ IsFiniteSet({k \in places : k <= i})
  <2> DEFINE T == {k \in places : k <= i}
  <2>1. IsFiniteSet(T) /\ Cardinality(T) <= Cardinality(places)
    BY <1>2, FS_Subset
  <2>2. T # {} BY <1>3
  <2>3. Cardinality(T) \in Nat /\ Cardinality(T) # 0
    BY <2>1, <2>2, FS_CardinalityType, FS_EmptySet
  <2> QED BY <1>2, <2>1, <2>3 DEF Place
<1>4. ASSUME NEW i \in places, NEW j \in places, i < j
      PROVE  Place(places, i) < Place(places, j)
  <2> DEFINE T == {k \in places : k <= i}  U == {k \in places : k <= j}
  <2>1. T \in SUBSET U /\ j \in U /\ j \notin T
    <3>1. i \in Int /\ j \in Int /\ i < j BY <1>1, <1>4
    <3>2. \A k \in places : k \in Int /\ (k <= i => k <= j) BY <1>1, <3>1
    <3>3. T \in SUBSET U BY <3>2
    <3>4. j \in U /\ j \notin T BY <3>1
    <3> QED BY <3>3, <3>4
  <2>2. IsFiniteSet(U) BY <1>3
  <2>3. Cardinality(T) <= Cardinality(U) /\ Cardinality(T) # Cardinality(U)
    BY <2>1, <2>2, FS_Subset
  <2> QED BY <1>3, <2>3 DEF Place
<1>5. ASSUME NEW i \in places, NEW j \in places, Place(places, i) = Place(places, j)
      PROVE  i = j
  <2>1. i \in Int /\ j \in Int BY <1>1
  <2>2. Place(places, i) \in 1 .. Cardinality(places) BY <1>3, <1>5
  <2>3. ~(i < j) /\ ~(j < i)
    <3>1. ~(Place(places, i) < Place(places, i)) BY <2>2
    <3> QED BY <1>4, <1>5, <3>1
  <2> QED BY <2>1, <2>3
<1>6. ASSUME NEW m \in 1 .. Cardinality(places)
      PROVE  \E i \in places : Place(places, i) = m
  <2> DEFINE f == [i \in places |-> Place(places, i)]
             C == 1 .. Cardinality(places)
  <2>1. f \in Injection(places, C)
    BY <1>3, <1>5 DEF Injection, IsInjective
  <2>2. IsFiniteSet(C) /\ Cardinality(C) = Cardinality(places)
    BY <1>2, FS_Interval
  <2>3. f \in Surjection(places, C)
    BY <2>1, <2>2, FS_Injection
  <2> QED BY <2>3 DEF Surjection
<1> QED BY <1>2, <1>3, <1>4, <1>5, <1>6

(* Parts of 1 .. n are finite.                                              *)
LEMMA PlacesIn ==
    ASSUME NEW n \in Nat, NEW places \in SUBSET (1 .. n)
    PROVE  /\ places \in SUBSET Int /\ IsFiniteSet(places)
           /\ Cardinality(places) \in 0 .. n
<1>1. IsFiniteSet(1 .. n) /\ Cardinality(1 .. n) = n
  BY FS_Interval
<1>2. IsFiniteSet(places) /\ Cardinality(places) <= n
  BY <1>1, FS_Subset
<1>3. Cardinality(places) \in Nat
  BY <1>2, FS_CardinalityType
<1> QED BY <1>2, <1>3

(* A finite set of numbers has a greatest element.                           *)
LEMMA FiniteHasTop ==
    ASSUME NEW S \in SUBSET Nat, IsFiniteSet(S), S # {}
    PROVE  \E k \in S : \A j \in S : j <= k
<1>1. S \in SUBSET Int OBVIOUS
<1>2. Cardinality(S) \in Nat /\ Cardinality(S) # 0
  BY FS_CardinalityType, FS_EmptySet
<1>3. PICK k \in S : Place(S, k) = Cardinality(S)
  BY <1>1, <1>2, PlacesCount
<1> DEFINE T == {j \in S : j <= k}
<1>4. T \in SUBSET S /\ Cardinality(T) = Cardinality(S)
  BY <1>3 DEF Place
<1>5. T = S BY <1>4, FS_Subset
<1> QED BY <1>5

(* In an interval the rank of an element is its distance from the start.     *)
LEMMA RankInInterval ==
    ASSUME NEW a \in Int, NEW b \in Int, NEW k \in (a + 1) .. b
    PROVE  Place((a + 1) .. b, k) = k - a
<1>1. {j \in (a + 1) .. b : j <= k} = (a + 1) .. k
  OBVIOUS
<1>2. Cardinality((a + 1) .. k) = IF a + 1 > k THEN 0 ELSE k - (a + 1) + 1
  BY FS_Interval
<1>3. Cardinality((a + 1) .. k) = k - a
  BY <1>2
<1> QED BY <1>1, <1>3 DEF Place

-----------------------------------------------------------------------------
(* How often f takes the value r on a + 1 .. b.                              *)
CountIn(f, r, a, b) == Cardinality({i \in (a + 1) .. b : f[i] = r})

LEMMA CountIsNat ==
    ASSUME NEW f, NEW r, NEW a \in Int, NEW b \in Int
    PROVE  CountIn(f, r, a, b) \in Nat
<1>1. IsFiniteSet((a + 1) .. b) BY FS_Interval
<1>2. IsFiniteSet({i \in (a + 1) .. b : f[i] = r}) BY <1>1, FS_Subset
<1> QED BY <1>2, FS_CardinalityType DEF CountIn

LEMMA CountNone ==
    ASSUME NEW f, NEW r, NEW a \in Int, NEW b \in Int,
           \A i \in (a + 1) .. b : f[i] # r
    PROVE  CountIn(f, r, a, b) = 0
<1>1. {i \in (a + 1) .. b : f[i] = r} = {} OBVIOUS
<1> QED BY <1>1, FS_EmptySet DEF CountIn

(* The count of two adjacent intervals is the sum of theirs.                 *)
LEMMA CountSplit ==
    ASSUME NEW f, NEW r, NEW a \in Int, NEW b \in Int, NEW c \in Int, a <= b, b <= c
    PROVE  CountIn(f, r, a, c) = CountIn(f, r, a, b) + CountIn(f, r, b, c)
<1> DEFINE S == {i \in (a + 1) .. b : f[i] = r}
           T == {i \in (b + 1) .. c : f[i] = r}
           U == {i \in (a + 1) .. c : f[i] = r}
<1>1. U = S \cup T
  <2>1. \A i : i \in (a + 1) .. c <=> i \in (a + 1) .. b \/ i \in (b + 1) .. c
    OBVIOUS
  <2> QED BY <2>1
<1>2. S \cap T = {} OBVIOUS
<1>3. IsFiniteSet(S) /\ IsFiniteSet(T) /\ Cardinality(S) \in Nat /\ Cardinality(T) \in Nat
  <2>1. IsFiniteSet((a + 1) .. b) /\ IsFiniteSet((b + 1) .. c) BY FS_Interval
  <2>2. IsFiniteSet(S) /\ IsFiniteSet(T) BY <2>1, FS_Subset
  <2> QED BY <2>2, FS_CardinalityType
<1> HIDE DEF S, T, U
<1>4. Cardinality(U) = Cardinality(S) + Cardinality(T) - Cardinality(S \cap T)
  BY <1>1, <1>3, FS_Union
<1>5. Cardinality(S \cap T) = 0 BY <1>2, FS_EmptySet
<1>6. Cardinality(U) = Cardinality(S) + Cardinality(T) BY <1>3, <1>4, <1>5
<1> QED BY <1>6 DEF CountIn, S, T, U

(* A place at which f has the value counts as one.                           *)
LEMMA CountOne ==
    ASSUME NEW f, NEW r, NEW a \in Int, f[a + 1] = r
    PROVE  CountIn(f, r, a, a + 1) = 1
<1>1. {i \in (a + 1) .. (a + 1) : f[i] = r} = {a + 1} OBVIOUS
<1> QED BY <1>1, FS_Singleton DEF CountIn

(* How often f takes the value r along the first n members of s.             *)
CountAlong(f, r, s, n) == Cardinality({i \in 1 .. n : f[s[i]] = r})

(* Counting along a sequence that numbers the interval from its start.       *)
LEMMA CountShifted ==
    ASSUME NEW f, NEW r, NEW a \in Int, NEW n \in Nat, NEW s,
           \A i \in 1 .. n : s[i] = i + a
    PROVE  CountAlong(f, r, s, n) = CountIn(f, r, a, a + n)
<1> DEFINE S == {i \in 1 .. n : f[s[i]] = r}
           T == {i \in (a + 1) .. (a + n) : f[i] = r}
           g == [i \in S |-> i + a]
<1>1. IsFiniteSet(S)
  <2>1. S \in SUBSET (1 .. n) OBVIOUS
  <2> QED BY <2>1, PlacesIn
<1>2. \A i \in S : i \in Int /\ i + a \in T
  OBVIOUS
<1>3. \A j \in T : j - a \in S /\ j = (j - a) + a
  <2> SUFFICES ASSUME NEW j \in T PROVE j - a \in S /\ j = (j - a) + a
    OBVIOUS
  <2>1. j \in Int /\ j - a \in 1 .. n /\ j = (j - a) + a /\ f[j] = r OBVIOUS
  <2>2. s[j - a] = j BY <2>1
  <2> QED BY <2>1, <2>2
<1> HIDE DEF S, T
<1>4. g \in [S -> T] /\ \A i \in S : g[i] = i + a BY <1>2
<1> HIDE DEF g
<1>5. \A i, j \in S : g[i] = g[j] => i = j BY <1>2, <1>4
<1>6. \A j \in T : \E i \in S : g[i] = j BY <1>3, <1>4
<1>7. ExistsBijection(S, T)
  BY <1>4, <1>5, <1>6
     DEF ExistsBijection, Bijection, Injection, Surjection, IsInjective
<1>8. Cardinality(T) = Cardinality(S) BY <1>1, <1>7, FS_Bijection
<1> QED BY <1>8 DEF CountIn, CountAlong, S, T
=============================================================================
