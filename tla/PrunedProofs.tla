---------------------------- MODULE PrunedProofs ----------------------------
(***************************************************************************)
(* What a pruned study promises, for any number of trials, steps and       *)
(* values and any options of the pruners: who is pruned, who never is, and *)
(* that a verdict does not depend on the direction's name.                 *)
(***************************************************************************)
EXTENDS PrunedStudy, TrialsProofs

(* The value at a place of the sorted values.                              *)

Below(v, x)  == {n \in DOMAIN v : v[n] < x}
UpTo(v, x)   == {n \in DOMAIN v : v[n] <= x}
Values(v)    == {v[n] : n \in DOMAIN v}

\* x is the value at place k.
IsPlace(v, k, x) ==
    /\ x \in Values(v)
    /\ Cardinality(Below(v, x)) < k
    /\ Cardinality(UpTo(v, x)) >= k

\* The counts a place is defined by are naturals, and all is up to the largest.
LEMMA Counts ==
    ASSUME NEW I, IsFiniteSet(I), NEW v \in [I -> Int], NEW x \in Int
    PROVE  /\ IsFiniteSet(Below(v, x)) /\ Cardinality(Below(v, x)) \in Nat
           /\ IsFiniteSet(UpTo(v, x)) /\ Cardinality(UpTo(v, x)) \in Nat
           /\ Cardinality(I) \in Nat
           /\ Cardinality(Below(v, x)) <= Cardinality(UpTo(v, x))
           /\ Cardinality(UpTo(v, x)) <= Cardinality(I)
<1>1. Below(v, x) \subseteq UpTo(v, x) /\ UpTo(v, x) \subseteq I
  BY DEF Below, UpTo
<1>2. Below(v, x) \subseteq I
  BY <1>1
<1>3. IsFiniteSet(Below(v, x)) /\ IsFiniteSet(UpTo(v, x))
  BY <1>1, <1>2, FS_Subset
<1> QED BY <1>1, <1>3, FS_Subset, FS_CardinalityType

\* What a part leaves of a finite set is counted by subtraction.
LEMMA LeftOut ==
    ASSUME NEW S, IsFiniteSet(S), NEW T \in SUBSET S
    PROVE  Cardinality(S \ T) = Cardinality(S) - Cardinality(T)
<1>1. S \cap T = T
  OBVIOUS
<1>2. Cardinality(S \ T) = Cardinality(S) - Cardinality(S \cap T)
  BY FS_Difference
<1> QED BY <1>1, <1>2

\* A higher value has more values up to it.
LEMMA MoreUpTo ==
    ASSUME NEW I, IsFiniteSet(I), NEW v \in [I -> Int], NEW x \in Int, NEW n \in I,
           x < v[n]
    PROVE  Cardinality(UpTo(v, x)) < Cardinality(UpTo(v, v[n]))
<1>1. UpTo(v, x) \subseteq UpTo(v, v[n])
  BY DEF UpTo
<1>2. n \in UpTo(v, v[n]) /\ n \notin UpTo(v, x)
  BY DEF UpTo
<1>3. Cardinality(UpTo(v, x)) <= Cardinality(UpTo(v, v[n]))
      /\ (Cardinality(UpTo(v, v[n])) = Cardinality(UpTo(v, x)) => UpTo(v, v[n]) = UpTo(v, x))
  BY <1>1, Counts, FS_Subset
<1> QED BY <1>2, <1>3, Counts

\* The values some indexes have include a largest one.
LEMMA Highest ==
    ASSUME NEW I, IsFiniteSet(I), NEW v \in [I -> Int], NEW J, J \subseteq I, J # {}
    PROVE  \E j \in J : \A i \in J : v[i] <= v[j]
<1> DEFINE behind(j) == Cardinality(I) - Cardinality(UpTo(v, v[j]))
           S         == {behind(j) : j \in J}
<1>1. \A j \in J : behind(j) \in Nat
  BY Counts
<1>2. S \subseteq Nat /\ S # {}
  BY <1>1
<1>3. PICK s \in S : \A r \in S : s <= r
  BY <1>2, LeastNatural
<1>4. PICK j \in J : s = behind(j)
  OBVIOUS
<1>5. ASSUME NEW i \in J, v[j] < v[i]
      PROVE  FALSE
  <2>1. behind(j) <= behind(i)
    BY <1>3, <1>4
  <2>2. Cardinality(UpTo(v, v[j])) < Cardinality(UpTo(v, v[i]))
    BY <1>5, MoreUpTo
  <2> QED BY <2>1, <2>2, Counts
<1> QED BY <1>5

\* The values some indexes have include a smallest one.
LEMMA Lowest ==
    ASSUME NEW I, IsFiniteSet(I), NEW v \in [I -> Int], NEW J, J \subseteq I, J # {}
    PROVE  \E j \in J : \A i \in J : v[j] <= v[i]
<1> DEFINE up(j) == Cardinality(UpTo(v, v[j]))
           S     == {up(j) : j \in J}
<1>1. S \subseteq Nat /\ S # {}
  BY Counts
<1>2. PICK s \in S : \A r \in S : s <= r
  BY <1>1, LeastNatural
<1>3. PICK j \in J : s = up(j)
  OBVIOUS
<1>4. ASSUME NEW i \in J, v[i] < v[j]
      PROVE  FALSE
  <2>1. up(j) <= up(i)
    BY <1>2, <1>3
  <2>2. Cardinality(UpTo(v, v[i])) < Cardinality(UpTo(v, v[j]))
    BY <1>4, MoreUpTo
  <2> QED BY <2>1, <2>2, Counts
<1> QED BY <1>4

\* There is a value at every place.
LEMMA PlaceExists ==
    ASSUME NEW I, IsFiniteSet(I), NEW v \in [I -> Int], NEW k \in 1 .. Cardinality(I)
    PROVE  \E x \in Values(v) : IsPlace(v, k, x)
<1> DEFINE J == {j \in I : k <= Cardinality(UpTo(v, v[j]))}
<1>1. I # {}
  BY FS_EmptySet
<1>2. J # {}
  <2>1. PICK j \in I : \A i \in I : v[i] <= v[j]
    BY <1>1, Highest
  <2>2. UpTo(v, v[j]) = I
    BY <2>1 DEF UpTo
  <2> QED BY <2>2, Counts
<1>3. PICK j \in J : \A i \in J : v[j] <= v[i]
  BY <1>2, Lowest
<1>4. Cardinality(Below(v, v[j])) < k
  <2>1. CASE Below(v, v[j]) = {}
    BY <2>1, FS_EmptySet
  <2>2. CASE Below(v, v[j]) # {}
    <3>1. Below(v, v[j]) \subseteq I
      BY DEF Below
    <3>2. PICK i \in Below(v, v[j]) : \A m \in Below(v, v[j]) : v[m] <= v[i]
      BY <2>2, <3>1, Highest
    <3>3. i \in I /\ v[i] < v[j]
      BY DEF Below
    <3>4. Below(v, v[j]) = UpTo(v, v[i])
      BY <3>2, <3>3 DEF Below, UpTo
    <3>5. i \notin J
      BY <1>3, <3>3
    <3> QED BY <3>3, <3>4, <3>5, Counts
  <2> QED BY <2>1, <2>2
<1>5. v[j] \in Values(v) /\ k <= Cardinality(UpTo(v, v[j]))
  BY DEF Values
<1> QED BY <1>4, <1>5, Counts DEF IsPlace

\* No two values are at one place.
LEMMA PlaceUnique ==
    ASSUME NEW I, IsFiniteSet(I), NEW v \in [I -> Int], NEW k \in Nat,
           NEW x \in Int, IsPlace(v, k, x), NEW y \in Int, IsPlace(v, k, y)
    PROVE  x = y
<1>1. ASSUME NEW a \in Int, NEW b \in Int, IsPlace(v, k, a), IsPlace(v, k, b), a < b
      PROVE  FALSE
  <2>1. UpTo(v, a) \subseteq Below(v, b)
    BY <1>1 DEF UpTo, Below
  <2>2. Cardinality(UpTo(v, a)) <= Cardinality(Below(v, b))
    BY <2>1, Counts, FS_Subset
  <2> QED BY <1>1, <2>2, Counts DEF IsPlace
<1> QED BY <1>1

\* Smallest finds the value at a place.
LEMMA SmallestIsPlace ==
    ASSUME NEW I, IsFiniteSet(I), NEW v \in [I -> Int], NEW k \in 1 .. Cardinality(I)
    PROVE  Smallest(v, k) \in Int /\ IsPlace(v, k, Smallest(v, k))
<1>1. Smallest(v, k) = CHOOSE x \in Values(v) : /\ Cardinality(Below(v, x)) < k
                                                /\ Cardinality(UpTo(v, x)) >= k
  BY Zenon DEF Smallest, Values, Below, UpTo
<1>2. \E x \in Values(v) : /\ Cardinality(Below(v, x)) < k
                           /\ Cardinality(UpTo(v, x)) >= k
  BY PlaceExists DEF IsPlace
<1>3. IsPlace(v, k, Smallest(v, k))
  BY <1>1, <1>2, Zenon DEF IsPlace
<1> QED BY <1>3 DEF IsPlace, Values

(* The median.                                                             *)

Counted(values) == {n \in DOMAIN values : values[n] # NaN}

\* The indexes whose values are better than x.
Ahead(dir, values, x) == {n \in DOMAIN values : IsBetter(dir, values[n], x)}

LEMMA FiniteType ==
    ASSUME NEW D, IsFiniteSet(D), NEW values \in [D -> Floats]
    PROVE  /\ Counted(values) \subseteq D /\ IsFiniteSet(Counted(values))
           /\ Cardinality(Counted(values)) \in Nat
           /\ Finite(values) \in [Counted(values) -> Int]
           /\ \A n \in Counted(values) : Finite(values)[n] = values[n]
<1>1. Counted(values) \subseteq D
  BY DEF Counted
<1>2. IsFiniteSet(Counted(values)) /\ Cardinality(Counted(values)) \in Nat
  BY <1>1, FS_Subset, FS_CardinalityType
<1>3. Finite(values) = [n \in Counted(values) |-> values[n]]
  BY DEF Finite, Counted
<1>4. \A n \in Counted(values) : values[n] \in Int
  BY DEF Counted, Floats
<1> QED BY <1>1, <1>2, <1>3, <1>4

\* Half of the values are up to each of the middle ones, and half are not below it.
InMiddle(v, z) ==
    /\ z \in Values(v)
    /\ 2 * Cardinality(UpTo(v, z)) >= Cardinality(DOMAIN v)
    /\ 2 * (Cardinality(DOMAIN v) - Cardinality(Below(v, z))) >= Cardinality(DOMAIN v)

\* The doubled median is the sum of two values in the middle.
LEMMA MedianInMiddle ==
    ASSUME NEW D, IsFiniteSet(D), NEW values \in [D -> Floats],
           DoubledMedian(values) # None
    PROVE  \E a, b \in Int : /\ DoubledMedian(values) = a + b
                             /\ InMiddle(Finite(values), a)
                             /\ InMiddle(Finite(values), b)
<1> DEFINE v == Finite(values)
           I == Counted(values)
           n == Cardinality(I)
<1>1. /\ IsFiniteSet(I) /\ n \in Nat /\ v \in [I -> Int] /\ DOMAIN v = I
  BY FiniteType
<1>2. n # 0
  BY <1>1 DEF DoubledMedian
<1> HIDE DEF v, I
<1>3. ASSUME NEW k \in 1 .. n, 2 * k >= n, 2 * (k - 1) <= n
      PROVE  Smallest(v, k) \in Int /\ InMiddle(v, Smallest(v, k))
  <2>1. Smallest(v, k) \in Int /\ IsPlace(v, k, Smallest(v, k))
    BY <1>1, SmallestIsPlace
  <2>2. /\ Cardinality(Below(v, Smallest(v, k))) \in Nat
        /\ Cardinality(UpTo(v, Smallest(v, k))) \in Nat
    BY <1>1, <2>1, Counts
  <2>3. /\ Smallest(v, k) \in Values(v)
        /\ Cardinality(Below(v, Smallest(v, k))) <= k - 1
        /\ k <= Cardinality(UpTo(v, Smallest(v, k)))
    BY <2>1, <2>2 DEF IsPlace
  <2> QED BY <1>1, <1>3, <2>1, <2>2, <2>3 DEF InMiddle
<1>4. CASE n % 2 = 1
  <2>1. DoubledMedian(values) = 2 * Smallest(v, n \div 2 + 1)
    BY <1>1, <1>2, <1>4 DEF DoubledMedian, v
  <2>2. /\ n \div 2 + 1 \in 1 .. n
        /\ 2 * (n \div 2 + 1) >= n /\ 2 * (n \div 2 + 1 - 1) <= n
    BY <1>1, <1>2, <1>4
  <2>3. /\ Smallest(v, n \div 2 + 1) \in Int
        /\ InMiddle(v, Smallest(v, n \div 2 + 1))
    BY <1>1, <1>3, <2>2
  <2> QED BY <2>1, <2>3 DEF v
<1>5. CASE n % 2 # 1
  <2>1. DoubledMedian(values) = Smallest(v, n \div 2) + Smallest(v, n \div 2 + 1)
    BY <1>1, <1>2, <1>5 DEF DoubledMedian, v
  <2>2. /\ n \div 2 \in 1 .. n /\ n \div 2 + 1 \in 1 .. n
        /\ 2 * (n \div 2) = n
    BY <1>1, <1>2, <1>5
  <2>3. /\ Smallest(v, n \div 2) \in Int
        /\ InMiddle(v, Smallest(v, n \div 2))
    BY <1>1, <1>3, <2>2
  <2>4. /\ Smallest(v, n \div 2 + 1) \in Int
        /\ InMiddle(v, Smallest(v, n \div 2 + 1))
    BY <1>1, <1>3, <2>2
  <2> QED BY <2>1, <2>3, <2>4 DEF v
<1> QED BY <1>4, <1>5

\* Who is worse than the median is behind half of the values, and of one at least.
LEMMA HalfAreAhead ==
    ASSUME NEW D, IsFiniteSet(D), NEW values \in [D -> Floats], NEW dir \in Directions,
           NEW x \in Int, DoubledMedian(values) # None,
           IsWorse(dir, 2 * x, DoubledMedian(values))
    PROVE  /\ Ahead(dir, values, x) # {}
           /\ Ahead(dir, values, x) \subseteq Counted(values)
           /\ IsFiniteSet(Ahead(dir, values, x))
           /\ Cardinality(Ahead(dir, values, x)) \in Nat
           /\ 2 * Cardinality(Ahead(dir, values, x)) >= Cardinality(Counted(values))
<1> DEFINE v == Finite(values)
           I == Counted(values)
           A == Ahead(dir, values, x)
<1>1. /\ IsFiniteSet(I) /\ Cardinality(I) \in Nat /\ v \in [I -> Int] /\ DOMAIN v = I
      /\ I \subseteq D /\ \A n \in I : v[n] = values[n] /\ values[n] # NaN
  <2>1. /\ IsFiniteSet(I) /\ Cardinality(I) \in Nat /\ v \in [I -> Int]
        /\ I \subseteq D /\ \A n \in I : v[n] = values[n]
    BY FiniteType
  <2>2. \A n \in I : values[n] # NaN
    BY DEF Counted
  <2> QED BY <2>1, <2>2
<1>2. A \subseteq I /\ \A n \in I : n \in A <=> IsBetter(dir, v[n], x)
  BY <1>1 DEF Ahead, Counted, IsBetter
<1>3. IsFiniteSet(A) /\ Cardinality(A) \in Nat
  BY <1>1, <1>2, FS_Subset, FS_CardinalityType
<1>4. PICK a \in Int, b \in Int : /\ DoubledMedian(values) = a + b
                                  /\ InMiddle(v, a) /\ InMiddle(v, b)
  BY MedianInMiddle
<1>5. x # NaN /\ (\A n \in I : v[n] # NaN)
  BY <1>1, SpecialValues
<1> HIDE DEF v, I, A
<1>6. PICK z \in Int : InMiddle(v, z) /\ IF dir = "Minimize" THEN z < x ELSE z > x
  <2>1. IF dir = "Minimize" THEN 2 * x > a + b ELSE 2 * x < a + b
    BY <1>4 DEF IsWorse
  <2>2. CASE IF dir = "Minimize" THEN a < x ELSE a > x
    BY <1>4, <2>2
  <2>3. CASE IF dir = "Minimize" THEN b < x ELSE b > x
    BY <1>4, <2>3
  <2> QED BY <2>1, <2>2, <2>3
<1>7. PICK p \in I : v[p] = z
  BY <1>1, <1>6 DEF InMiddle, Values
<1>8. p \in A
  BY <1>1, <1>2, <1>5, <1>6, <1>7 DEF IsBetter
<1>9. 2 * Cardinality(A) >= Cardinality(I)
  <2>1. CASE dir = "Minimize"
    <3>1. UpTo(v, z) \subseteq A
      BY <1>1, <1>2, <1>5, <1>6, <2>1 DEF UpTo, IsBetter
    <3>2. Cardinality(UpTo(v, z)) <= Cardinality(A) /\ Cardinality(UpTo(v, z)) \in Nat
      BY <1>1, <1>3, <1>6, <3>1, Counts, FS_Subset
    <3> QED BY <1>1, <1>3, <1>6, <3>2 DEF InMiddle
  <2>2. CASE dir # "Minimize"
    <3>1. I \ Below(v, z) \subseteq A
      <4>1. \A q \in I : v[q] >= z => v[q] > x
        BY <1>1, <1>6, <2>2
      <4> QED BY <1>1, <1>2, <1>5, <1>6, <2>2, <4>1 DEF Below, IsBetter
    <3>2. Cardinality(I \ Below(v, z)) = Cardinality(I) - Cardinality(Below(v, z))
      <4>1. Below(v, z) \in SUBSET I
        BY <1>1 DEF Below
      <4> QED BY <1>1, <4>1, LeftOut
    <3>3. Cardinality(I \ Below(v, z)) <= Cardinality(A)
      BY <1>3, <3>1, FS_Subset
    <3>4. Cardinality(Below(v, z)) \in Nat
      BY <1>1, <1>6, Counts
    <3> QED BY <1>1, <1>3, <1>6, <3>2, <3>3, <3>4 DEF InMiddle
  <2> QED BY <2>1, <2>2
<1> QED BY <1>2, <1>3, <1>8, <1>9 DEF A, I

(* Negated values.                                                         *)

LEMMA SmallestMirrors ==
    ASSUME NEW I, IsFiniteSet(I), NEW v \in [I -> Int], NEW w \in [I -> Int],
           \A n \in I : w[n] = -v[n], NEW k \in 1 .. Cardinality(I)
    PROVE  Smallest(w, Cardinality(I) + 1 - k) = -Smallest(v, k)
<1> DEFINE x == Smallest(v, k)
           j == Cardinality(I) + 1 - k
<1>1. x \in Int /\ IsPlace(v, k, x)
  BY SmallestIsPlace
<1>2. Cardinality(I) \in Nat /\ j \in 1 .. Cardinality(I)
  BY FS_CardinalityType
<1> HIDE DEF x
<1>3. -x \in Values(w)
  <2>1. PICK n \in I : v[n] = x
    BY <1>1 DEF IsPlace, Values
  <2>2. w[n] = -x
    BY <2>1
  <2> QED BY <2>2 DEF Values
<1>4. Below(w, -x) = I \ UpTo(v, x)
  BY <1>1 DEF Below, UpTo
<1>5. UpTo(w, -x) = I \ Below(v, x)
  BY <1>1 DEF Below, UpTo
<1>6. /\ Cardinality(I \ UpTo(v, x)) = Cardinality(I) - Cardinality(UpTo(v, x))
      /\ Cardinality(I \ Below(v, x)) = Cardinality(I) - Cardinality(Below(v, x))
  <2>1. UpTo(v, x) \in SUBSET I /\ Below(v, x) \in SUBSET I
    BY DEF UpTo, Below
  <2> QED BY <2>1, LeftOut
<1>7. Cardinality(UpTo(v, x)) \in Nat /\ Cardinality(Below(v, x)) \in Nat
  BY <1>1, Counts
<1>8. IsPlace(w, j, -x)
  <2> DEFINE y == -x
  <2>1. /\ Cardinality(Below(w, y)) = Cardinality(I) - Cardinality(UpTo(v, x))
        /\ Cardinality(UpTo(w, y)) = Cardinality(I) - Cardinality(Below(v, x))
    BY <1>4, <1>5, <1>6
  <2>2. y \in Values(w)
    BY <1>3
  <2> HIDE DEF y
  <2>3. IsPlace(w, j, y)
    BY <1>1, <1>2, <1>7, <2>1, <2>2 DEF IsPlace
  <2> QED BY <2>3 DEF y
<1>9. Smallest(w, j) \in Int /\ IsPlace(w, j, Smallest(w, j))
  BY <1>2, SmallestIsPlace
<1>10. Smallest(w, j) = -x
  BY <1>1, <1>2, <1>8, <1>9, PlaceUnique
<1> QED BY <1>10 DEF x

LEMMA MedianMirrors ==
    ASSUME NEW D, IsFiniteSet(D), NEW values \in [D -> Floats],
           NEW mirrored \in [D -> Floats], \A n \in D : mirrored[n] = Negated(values[n])
    PROVE  /\ DoubledMedian(values) \in Int \cup {None}
           /\ DoubledMedian(mirrored) = Negated(DoubledMedian(values))
<1> DEFINE v == Finite(values)
           w == Finite(mirrored)
           I == Counted(values)
           n == Cardinality(I)
<1>1. I = Counted(mirrored)
  BY SpecialValues DEF Counted, Negated, Floats
<1>2. /\ IsFiniteSet(I) /\ n \in Nat /\ v \in [I -> Int] /\ w \in [I -> Int]
      /\ \A m \in I : w[m] = -v[m]
  <2>1. /\ IsFiniteSet(I) /\ n \in Nat /\ v \in [I -> Int] /\ I \subseteq D
        /\ \A m \in I : v[m] = values[m]
    BY FiniteType
  <2>2. w \in [I -> Int] /\ \A m \in I : w[m] = mirrored[m]
    BY <1>1, FiniteType
  <2> QED BY <2>1, <2>2 DEF Negated
<1>3. DOMAIN v = I /\ DOMAIN w = I
  BY <1>2
<1> HIDE DEF v, w, I
<1>4. CASE n = 0
  BY <1>3, <1>4, SpecialValues DEF DoubledMedian, Negated, v, w
<1>5. CASE n # 0 /\ n % 2 = 1
  <2> DEFINE k == n \div 2 + 1
  <2>1. k \in 1 .. n /\ n + 1 - k = k
    BY <1>2, <1>5
  <2>2. Smallest(w, n + 1 - k) = -Smallest(v, k) /\ Smallest(v, k) \in Int
    BY <1>2, <2>1, SmallestMirrors, SmallestIsPlace
  <2>3. Smallest(w, k) = -Smallest(v, k)
    BY <2>1, <2>2
  <2>4. DoubledMedian(values) = 2 * Smallest(v, k)
        /\ DoubledMedian(mirrored) = 2 * Smallest(w, k)
    BY <1>3, <1>5 DEF DoubledMedian, v, w
  <2> QED BY <2>2, <2>3, <2>4 DEF Negated
<1>6. CASE n # 0 /\ n % 2 # 1
  <2> DEFINE k == n \div 2
  <2>1. k \in 1 .. n /\ k + 1 \in 1 .. n /\ n + 1 - k = k + 1 /\ n + 1 - (k + 1) = k
    BY <1>2, <1>6
  <2>2. Smallest(w, n + 1 - k) = -Smallest(v, k) /\ Smallest(v, k) \in Int
    BY <1>2, <2>1, SmallestMirrors, SmallestIsPlace
  <2>3. Smallest(w, n + 1 - (k + 1)) = -Smallest(v, k + 1) /\ Smallest(v, k + 1) \in Int
    BY <1>2, <2>1, SmallestMirrors, SmallestIsPlace
  <2>4. Smallest(w, k + 1) = -Smallest(v, k) /\ Smallest(w, k) = -Smallest(v, k + 1)
    BY <2>1, <2>2, <2>3
  <2>5. DoubledMedian(values) = Smallest(v, k) + Smallest(v, k + 1)
        /\ DoubledMedian(mirrored) = Smallest(w, k) + Smallest(w, k + 1)
    BY <1>3, <1>6 DEF DoubledMedian, v, w
  <2> QED BY <2>2, <2>3, <2>4, <2>5 DEF Negated
<1> QED BY <1>4, <1>5, <1>6

\* Comparing negated values in the opposite direction changes nothing.
LEMMA ComparisonMirrors ==
    ASSUME NEW dir \in Directions, NEW a \in Floats, NEW b \in Floats
    PROVE  /\ IsBetter(Opposite(dir), Negated(a), Negated(b)) = IsBetter(dir, a, b)
           /\ IsWorse(Opposite(dir), Negated(a), Negated(b)) = IsWorse(dir, a, b)
<1>1. Negated(a) = NaN <=> a = NaN
  BY SpecialValues DEF Negated, Floats
<1>2. Negated(b) = NaN <=> b = NaN
  BY SpecialValues DEF Negated, Floats
<1>3. CASE a # NaN /\ b # NaN
  BY <1>1, <1>2, <1>3 DEF IsBetter, IsWorse, Negated, Opposite, Directions, Floats
<1>4. CASE a = NaN \/ b = NaN
  BY <1>1, <1>2, <1>4 DEF IsBetter, IsWorse
<1> QED BY <1>3, <1>4

LEMMA NegatedValues ==
    ASSUME NEW v \in Floats \cup {None}
    PROVE  /\ Negated(v) \in Floats \cup {None}
           /\ Negated(v) = None <=> v = None
           /\ Negated(v) = NaN <=> v = NaN
BY SpecialValues DEF Negated, Floats

(* Reports.                                                                *)

Steps       == 0 .. LastStep
ReportLists == Seq(Entry(Steps, Floats))
Typed(t)    == t \in TrialType({}, Steps, Floats)

NegatedReports(iv) == [i \in DOMAIN iv |-> [key |-> iv[i].key, val |-> Negated(iv[i].val)]]

\* Negating the reports moves no key.
LEMMA NegatedEntries ==
    ASSUME NEW K, NEW s \in Seq(Entry(K, Floats))
    PROVE  /\ NegatedReports(s) \in Seq(Entry(K, Floats))
           /\ Len(NegatedReports(s)) = Len(s)
           /\ \A i \in 1 .. Len(s) : /\ NegatedReports(s)[i].key = s[i].key
                                     /\ NegatedReports(s)[i].val = Negated(s[i].val)
           /\ Keys(NegatedReports(s)) = Keys(s)
<1> DEFINE u == NegatedReports(s)
<1>1. DOMAIN s = 1 .. Len(s) /\ Len(s) \in Nat
  OBVIOUS
<1>2. ASSUME NEW i \in 1 .. Len(s)
      PROVE  /\ [key |-> s[i].key, val |-> Negated(s[i].val)] \in Entry(K, Floats)
             /\ u[i] = [key |-> s[i].key, val |-> Negated(s[i].val)]
             /\ u[i].key = s[i].key /\ u[i].val = Negated(s[i].val)
  <2>1. s[i] \in Entry(K, Floats)
    BY <1>1
  <2>2. s[i].key \in K /\ s[i].val \in Floats
    BY <2>1 DEF Entry
  <2>3. Negated(s[i].val) \in Floats
    BY <2>2, NegatedValues, SpecialValues DEF Floats, Negated
  <2> QED BY <1>1, <2>2, <2>3 DEF Entry, NegatedReports
<1>3. u \in Seq(Entry(K, Floats)) /\ Len(u) = Len(s)
  <2>1. u = [i \in 1 .. Len(s) |-> [key |-> s[i].key, val |-> Negated(s[i].val)]]
    BY <1>1 DEF NegatedReports
  <2>2. u \in [1 .. Len(s) -> Entry(K, Floats)]
    BY <1>2, <2>1
  <2> QED BY <1>1, <2>2, SeqDef
<1>4. \A i \in 1 .. Len(s) : u[i].key = s[i].key /\ u[i].val = Negated(s[i].val)
  BY <1>2
<1>5. DOMAIN u = 1 .. Len(s)
  BY <1>3
<1> HIDE DEF u
<1>6. Keys(u) = Keys(s)
  BY <1>1, <1>4, <1>5 DEF Keys
<1> QED BY <1>3, <1>4, <1>6 DEF u

\* Negating the reports negates what is looked up.
LEMMA LookupMirrors ==
    ASSUME NEW K, NEW s \in Seq(Entry(K, Floats)), NEW k
    PROVE  Lookup(NegatedReports(s), k) = Negated(Lookup(s, k))
<1> DEFINE u == NegatedReports(s)
<1>1. /\ DOMAIN s = 1 .. Len(s) /\ DOMAIN u = 1 .. Len(s)
      /\ \A i \in 1 .. Len(s) : u[i].key = s[i].key /\ u[i].val = Negated(s[i].val)
  BY NegatedEntries
<1> HIDE DEF u
<1>2. Slots(u, k) = Slots(s, k)
  BY <1>1 DEF Slots
<1>3. FirstSlot(u, k) = FirstSlot(s, k)
  BY <1>2 DEF FirstSlot
<1>4. Lookup(u, k) = Negated(Lookup(s, k))
  <2>1. CASE Slots(s, k) = {}
    BY <1>2, <2>1, SpecialValues DEF Lookup, Negated
  <2>2. CASE Slots(s, k) # {}
    <3>1. FirstSlot(s, k) \in 1 .. Len(s)
      BY <2>2, FirstSlotIsSlot
    <3> QED BY <1>1, <1>2, <1>3, <2>2, <3>1 DEF Lookup
  <2> QED BY <2>1, <2>2
<1> QED BY <1>4 DEF u

LEMMA TrialFields ==
    ASSUME NEW t, Typed(t)
    PROVE  /\ t.intermediate_values \in ReportLists
           /\ t.value \in Floats \cup {None}
           /\ t.state \in TrialStates
BY DEF Typed, TrialType, ReportLists

LEMMA MirroredFields ==
    ASSUME NEW t, Typed(t)
    PROVE  /\ Mirrored(t).intermediate_values = NegatedReports(t.intermediate_values)
           /\ Mirrored(t).value = Negated(t.value)
           /\ Mirrored(t).state = t.state
BY DEF Typed, TrialType, Mirrored, NegatedReports

LEMMA MirroredTyped ==
    ASSUME NEW t, Typed(t)
    PROVE  Typed(Mirrored(t))
<1> DEFINE iv == t.intermediate_values
           jv == [i \in DOMAIN iv |-> [key |-> iv[i].key, val |-> Negated(iv[i].val)]]
<1>1. jv \in Seq(Entry(Steps, Floats))
  BY TrialFields, NegatedEntries DEF ReportLists, NegatedReports
<1>2. Negated(t.value) \in Floats \cup {None}
  BY TrialFields, NegatedValues
<1>3. Mirrored(t) = [t EXCEPT !.value = Negated(@), !.intermediate_values = jv]
  BY DEF Mirrored
<1> HIDE DEF jv
<1> QED BY <1>1, <1>2, <1>3 DEF Typed, TrialType

LEMMA ValueTypes ==
    ASSUME NEW t, Typed(t), NEW s
    PROVE  /\ ValueAtStep(t, s) \in Floats \cup {None}
           /\ ValueAtOrAfter(t, s) \in Floats \cup {None}
<1>1. \A k : ValueAtStep(t, k) \in Floats \cup {None}
  BY TrialFields, LookupType DEF ValueAtStep, ReportLists
<1> QED BY <1>1 DEF ValueAtOrAfter

LEMMA ValuesMirror ==
    ASSUME NEW t, Typed(t), NEW s
    PROVE  /\ ValueAtStep(Mirrored(t), s) = Negated(ValueAtStep(t, s))
           /\ ValueAtOrAfter(Mirrored(t), s) = Negated(ValueAtOrAfter(t, s))
<1>1. \A k : ValueAtStep(Mirrored(t), k) = Negated(ValueAtStep(t, k))
  BY TrialFields, MirroredFields, LookupMirrors DEF ValueAtStep, ReportLists
<1>2. Keys(Mirrored(t).intermediate_values) = Keys(t.intermediate_values)
  BY TrialFields, MirroredFields, NegatedEntries DEF ReportLists
<1>3. Negated(None) = None
  BY SpecialValues DEF Negated
<1> QED BY <1>1, <1>2, <1>3 DEF ValueAtOrAfter

LEMMA LastMirrors ==
    ASSUME NEW t, Typed(t), t.intermediate_values # <<>>
    PROVE  /\ LastIntermediate(t).key \in Steps
           /\ LastIntermediate(t).val \in Floats
           /\ Mirrored(t).intermediate_values # <<>>
           /\ LastIntermediate(Mirrored(t)).key = LastIntermediate(t).key
           /\ LastIntermediate(Mirrored(t)).val = Negated(LastIntermediate(t).val)
<1> DEFINE iv == t.intermediate_values
           jv == Mirrored(t).intermediate_values
<1>1. iv \in Seq(Entry(Steps, Floats))
  BY TrialFields DEF ReportLists
<1>2. jv = NegatedReports(iv)
  BY MirroredFields
<1>3. Len(iv) \in 1 .. Len(iv)
  BY <1>1
<1> HIDE DEF iv, jv
<1>4. iv[Len(iv)].key \in Steps /\ iv[Len(iv)].val \in Floats
  <2>1. iv[Len(iv)] \in Entry(Steps, Floats)
    BY <1>1, <1>3
  <2> QED BY <2>1 DEF Entry
<1>5. /\ Len(jv) = Len(iv) /\ jv[Len(iv)].key = iv[Len(iv)].key
      /\ jv[Len(iv)].val = Negated(iv[Len(iv)].val)
  BY <1>1, <1>2, <1>3, NegatedEntries
<1>6. jv # <<>>
  BY <1>3, <1>5
<1> QED BY <1>4, <1>5, <1>6 DEF LastIntermediate, iv, jv

(* Verdicts.                                                               *)

Readable(h) == IsFiniteSet(DOMAIN h) /\ \A m \in DOMAIN h : Typed(h[m])

MirroredHistory(h) == [m \in DOMAIN h |-> Mirrored(h[m])]

LEMMA LastIsNotNone ==
    ASSUME NEW t, Typed(t)
    PROVE  LastIntermediate(t) # None <=> t.intermediate_values # <<>>
<1> DEFINE iv == t.intermediate_values
<1>1. iv \in Seq(Entry(Steps, Floats))
  BY TrialFields DEF ReportLists
<1> HIDE DEF iv
<1>2. CASE iv # <<>>
  <2>1. iv[Len(iv)] \in Entry(Steps, Floats)
    BY <1>1, <1>2
  <2>2. iv[Len(iv)] # None
    BY <2>1, PrunedAssumption DEF Steps
  <2> QED BY <1>2, <2>2 DEF LastIntermediate, iv
<1>3. CASE iv = <<>>
  BY <1>3 DEF LastIntermediate, iv
<1> QED BY <1>2, <1>3 DEF iv

\* What the two pruners collect are floats indexed by some of the trials.
LEMMA Collected ==
    ASSUME NEW h, Readable(h), NEW s
    PROVE  LET I == DOMAIN IntermediateValuesAt(h, s)
               J == DOMAIN ValuesAtOrAfter(h, s)
           IN  /\ I \subseteq DOMAIN h /\ IsFiniteSet(I)
               /\ J \subseteq DOMAIN h /\ IsFiniteSet(J)
               /\ IntermediateValuesAt(h, s) \in [I -> Floats]
               /\ ValuesAtOrAfter(h, s) \in [J -> Floats]
               /\ \A n \in I : /\ IntermediateValuesAt(h, s)[n] = ValueAtStep(h[n], s)
                               /\ h[n].state \in {"Complete", "Pruned"}
               /\ \A n \in J : ValuesAtOrAfter(h, s)[n] = ValueAtOrAfter(h[n], s)
<1> DEFINE I == {n \in DOMAIN h : /\ h[n].state \in {"Complete", "Pruned"}
                                  /\ ValueAtStep(h[n], s) # None}
           J == {n \in DOMAIN h : ValueAtOrAfter(h[n], s) # None}
<1>1. /\ IntermediateValuesAt(h, s) = [n \in I |-> ValueAtStep(h[n], s)]
      /\ ValuesAtOrAfter(h, s) = [n \in J |-> ValueAtOrAfter(h[n], s)]
  BY DEF IntermediateValuesAt, ValuesAtOrAfter
<1>2. \A n \in I : ValueAtStep(h[n], s) \in Floats /\ h[n].state \in {"Complete", "Pruned"}
  BY ValueTypes DEF Readable
<1>3. \A n \in J : ValueAtOrAfter(h[n], s) \in Floats
  BY ValueTypes DEF Readable
<1>4. I \subseteq DOMAIN h /\ J \subseteq DOMAIN h
  OBVIOUS
<1>5. IsFiniteSet(I) /\ IsFiniteSet(J)
  BY <1>4, FS_Subset DEF Readable
<1> HIDE DEF I, J
<1> QED BY <1>1, <1>2, <1>3, <1>4, <1>5

LEMMA CollectedMirrors ==
    ASSUME NEW h, Readable(h), NEW s
    PROVE  LET g == MirroredHistory(h)
           IN  /\ DOMAIN IntermediateValuesAt(g, s) = DOMAIN IntermediateValuesAt(h, s)
               /\ DOMAIN ValuesAtOrAfter(g, s) = DOMAIN ValuesAtOrAfter(h, s)
               /\ \A n \in DOMAIN IntermediateValuesAt(h, s) :
                     IntermediateValuesAt(g, s)[n] = Negated(IntermediateValuesAt(h, s)[n])
               /\ \A n \in DOMAIN ValuesAtOrAfter(h, s) :
                     ValuesAtOrAfter(g, s)[n] = Negated(ValuesAtOrAfter(h, s)[n])
               /\ NCompleted(g) = NCompleted(h)
<1> DEFINE g == MirroredHistory(h)
<1>1. DOMAIN g = DOMAIN h
  BY DEF MirroredHistory
<1>2. ASSUME NEW n \in DOMAIN h
      PROVE  /\ g[n].state = h[n].state
             /\ (g[n].value = None <=> h[n].value = None)
             /\ ValueAtStep(g[n], s) = Negated(ValueAtStep(h[n], s))
             /\ (ValueAtStep(g[n], s) = None <=> ValueAtStep(h[n], s) = None)
             /\ ValueAtOrAfter(g[n], s) = Negated(ValueAtOrAfter(h[n], s))
             /\ (ValueAtOrAfter(g[n], s) = None <=> ValueAtOrAfter(h[n], s) = None)
  <2>1. Typed(h[n]) /\ g[n] = Mirrored(h[n])
    BY DEF Readable, MirroredHistory
  <2>2. /\ h[n].value \in Floats \cup {None}
        /\ ValueAtStep(h[n], s) \in Floats \cup {None}
        /\ ValueAtOrAfter(h[n], s) \in Floats \cup {None}
    BY <2>1, TrialFields, ValueTypes
  <2>3. g[n].state = h[n].state /\ g[n].value = Negated(h[n].value)
    BY <2>1, MirroredFields
  <2>4. /\ ValueAtStep(g[n], s) = Negated(ValueAtStep(h[n], s))
        /\ ValueAtOrAfter(g[n], s) = Negated(ValueAtOrAfter(h[n], s))
    BY <2>1, ValuesMirror
  <2> QED BY <2>2, <2>3, <2>4, NegatedValues
<1> HIDE DEF g
<1>3. CompletedTrials(g) = CompletedTrials(h)
  BY <1>1, <1>2 DEF CompletedTrials
<1>4. /\ DOMAIN IntermediateValuesAt(g, s) = DOMAIN IntermediateValuesAt(h, s)
      /\ \A n \in DOMAIN IntermediateValuesAt(h, s) :
            IntermediateValuesAt(g, s)[n] = Negated(IntermediateValuesAt(h, s)[n])
  BY <1>1, <1>2 DEF IntermediateValuesAt
<1>5. /\ DOMAIN ValuesAtOrAfter(g, s) = DOMAIN ValuesAtOrAfter(h, s)
      /\ \A n \in DOMAIN ValuesAtOrAfter(h, s) :
            ValuesAtOrAfter(g, s)[n] = Negated(ValuesAtOrAfter(h, s)[n])
  BY <1>1, <1>2 DEF ValuesAtOrAfter
<1> QED BY <1>3, <1>4, <1>5 DEF NCompleted, g

LEMMA MirroredReadable ==
    ASSUME NEW h, Readable(h)
    PROVE  Readable(MirroredHistory(h))
BY MirroredTyped DEF Readable, MirroredHistory

\* The median pruner's verdict does not change when the study is mirrored.
LEMMA MedianVerdictMirrors ==
    ASSUME NEW dir \in Directions, NEW h, Readable(h), NEW t, Typed(t),
           t.intermediate_values # <<>>
    PROVE  MedianShouldPrune(dir, h, t)
               = MedianShouldPrune(Opposite(dir), MirroredHistory(h), Mirrored(t))
<1> DEFINE g      == MirroredHistory(h)
           u      == Mirrored(t)
           last   == LastIntermediate(t)
           last2  == LastIntermediate(u)
           others == IntermediateValuesAt(h, last.key)
           other2 == IntermediateValuesAt(g, last.key)
           m      == DoubledMedian(others)
           m2     == DoubledMedian(other2)
<1>1. /\ last.val \in Floats /\ last2.key = last.key /\ last2.val = Negated(last.val)
      /\ u.intermediate_values # <<>>
  BY LastMirrors
<1>2. last # None /\ last2 # None
  BY <1>1, LastIsNotNone, MirroredTyped
<1>3. /\ NCompleted(g) = NCompleted(h) /\ DOMAIN other2 = DOMAIN others
      /\ \A n \in DOMAIN others : other2[n] = Negated(others[n])
  BY CollectedMirrors
<1>4. /\ IsFiniteSet(DOMAIN others)
      /\ others \in [DOMAIN others -> Floats]
      /\ other2 \in [DOMAIN other2 -> Floats]
  BY Collected, MirroredReadable
<1> HIDE DEF others, other2
<1>5. m \in Int \cup {None} /\ m2 = Negated(m)
  BY <1>3, <1>4, MedianMirrors
<1>6. ASSUME m # None, last.val # NaN
      PROVE  /\ m2 # None /\ last2.val # NaN
             /\ IsWorse(Opposite(dir), 2 * last2.val, m2) = IsWorse(dir, 2 * last.val, m)
  <2>1. m \in Int /\ last.val \in Int
    BY <1>1, <1>5, <1>6 DEF Floats
  <2>2. m2 = -m /\ last2.val = -last.val /\ m2 \in Int /\ last2.val \in Int
    BY <1>1, <1>5, <2>1 DEF Negated
  <2>3. /\ 2 * last.val \in Floats /\ m \in Floats
        /\ Negated(2 * last.val) = 2 * last2.val /\ Negated(m) = m2
    BY <2>1, <2>2 DEF Floats, Negated
  <2> QED BY <2>2, <2>3, ComparisonMirrors, SpecialValues
<1>7. ASSUME m = None \/ last.val = NaN
      PROVE  m2 = None \/ last2.val = NaN
  BY <1>1, <1>5, <1>7, SpecialValues DEF Negated
<1> DEFINE others3 == IntermediateValuesAt(g, last2.key)
<1>8. others3 = other2
  BY <1>1 DEF other2
<1>9. MedianShouldPrune(dir, h, t) =
        /\ NCompleted(h) >= NStartupTrials /\ last # None
        /\ last.key >= NWarmupSteps /\ Cardinality(DOMAIN others) >= MinTrialsAtStep
        /\ m # None /\ last.val # NaN /\ IsWorse(dir, 2 * last.val, m)
  BY Zenon DEF MedianShouldPrune, others
<1>10. MedianShouldPrune(Opposite(dir), g, u) =
        /\ NCompleted(g) >= NStartupTrials /\ last2 # None
        /\ last2.key >= NWarmupSteps /\ Cardinality(DOMAIN others3) >= MinTrialsAtStep
        /\ DoubledMedian(others3) # None /\ last2.val # NaN
        /\ IsWorse(Opposite(dir), 2 * last2.val, DoubledMedian(others3))
  BY Zenon DEF MedianShouldPrune
<1> HIDE DEF g, u, last, last2, others3
<1> QED BY <1>1, <1>2, <1>3, <1>6, <1>7, <1>8, <1>9, <1>10 DEF g, u

\* Nor does the verdict of successive halving.
LEMMA HalvingVerdictMirrors ==
    ASSUME NEW dir \in Directions, NEW h, Readable(h), NEW t, Typed(t),
           t.intermediate_values # <<>>
    PROVE  HalvingShouldPrune(dir, h, t)
               = HalvingShouldPrune(Opposite(dir), MirroredHistory(h), Mirrored(t))
<1> DEFINE g      == MirroredHistory(h)
           u      == Mirrored(t)
           last   == LastIntermediate(t)
           last2  == LastIntermediate(u)
           rung   == RungResourceFor(last.key)
           peers  == ValuesAtOrAfter(h, rung)
           peers2 == ValuesAtOrAfter(g, rung)
<1>1. /\ last.val \in Floats /\ last2.key = last.key /\ last2.val = Negated(last.val)
      /\ u.intermediate_values # <<>>
  BY LastMirrors
<1>2. last # None /\ last2 # None
  BY <1>1, LastIsNotNone, MirroredTyped
<1>3. /\ DOMAIN peers2 = DOMAIN peers
      /\ \A n \in DOMAIN peers : peers2[n] = Negated(peers[n])
  BY CollectedMirrors
<1>4. peers \in [DOMAIN peers -> Floats]
  BY Collected
<1> HIDE DEF peers, peers2
<1>5. Ahead(Opposite(dir), peers2, last2.val) = Ahead(dir, peers, last.val)
  <2>1. \A n \in DOMAIN peers : IsBetter(Opposite(dir), peers2[n], last2.val)
                                    = IsBetter(dir, peers[n], last.val)
    BY <1>1, <1>3, <1>4, ComparisonMirrors
  <2> QED BY <1>3, <2>1 DEF Ahead
<1>6. HalvingShouldPrune(dir, h, t) =
        LET total == Cardinality(DOMAIN peers) + 1
            topK  == IF total \div ReductionFactor > 1 THEN total \div ReductionFactor ELSE 1
        IN  /\ last # None /\ rung # None /\ total >= ReductionFactor
            /\ Cardinality(Ahead(dir, peers, last.val)) >= topK
  BY Zenon DEF HalvingShouldPrune, Ahead, peers
<1>7. HalvingShouldPrune(Opposite(dir), g, u) =
        LET total == Cardinality(DOMAIN peers2) + 1
            topK  == IF total \div ReductionFactor > 1 THEN total \div ReductionFactor ELSE 1
        IN  /\ last2 # None /\ rung # None /\ total >= ReductionFactor
            /\ Cardinality(Ahead(Opposite(dir), peers2, last2.val)) >= topK
  BY <1>1, Zenon DEF HalvingShouldPrune, Ahead, peers2
<1> HIDE DEF last, last2, rung, g, u
<1> QED BY <1>2, <1>3, <1>5, <1>6, <1>7 DEF g, u

(* The study: what holds in every state.                                   *)

InOrder(t) == \A i \in 1 .. Len(t.intermediate_values) :
                  t.intermediate_values[i].key = i - 1

\* Trials are numbered from zero without gaps, and have reported at 0, 1, ... in turn.
TrialsInOrder ==
    /\ setup \in Setups
    /\ \E c \in Nat : DOMAIN trials = 0 .. c - 1
    /\ DOMAIN snapshot = DOMAIN trials /\ DOMAIN asked = DOMAIN trials
    /\ \A n \in DOMAIN trials : /\ Typed(trials[n]) /\ trials[n].number = n
                                /\ InOrder(trials[n])

\* A trial asks at most once a report.
AsksAfterReports ==
    \A n \in DOMAIN trials : asked[n] \in Seq(BOOLEAN) /\ Len(asked[n]) <= Reports(n)

\* A snapshot holds other trials that had ended, and are what they were.
SnapshotsStand ==
    \A n \in DOMAIN trials : \A m \in DOMAIN snapshot[n] :
        /\ m \in DOMAIN trials \ {n} /\ Terminal(trials[m])
        /\ snapshot[n][m] = trials[m]

\* Among the trials that have ended one has completed.
SomeoneCompletes ==
    (setup.pruner # "halving" \/ ~setup.remote) /\ Ended # {}
        => \E n \in DOMAIN trials : trials[n].state = "Complete"

PrunedInv == TrialsInOrder /\ AsksAfterReports /\ SnapshotsStand /\ SomeoneCompletes

Verdict(n) == ShouldPrune(setup.pruner, setup.direction, View(n), trials[n])

LEMMA SetupTypes ==
    ASSUME setup \in Setups
    PROVE  /\ setup.pruner \in {"nop", "median", "halving"}
           /\ setup.direction \in Directions
           /\ setup.remote \in BOOLEAN
BY PrunedAssumption

LEMMA TrialsFinite ==
    ASSUME TrialsInOrder
    PROVE  IsFiniteSet(DOMAIN trials) /\ DOMAIN trials \subseteq Nat
<1>1. PICK c \in Nat : DOMAIN trials = 0 .. c - 1
  BY DEF TrialsInOrder
<1> QED BY <1>1, FS_Interval

\* What a trial is compared with are other trials of the study, as they are.
LEMMA ViewIsPresent ==
    ASSUME PrunedInv, NEW n \in DOMAIN trials
    PROVE  /\ Readable(View(n))
           /\ \A m \in DOMAIN View(n) : /\ m \in DOMAIN trials \ {n}
                                        /\ View(n)[m] = trials[m]
                                        /\ ~setup.remote => Terminal(trials[m])
<1>1. /\ DOMAIN View(n) \subseteq DOMAIN trials \ {n}
      /\ \A m \in DOMAIN View(n) : /\ View(n)[m] = trials[m]
                                   /\ ~setup.remote => Terminal(trials[m])
  BY DEF PrunedInv, SnapshotsStand, View, Without
<1>2. IsFiniteSet(DOMAIN View(n))
  BY <1>1, TrialsFinite, FS_Subset DEF PrunedInv
<1> QED BY <1>1, <1>2 DEF Readable, PrunedInv, TrialsInOrder

\* The value at a step that was reported is the first one at or after it.
LEMMA StepIsFirst ==
    ASSUME NEW t, Typed(t), NEW s \in Int, ValueAtStep(t, s) # None
    PROVE  ValueAtOrAfter(t, s) = ValueAtStep(t, s)
<1> DEFINE iv      == t.intermediate_values
           reached == {k \in Keys(iv) : k >= s}
<1>1. iv \in Seq(Entry(Steps, Floats))
  BY TrialFields DEF ReportLists
<1>2. s \in Keys(iv)
  BY DEF ValueAtStep, Lookup, Slots, Keys
<1>3. Keys(iv) \subseteq Int
  <2>1. \A i \in DOMAIN iv : iv[i] \in Entry(Steps, Floats)
    BY <1>1
  <2>2. \A i \in DOMAIN iv : iv[i].key \in Steps
    BY <2>1 DEF Entry
  <2> QED BY <2>2, PrunedAssumption DEF Keys, Steps
<1> HIDE DEF iv
<1>4. s \in reached /\ \A r \in reached : s <= r /\ r \in Int
  BY <1>2, <1>3
<1>5. (CHOOSE k \in reached : \A r \in reached : k <= r) = s
  BY <1>4
<1>6. reached # {}
  BY <1>4
<1>7. ValueAtOrAfter(t, s) =
        IF reached = {} THEN None
        ELSE ValueAtStep(t, CHOOSE k \in reached : \A r \in reached : k <= r)
  BY Zenon DEF ValueAtOrAfter, iv
<1> HIDE DEF reached
<1> QED BY <1>5, <1>6, <1>7

\* The report last pushed is the one at the highest step.
LEMMA LastIsNewest ==
    ASSUME NEW t, Typed(t), InOrder(t), LastIntermediate(t) # None
    PROVE  /\ LastIntermediate(t).key = Len(t.intermediate_values) - 1
           /\ LastIntermediate(t).key \in Nat
           /\ LastIntermediate(t).val \in Floats
           /\ t.intermediate_values # <<>>
<1> DEFINE iv == t.intermediate_values
<1>1. iv \in Seq(Entry(Steps, Floats)) /\ iv # <<>>
  BY TrialFields DEF ReportLists, LastIntermediate
<1>2. Len(iv) \in 1 .. Len(iv) /\ iv[Len(iv)].key = Len(iv) - 1
  BY <1>1 DEF InOrder
<1>3. LastIntermediate(t) = iv[Len(iv)] /\ Len(iv) - 1 \in Nat
  BY <1>1, <1>2 DEF LastIntermediate
<1> QED BY <1>1, <1>2, <1>3, LastMirrors

\* A trial the median pruner stops is behind half of those it is compared with.
LEMMA MedianVerdict ==
    ASSUME NEW dir \in Directions, NEW h, Readable(h), NEW t, Typed(t), InOrder(t),
           MedianShouldPrune(dir, h, t)
    PROVE  LET step   == Len(t.intermediate_values) - 1
               last   == LastIntermediate(t)
               others == IntermediateValuesAt(h, step)
               ahead  == Ahead(dir, others, last.val)
           IN  /\ last # None
               /\ ahead # {} /\ ahead \subseteq Counted(others) /\ IsFiniteSet(ahead)
               /\ Cardinality(ahead) \in Nat
               /\ 2 * Cardinality(ahead) >= Cardinality(Counted(others))
<1> DEFINE last   == LastIntermediate(t)
           others == IntermediateValuesAt(h, last.key)
           m      == DoubledMedian(others)
<1>1. last # None /\ m # None /\ last.val # NaN /\ IsWorse(dir, 2 * last.val, m)
  BY Zenon DEF MedianShouldPrune
<1>2. last.key = Len(t.intermediate_values) - 1 /\ last.val \in Int
  BY <1>1, LastIsNewest DEF Floats
<1>3. IsFiniteSet(DOMAIN others) /\ others \in [DOMAIN others -> Floats]
  BY Collected
<1> HIDE DEF last
<1>4. /\ Ahead(dir, others, last.val) # {}
      /\ Ahead(dir, others, last.val) \subseteq Counted(others)
      /\ IsFiniteSet(Ahead(dir, others, last.val))
      /\ Cardinality(Ahead(dir, others, last.val)) \in Nat
      /\ 2 * Cardinality(Ahead(dir, others, last.val)) >= Cardinality(Counted(others))
  BY <1>1, <1>2, <1>3, HalfAreAhead
<1> QED BY <1>1, <1>2, <1>4 DEF last

\* A trial successive halving stops is behind another one that reached its rung.
LEMMA HalvingVerdict ==
    ASSUME NEW dir \in Directions, NEW h, Readable(h), NEW t, Typed(t), InOrder(t),
           HalvingShouldPrune(dir, h, t)
    PROVE  LET rung == RungResourceFor(Len(t.intermediate_values) - 1)
               last == LastIntermediate(t)
           IN  /\ last # None
               /\ \E m \in DOMAIN h : /\ ValueAtOrAfter(h[m], rung) # None
                                      /\ IsBetter(dir, ValueAtOrAfter(h[m], rung), last.val)
<1> DEFINE last  == LastIntermediate(t)
           rung  == RungResourceFor(last.key)
           peers == ValuesAtOrAfter(h, rung)
           total == Cardinality(DOMAIN peers) + 1
           topK  == IF total \div ReductionFactor > 1 THEN total \div ReductionFactor ELSE 1
<1>1. last # None /\ Cardinality(Ahead(dir, peers, last.val)) >= topK
  BY Zenon DEF HalvingShouldPrune, Ahead
<1>2. last.key = Len(t.intermediate_values) - 1
  BY <1>1, LastIsNewest
<1>3. /\ IsFiniteSet(DOMAIN peers) /\ DOMAIN peers \subseteq DOMAIN h
      /\ \A n \in DOMAIN peers : peers[n] = ValueAtOrAfter(h[n], rung)
  BY Collected
<1>4. \A n \in DOMAIN peers : ValueAtOrAfter(h[n], rung) # None
  BY DEF ValuesAtOrAfter
<1>5. topK \in Nat /\ topK >= 1
  <2>1. total \in Nat /\ ReductionFactor \in Nat \ {0}
    BY <1>3, FS_CardinalityType, PrunerAssumption
  <2>2. total \div ReductionFactor \in Int
    BY <2>1
  <2> QED BY <2>2
<1> HIDE DEF peers, last, topK, rung
<1>6. Ahead(dir, peers, last.val) # {}
  BY <1>1, <1>5, FS_EmptySet
<1>7. PICK m \in DOMAIN peers : IsBetter(dir, peers[m], last.val)
  BY <1>6 DEF Ahead
<1> QED BY <1>1, <1>2, <1>3, <1>4, <1>7 DEF last, rung

LEMMA VerdictIsBoolean ==
    ASSUME PrunedInv, NEW n \in DOMAIN trials
    PROVE  Verdict(n) \in BOOLEAN
<1>1. setup.pruner \in {"nop", "median", "halving"}
  BY SetupTypes DEF PrunedInv, TrialsInOrder
<1> QED BY <1>1 DEF Verdict, ShouldPrune, MedianShouldPrune, HalvingShouldPrune

\* Who is pruned has reported, and is behind another trial; one that has ended,
\* unless successive halving compares it with the running.
LEMMA PrunedIsBehind ==
    ASSUME PrunedInv, NEW n \in DOMAIN trials, Verdict(n)
    PROVE  /\ LastIntermediate(trials[n]) # None
           /\ \E m \in DOMAIN trials \ {n} :
                 /\ Beats(ValueAtOrAfter(trials[m], Compared(n)), LastIntermediate(trials[n]).val)
                 /\ setup.pruner # "halving" \/ ~setup.remote => Terminal(trials[m])
<1> DEFINE h == View(n)
           t == trials[n]
           dir == setup.direction
<1>1. /\ dir \in Directions /\ setup.pruner \in {"nop", "median", "halving"}
      /\ Typed(t) /\ InOrder(t) /\ Len(t.intermediate_values) \in Nat
  BY SetupTypes, TrialFields DEF PrunedInv, TrialsInOrder, ReportLists
<1>2. /\ Readable(h)
      /\ \A m \in DOMAIN h : /\ m \in DOMAIN trials \ {n} /\ h[m] = trials[m]
                             /\ ~setup.remote => Terminal(trials[m])
  BY ViewIsPresent
<1>3. \A m \in DOMAIN h : Typed(h[m])
  BY <1>2 DEF Readable
<1> HIDE DEF h, t
<1>4. CASE setup.pruner = "nop"
  BY <1>4 DEF Verdict, ShouldPrune
<1>5. CASE setup.pruner = "median"
  <2> DEFINE step   == Len(t.intermediate_values) - 1
             others == IntermediateValuesAt(h, step)
             ahead  == Ahead(dir, others, LastIntermediate(t).val)
  <2>1. MedianShouldPrune(dir, h, t)
    BY <1>5 DEF Verdict, ShouldPrune, h, t
  <2>2. LastIntermediate(t) # None /\ ahead # {}
    BY <1>1, <1>2, <2>1, MedianVerdict
  <2>3. PICK m \in DOMAIN others : IsBetter(dir, others[m], LastIntermediate(t).val)
    BY <2>2 DEF Ahead
  <2>4. /\ m \in DOMAIN h /\ others[m] = ValueAtStep(h[m], step)
        /\ h[m].state \in {"Complete", "Pruned"}
    BY <1>2, Collected
  <2>5. ValueAtStep(h[m], step) # None
    BY DEF IntermediateValuesAt
  <2>6. ValueAtOrAfter(h[m], step) = ValueAtStep(h[m], step)
    BY <1>1, <1>3, <2>4, <2>5, StepIsFirst
  <2>7. Compared(n) = step
    BY <1>5 DEF Compared, Reports, t
  <2>8. Terminal(h[m])
    BY <2>4 DEF Terminal
  <2> HIDE DEF step, others
  <2> QED BY <1>2, <2>2, <2>3, <2>4, <2>5, <2>6, <2>7, <2>8 DEF Beats, t
<1>6. CASE setup.pruner = "halving"
  <2> DEFINE rung == RungResourceFor(Len(t.intermediate_values) - 1)
  <2>1. HalvingShouldPrune(dir, h, t)
    BY <1>6 DEF Verdict, ShouldPrune, h, t
  <2>2. /\ LastIntermediate(t) # None
        /\ \E m \in DOMAIN h : /\ ValueAtOrAfter(h[m], rung) # None
                               /\ IsBetter(dir, ValueAtOrAfter(h[m], rung),
                                           LastIntermediate(t).val)
    BY <1>1, <1>2, <2>1, HalvingVerdict
  <2>3. Compared(n) = rung
    BY <1>6 DEF Compared, Reports, t
  <2> HIDE DEF rung
  <2> QED BY <1>2, <1>6, <2>2, <2>3 DEF Beats, t
<1> QED BY <1>1, <1>4, <1>5, <1>6

(* The steps.                                                              *)

\* A trial that has reported at 0, 1, ... pushes its next report.
LEMMA ReportPushes ==
    ASSUME NEW t, Typed(t), InOrder(t), Len(t.intermediate_values) <= LastStep,
           NEW v \in Floats
    PROVE  LET u == AddReport(t, Len(t.intermediate_values), v)
           IN  /\ Typed(u) /\ InOrder(u)
               /\ u.number = t.number /\ u.state = t.state
               /\ Len(u.intermediate_values) = Len(t.intermediate_values) + 1
<1> DEFINE iv == t.intermediate_values
           s  == Len(iv)
           u  == AddReport(t, s, v)
           e  == [key |-> s, val |-> v]
<1>1. iv \in Seq(Entry(Steps, Floats)) /\ s \in Nat
  BY TrialFields DEF ReportLists
<1>2. s \in Steps
  BY <1>1, PrunedAssumption DEF Steps
<1>3. Typed(u) /\ u.number = t.number
  BY <1>2, AddReportType DEF Typed
<1>4. Slots(iv, s) = {}
  BY <1>1 DEF InOrder, Slots
<1>5. u.intermediate_values = Append(iv, e) /\ u.state = t.state
  BY <1>4, Zenon DEF AddReport, Upsert, Typed, TrialType
<1> HIDE DEF iv, u
<1>6. e \in Entry(Steps, Floats) /\ e.key = s
  BY <1>2 DEF Entry
<1>7. Len(Append(iv, e)) = s + 1 /\ Append(iv, e)[s + 1] = e
      /\ \A i \in 1 .. s : Append(iv, e)[i] = iv[i]
  BY <1>1, <1>6
<1>8. InOrder(u)
  BY <1>1, <1>5, <1>6, <1>7 DEF InOrder, iv
<1> QED BY <1>3, <1>5, <1>7, <1>8 DEF iv, u

\* A running trial may be written without disturbing order and snapshots.
LEMMA WritingKeeps ==
    ASSUME PrunedInv, NEW n \in Running, NEW t, Typed(t), InOrder(t),
           t.number = n, DOMAIN trials' = DOMAIN trials, trials'[n] = t,
           \A m \in DOMAIN trials \ {n} : trials'[m] = trials[m],
           setup' = setup, snapshot' = snapshot, DOMAIN asked' = DOMAIN asked
    PROVE  TrialsInOrder' /\ SnapshotsStand'
<1>1. n \in DOMAIN trials /\ ~Terminal(trials[n])
  BY DEF Running
<1>2. TrialsInOrder'
  BY DEF PrunedInv, TrialsInOrder, Typed
<1>3. SnapshotsStand'
  BY <1>1 DEF PrunedInv, SnapshotsStand, Terminal
<1> QED BY <1>2, <1>3

LEMMA InitKeeps ==
    ASSUME Init
    PROVE  PrunedInv
<1>1. DOMAIN trials = {} /\ DOMAIN snapshot = {} /\ DOMAIN asked = {} /\ setup \in Setups
  BY DEF Init
<1>2. DOMAIN trials = 0 .. 0 - 1
  BY <1>1
<1>3. Ended = {}
  BY <1>1 DEF Ended
<1> QED BY <1>1, <1>2, <1>3 DEF PrunedInv, TrialsInOrder, AsksAfterReports, SnapshotsStand,
                                SomeoneCompletes

LEMMA BeginKeeps ==
    ASSUME PrunedInv, Begin
    PROVE  PrunedInv'
<1> DEFINE n == Cardinality(DOMAIN trials)
           S == [m \in Ended |-> trials[m]]
<1>1. PICK c \in Nat : DOMAIN trials = 0 .. c - 1
  BY DEF PrunedInv, TrialsInOrder
<1>2. n = c
  BY <1>1, FS_Interval
<1>3. /\ trials' = Extend(trials, n, NewTrial(n))
      /\ snapshot' = Extend(snapshot, n, S)
      /\ asked' = Extend(asked, n, <<>>) /\ setup' = setup
  BY DEF Begin
<1>4. /\ DOMAIN snapshot = DOMAIN trials /\ DOMAIN asked = DOMAIN trials
      /\ n \notin DOMAIN trials
  BY <1>1, <1>2 DEF PrunedInv, TrialsInOrder
<1>5. DOMAIN S = Ended /\ Ended \subseteq DOMAIN trials /\ \A m \in Ended : S[m] = trials[m]
  BY DEF Ended
<1> HIDE DEF n, S
<1>6. /\ DOMAIN trials' = DOMAIN trials \cup {n} /\ trials'[n] = NewTrial(n)
      /\ \A m \in DOMAIN trials : trials'[m] = trials[m]
  BY <1>3, <1>4 DEF Extend
<1>7. /\ DOMAIN snapshot' = DOMAIN trials \cup {n} /\ snapshot'[n] = S
      /\ \A m \in DOMAIN trials : snapshot'[m] = snapshot[m]
  BY <1>3, <1>4 DEF Extend
<1>8. /\ DOMAIN asked' = DOMAIN trials \cup {n} /\ asked'[n] = <<>>
      /\ \A m \in DOMAIN trials : asked'[m] = asked[m]
  BY <1>3, <1>4 DEF Extend
<1>9. /\ Typed(NewTrial(n)) /\ NewTrial(n).number = n
      /\ NewTrial(n).intermediate_values = <<>> /\ ~Terminal(NewTrial(n))
      /\ NewTrial(n).state # "Complete"
  BY <1>2, NewTrialType DEF Typed, NewTrial, Terminal
<1>10. InOrder(NewTrial(n))
  BY <1>9 DEF InOrder
<1>11. DOMAIN trials' = 0 .. (c + 1) - 1
  BY <1>1, <1>2, <1>6
<1>12. TrialsInOrder'
  <2>1. \A m \in DOMAIN trials' : /\ Typed(trials'[m]) /\ trials'[m].number = m
                                  /\ InOrder(trials'[m])
    BY <1>6, <1>9, <1>10 DEF PrunedInv, TrialsInOrder
  <2>2. \E d \in Nat : DOMAIN trials' = 0 .. d - 1
    BY <1>11
  <2> QED BY <1>3, <1>6, <1>7, <1>8, <2>1, <2>2 DEF PrunedInv, TrialsInOrder, Typed
<1>13. AsksAfterReports'
  <2>1. \A k \in DOMAIN trials : asked'[k] \in Seq(BOOLEAN) /\ Len(asked'[k]) <= Reports(k)'
    BY <1>6, <1>8 DEF PrunedInv, AsksAfterReports, Reports
  <2>2. asked'[n] \in Seq(BOOLEAN) /\ Len(asked'[n]) = 0
    BY <1>8
  <2>3. Len(trials'[n].intermediate_values) = 0
    BY <1>6, <1>9
  <2>4. \A k \in DOMAIN trials' : asked'[k] \in Seq(BOOLEAN) /\ Len(asked'[k]) <= Reports(k)'
    BY <1>6, <2>1, <2>2, <2>3 DEF Reports
  <2> QED BY <2>4 DEF AsksAfterReports
<1>14. SnapshotsStand'
  <2>1. \A m \in DOMAIN S : /\ m \in DOMAIN trials' \ {n} /\ Terminal(trials'[m])
                            /\ S[m] = trials'[m]
    BY <1>4, <1>5, <1>6 DEF Ended
  <2>2. \A k \in DOMAIN trials : \A m \in DOMAIN snapshot'[k] :
           /\ m \in DOMAIN trials' \ {k} /\ Terminal(trials'[m])
           /\ snapshot'[k][m] = trials'[m]
    BY <1>6, <1>7 DEF PrunedInv, SnapshotsStand
  <2> QED BY <1>6, <1>7, <2>1, <2>2 DEF SnapshotsStand, Terminal
<1>15. SomeoneCompletes'
  <2>1. Ended' = Ended
    BY <1>6, <1>9 DEF Ended, Terminal
  <2> QED BY <1>3, <1>6, <2>1 DEF PrunedInv, SomeoneCompletes
<1> QED BY <1>12, <1>13, <1>14, <1>15 DEF PrunedInv

LEMMA ReportKeeps ==
    ASSUME PrunedInv, NEW n \in DOMAIN trials,
           NEW v \in UNION {Vals[s] : s \in 0 .. LastStep}, Report(n, v)
    PROVE  /\ PrunedInv'
           /\ \A m \in Running : trials'[m].state = "Running"
<1> DEFINE t == trials[n]
           u == AddReport(t, Reports(n), v)
<1>1. /\ n \in Running /\ Reports(n) <= LastStep /\ trials' = [trials EXCEPT ![n] = u]
      /\ UNCHANGED <<setup, snapshot, asked>>
  BY DEF Report
<1>2. v \in Floats
  BY PrunedAssumption
<1>3. Typed(t) /\ InOrder(t) /\ t.number = n /\ t.state = "Running"
  BY <1>1 DEF PrunedInv, TrialsInOrder, Running, Terminal
<1>4. /\ Typed(u) /\ InOrder(u) /\ u.number = n /\ u.state = "Running"
      /\ Len(u.intermediate_values) = Reports(n) + 1 /\ Reports(n) \in Nat
  BY <1>1, <1>2, <1>3, ReportPushes, TrialFields DEF Reports, ReportLists
<1> HIDE DEF u
<1>5. /\ DOMAIN trials' = DOMAIN trials /\ trials'[n] = u
      /\ \A m \in DOMAIN trials \ {n} : trials'[m] = trials[m]
  BY <1>1, <1>4 DEF Running
<1>6. TrialsInOrder' /\ SnapshotsStand'
  BY <1>1, <1>4, <1>5, WritingKeeps
<1>7. AsksAfterReports'
  <2>1. ASSUME NEW k \in DOMAIN trials
        PROVE  asked[k] \in Seq(BOOLEAN) /\ Len(asked[k]) <= Reports(k)'
    <3>1. asked[k] \in Seq(BOOLEAN) /\ Len(asked[k]) <= Reports(k) /\ Len(asked[k]) \in Nat
      BY DEF PrunedInv, AsksAfterReports
    <3>2. CASE k = n
      BY <1>4, <1>5, <3>1, <3>2 DEF Reports
    <3>3. CASE k # n
      BY <1>5, <3>1, <3>3 DEF Reports
    <3> QED BY <3>2, <3>3
  <2> QED BY <1>1, <1>5, <2>1 DEF AsksAfterReports
<1>8. \A m \in DOMAIN trials : trials'[m].state = trials[m].state
  BY <1>3, <1>4, <1>5
<1>9. SomeoneCompletes'
  <2>1. Ended' = Ended
    BY <1>5, <1>8 DEF Ended, Terminal
  <2> QED BY <1>1, <1>5, <1>8, <2>1 DEF PrunedInv, SomeoneCompletes
<1> QED BY <1>6, <1>7, <1>8, <1>9 DEF PrunedInv, Running, Terminal

LEMMA CompleteKeeps ==
    ASSUME PrunedInv, NEW n \in DOMAIN trials, Complete(n)
    PROVE  /\ PrunedInv'
           /\ \A m \in Running : trials'[m].state # "Pruned"
<1> DEFINE t == trials[n]
           o == [kind |-> "Complete", value |-> LastIntermediate(t).val]
           u == FinishTrial(t, o)
<1>1. /\ n \in Running /\ Reports(n) = LastStep + 1 /\ trials' = [trials EXCEPT ![n] = u]
      /\ UNCHANGED <<setup, snapshot, asked>>
  BY DEF Complete
<1>2. Typed(t) /\ InOrder(t) /\ t.number = n
  BY <1>1 DEF PrunedInv, TrialsInOrder
<1>3. LastIntermediate(t).val \in Floats
  <2>1. t.intermediate_values # <<>>
    BY <1>1, PrunedAssumption DEF Reports
  <2> QED BY <1>2, <2>1, LastMirrors
<1>4. o \in Outcome(Floats) /\ o.kind = "Complete" /\ o.value = LastIntermediate(t).val
  BY <1>3 DEF Outcome
<1> HIDE DEF o
<1>5. Typed(u) /\ u.number = n
  BY <1>2, <1>4, FinishTrialType DEF Typed
<1>6. u.intermediate_values = t.intermediate_values /\ u.state = "Complete"
  BY <1>2, <1>4 DEF FinishTrial, Typed, TrialType
<1>7. InOrder(u)
  BY <1>2, <1>6 DEF InOrder
<1> HIDE DEF u
<1>8. /\ DOMAIN trials' = DOMAIN trials /\ trials'[n] = u
      /\ \A m \in DOMAIN trials \ {n} : trials'[m] = trials[m]
  BY <1>1 DEF Running
<1>9. TrialsInOrder' /\ SnapshotsStand'
  BY <1>1, <1>5, <1>7, <1>8, WritingKeeps
<1>10. \A m \in DOMAIN trials : Reports(m)' = Reports(m)
  BY <1>6, <1>8 DEF Reports
<1>11. AsksAfterReports'
  BY <1>1, <1>8, <1>10 DEF PrunedInv, AsksAfterReports
<1>12. SomeoneCompletes'
  BY <1>6, <1>8 DEF SomeoneCompletes
<1>13. \A m \in Running : trials'[m].state # "Pruned"
  BY <1>6, <1>8 DEF Running, Terminal
<1> QED BY <1>9, <1>11, <1>12, <1>13 DEF PrunedInv

LEMMA AskKeeps ==
    ASSUME PrunedInv, NEW n \in DOMAIN trials, Ask(n)
    PROVE  /\ PrunedInv'
           /\ n \in Running
           /\ \A m \in Running : trials'[m].state = "Pruned" => m = n /\ Verdict(n)
<1> DEFINE t == trials[n]
           u == IF Verdict(n) THEN FinishTrial(t, [kind |-> "Pruned"]) ELSE t
<1>1. /\ n \in Running /\ Len(asked[n]) < Reports(n)
      /\ asked' = [asked EXCEPT ![n] = Append(@, Verdict(n))]
      /\ trials' = IF Verdict(n)
                   THEN [trials EXCEPT ![n] = FinishTrial(t, [kind |-> "Pruned"])]
                   ELSE trials
      /\ UNCHANGED <<setup, snapshot>>
  BY DEF Ask, Verdict
<1>2. Typed(t) /\ InOrder(t) /\ t.number = n /\ t.state = "Running"
  BY <1>1 DEF PrunedInv, TrialsInOrder, Running, Terminal
<1>3. /\ Typed(u) /\ u.number = n
      /\ u.intermediate_values = t.intermediate_values
      /\ u.state = IF Verdict(n) THEN "Pruned" ELSE "Running"
  BY <1>2 DEF FinishTrial, Typed, TrialType, TrialStates
<1>4. InOrder(u)
  BY <1>2, <1>3 DEF InOrder
<1>5. /\ DOMAIN trials' = DOMAIN trials /\ trials'[n] = u
      /\ \A m \in DOMAIN trials \ {n} : trials'[m] = trials[m]
  BY <1>1
<1> HIDE DEF u
<1>6. DOMAIN asked' = DOMAIN asked /\ DOMAIN asked = DOMAIN trials
  BY <1>1 DEF PrunedInv, TrialsInOrder
<1>7. TrialsInOrder' /\ SnapshotsStand'
  BY <1>1, <1>2, <1>3, <1>4, <1>5, <1>6, WritingKeeps
<1>8. \A m \in DOMAIN trials : Reports(m)' = Reports(m) /\ Reports(m) \in Nat
  BY <1>3, <1>5, TrialFields DEF Reports, PrunedInv, TrialsInOrder, ReportLists
<1>9. AsksAfterReports'
  <2>1. ASSUME NEW k \in DOMAIN trials
        PROVE  asked'[k] \in Seq(BOOLEAN) /\ Len(asked'[k]) <= Reports(k)
    <3>1. asked[k] \in Seq(BOOLEAN) /\ Len(asked[k]) <= Reports(k) /\ Len(asked[k]) \in Nat
      BY DEF PrunedInv, AsksAfterReports
    <3>2. CASE k = n
      <4>1. asked'[n] = Append(asked[n], Verdict(n)) /\ Verdict(n) \in BOOLEAN
        BY <1>1, <1>6, VerdictIsBoolean
      <4>2. /\ Append(asked[n], Verdict(n)) \in Seq(BOOLEAN)
            /\ Len(Append(asked[n], Verdict(n))) = Len(asked[n]) + 1
        BY <3>1, <3>2, <4>1
      <4>3. Len(asked[n]) < Reports(n) /\ Reports(n) \in Nat /\ Len(asked[n]) \in Nat
        BY <1>1, <1>8, <3>1, <3>2
      <4>4. Len(Append(asked[n], Verdict(n))) <= Reports(n)
        BY <4>2, <4>3
      <4> QED BY <3>2, <4>1, <4>2, <4>4
    <3>3. CASE k # n
      BY <1>1, <1>6, <3>1, <3>3
    <3> QED BY <3>2, <3>3
  <2> QED BY <1>5, <1>8, <2>1 DEF AsksAfterReports
<1>10. SomeoneCompletes'
  <2>1. SUFFICES ASSUME setup.pruner # "halving" \/ ~setup.remote, Ended' # {}
                 PROVE  \E m \in DOMAIN trials : trials'[m].state = "Complete"
    BY <1>1, <1>5 DEF SomeoneCompletes
  <2>2. Ended # {}
    <3>1. CASE Verdict(n)
      BY <2>1, <3>1, PrunedIsBehind DEF Ended
    <3>2. CASE ~Verdict(n)
      BY <1>1, <2>1, <3>2 DEF Ended
    <3> QED BY <3>1, <3>2
  <2>3. PICK m \in DOMAIN trials : trials[m].state = "Complete"
    BY <2>1, <2>2 DEF PrunedInv, SomeoneCompletes
  <2>4. m # n
    BY <1>2, <2>3
  <2> QED BY <1>5, <2>3, <2>4
<1>11. \A m \in Running : trials'[m].state = "Pruned" => m = n /\ Verdict(n)
  BY <1>3, <1>5 DEF Running, Terminal
<1> QED BY <1>1, <1>7, <1>9, <1>10, <1>11 DEF PrunedInv

LEMMA NextKeeps ==
    ASSUME PrunedInv, [Next]_vars
    PROVE  PrunedInv'
<1>1. CASE Begin
  BY <1>1, BeginKeeps
<1>2. ASSUME NEW n \in DOMAIN trials, Ask(n)
      PROVE  PrunedInv'
  BY <1>2, AskKeeps
<1>3. ASSUME NEW n \in DOMAIN trials, Complete(n)
      PROVE  PrunedInv'
  BY <1>3, CompleteKeeps
<1>4. ASSUME NEW n \in DOMAIN trials, NEW v \in UNION {Vals[s] : s \in 0 .. LastStep},
             Report(n, v)
      PROVE  PrunedInv'
  BY <1>4, ReportKeeps
<1>5. CASE UNCHANGED vars
  <2>1. setup' = setup /\ trials' = trials /\ snapshot' = snapshot /\ asked' = asked
    BY <1>5 DEF vars
  <2> QED BY <2>1 DEF PrunedInv, TrialsInOrder, AsksAfterReports, SnapshotsStand,
                      SomeoneCompletes, Ended, Reports, Typed
<1> QED BY <1>1, <1>2, <1>3, <1>4, <1>5 DEF Next

LEMMA PrunedInvariant == Spec => []PrunedInv
<1>1. Init => PrunedInv
  BY InitKeeps
<1>2. PrunedInv /\ [Next]_vars => PrunedInv'
  BY NextKeeps
<1> QED BY <1>1, <1>2, PTL DEF Spec

\* Types and ranges of the variables (study_state.rs:10-20, context.rs:104-122).
THEOREM PrunedTypes == Spec => []TypeOK
<1>1. PrunedInv => TypeOK
  <2> SUFFICES ASSUME PrunedInv PROVE TypeOK
    OBVIOUS
  <2>1. PICK c \in Nat : DOMAIN trials = 0 .. c - 1
    BY DEF PrunedInv, TrialsInOrder
  <2>2. Cardinality(DOMAIN trials) = c
    BY <2>1, FS_Interval
  <2>3. \A n \in DOMAIN trials : DOMAIN snapshot[n] \subseteq DOMAIN trials \ {n}
    BY DEF PrunedInv, SnapshotsStand
  <2> QED BY <2>1, <2>2, <2>3 DEF PrunedInv, TrialsInOrder, AsksAfterReports, TypeOK,
                                  Typed, Steps
<1> QED BY <1>1, PrunedInvariant, PTL

\* Pruning eats a whole study only where successive halving compares trials that are
\* still running (successive_halving.rs:7-9).
THEOREM SomeSurvive == Spec => []OnlyLiveHalvingPrunesAll
<1>1. PrunedInv => OnlyLiveHalvingPrunesAll
  <2> SUFFICES ASSUME PrunedInv, ~NotAllPruned
               PROVE  setup.pruner = "halving" /\ setup.remote
    BY DEF OnlyLiveHalvingPrunesAll
  <2>1. /\ Cardinality(DOMAIN trials) = NTrials /\ Running = {} /\ NTrials > 0
        /\ ~\E n \in DOMAIN trials : trials[n].state = "Complete"
    BY DEF NotAllPruned
  <2>2. DOMAIN trials # {}
    BY <2>1, FS_EmptySet
  <2>3. Ended # {}
    BY <2>1, <2>2 DEF Running, Ended
  <2>4. setup.remote \in BOOLEAN
    BY SetupTypes DEF PrunedInv, TrialsInOrder
  <2> QED BY <2>1, <2>3, <2>4 DEF PrunedInv, SomeoneCompletes
<1> QED BY <1>1, PrunedInvariant, PTL

\* A trial that a step prunes was told so by the pruner in that step.
LEMMA OnlyVerdictsPrune ==
    ASSUME PrunedInv, [Next]_vars, NEW n \in DOMAIN trials, JustPruned(n)
    PROVE  Verdict(n)
<1>1. n \in Running /\ trials'[n].state = "Pruned" /\ trials[n].state = "Running"
  BY DEF JustPruned, Running, Terminal
<1>2. CASE Begin
  <2>1. trials' = Extend(trials, Cardinality(DOMAIN trials), NewTrial(Cardinality(DOMAIN trials)))
    BY <1>2 DEF Begin
  <2>2. trials'[n] = IF n = Cardinality(DOMAIN trials)
                     THEN NewTrial(Cardinality(DOMAIN trials)) ELSE trials[n]
    BY <2>1 DEF Extend
  <2> QED BY <1>1, <2>2 DEF NewTrial
<1>3. ASSUME NEW m \in DOMAIN trials, Ask(m)
      PROVE  Verdict(n)
  BY <1>1, <1>3, AskKeeps
<1>4. ASSUME NEW m \in DOMAIN trials, Complete(m)
      PROVE  FALSE
  BY <1>1, <1>4, CompleteKeeps
<1>5. ASSUME NEW m \in DOMAIN trials, NEW v \in UNION {Vals[s] : s \in 0 .. LastStep},
             Report(m, v)
      PROVE  FALSE
  BY <1>1, <1>5, ReportKeeps
<1>6. CASE UNCHANGED vars
  BY <1>1, <1>6 DEF vars
<1> QED BY <1>2, <1>3, <1>4, <1>5, <1>6 DEF Next

\* A trial no other trial beats where it is compared is never pruned
\* (successive_halving.rs:108-111, median.rs:72-75).
THEOREM LeadersGoOn == Spec => LeaderSurvives
<1>1. PrunedInv /\ [Next]_vars =>
        \A n \in DOMAIN trials : JustPruned(n) =>
          \E m \in DOMAIN trials \ {n} :
              Beats(ValueAtOrAfter(trials[m], Compared(n)),
                    LastIntermediate(trials[n]).val)
  BY OnlyVerdictsPrune, PrunedIsBehind
<1> QED BY <1>1, PrunedInvariant, PTL DEF Spec, LeaderSurvives

\* Mirroring a study changes no verdict: maximizing is minimizing the negated
\* objective (lib.rs:39-46, study_state.rs:86-94).
THEOREM MirrorsAgree == Spec => []DirectionSymmetry
<1>1. PrunedInv => DirectionSymmetry
  <2> SUFFICES ASSUME PrunedInv, NEW n \in Running, Reports(n) > 0
               PROVE  ShouldPrune(setup.pruner, setup.direction, View(n), trials[n])
                        = ShouldPrune(setup.pruner, Opposite(setup.direction),
                                      MirroredHistory(View(n)), Mirrored(trials[n]))
    BY DEF DirectionSymmetry, MirroredHistory
  <2>1. n \in DOMAIN trials
    BY DEF Running
  <2>2. Readable(View(n))
    BY <2>1, ViewIsPresent
  <2>3. Typed(trials[n]) /\ trials[n].intermediate_values # <<>>
    BY <2>1 DEF PrunedInv, TrialsInOrder, Reports
  <2>4. setup.direction \in Directions /\ setup.pruner \in {"nop", "median", "halving"}
    BY SetupTypes DEF PrunedInv, TrialsInOrder
  <2> QED BY <2>2, <2>3, <2>4, MedianVerdictMirrors, HalvingVerdictMirrors DEF ShouldPrune
<1> QED BY <1>1, PrunedInvariant, PTL

\* A trial the median pruner stops is behind at least half of the ended trials
\* that reported at its step (median.rs:7-13, 64-76).
THEOREM HalfWereAhead == Spec => PrunedByHalf
<1> DEFINE Step(n)   == Reports(n) - 1
           Peers(n)  == {m \in DOMAIN trials :
                            /\ trials[m].state \in {"Complete", "Pruned"}
                            /\ m \in DOMAIN View(n)
                            /\ ValueAtStep(trials[m], Step(n)) \notin {None, NaN}}
           Betters(n) == {m \in Peers(n) : Beats(ValueAtStep(trials[m], Step(n)),
                                                LastIntermediate(trials[n]).val)}
<1>1. ASSUME PrunedInv, [Next]_vars, setup.pruner = "median",
             NEW n \in DOMAIN trials, JustPruned(n)
      PROVE  Betters(n) # {} /\ 2 * Cardinality(Betters(n)) >= Cardinality(Peers(n))
  <2> DEFINE dir    == setup.direction
             t      == trials[n]
             h      == View(n)
             others == IntermediateValuesAt(h, Step(n))
             last   == LastIntermediate(t)
  <2>1. MedianShouldPrune(dir, h, t)
    BY <1>1, OnlyVerdictsPrune DEF Verdict, ShouldPrune
  <2>2. /\ Readable(h)
        /\ \A m \in DOMAIN h : m \in DOMAIN trials /\ h[m] = trials[m]
    BY <1>1, ViewIsPresent
  <2>3. dir \in Directions /\ Typed(t) /\ InOrder(t)
    BY <1>1, SetupTypes DEF PrunedInv, TrialsInOrder
  <2>4. /\ Ahead(dir, others, last.val) # {}
        /\ 2 * Cardinality(Ahead(dir, others, last.val)) >= Cardinality(Counted(others))
    BY <2>1, <2>2, <2>3, MedianVerdict DEF Reports
  <2> HIDE DEF h
  <2>5. /\ DOMAIN others = {m \in DOMAIN h : /\ trials[m].state \in {"Complete", "Pruned"}
                                             /\ ValueAtStep(trials[m], Step(n)) # None}
        /\ \A m \in DOMAIN others : others[m] = ValueAtStep(trials[m], Step(n))
    BY <2>2 DEF IntermediateValuesAt
  <2>6. Peers(n) = Counted(others)
    BY <2>2, <2>5 DEF Counted, h
  <2>7. Betters(n) = Ahead(dir, others, last.val)
    BY <2>2, <2>5 DEF Ahead, Beats, IsBetter, h
  <2> QED BY <2>4, <2>6, <2>7
<1>2. PrunedInv /\ [Next]_vars =>
        (setup.pruner = "median" => \A n \in DOMAIN trials : JustPruned(n) =>
          LET step   == Reports(n) - 1
              peers  == {m \in DOMAIN trials : /\ trials[m].state \in {"Complete", "Pruned"}
                                               /\ m \in DOMAIN View(n)
                                               /\ ValueAtStep(trials[m], step) \notin {None, NaN}}
              better == {m \in peers : Beats(ValueAtStep(trials[m], step),
                                              LastIntermediate(trials[n]).val)}
          IN  better # {} /\ 2 * Cardinality(better) >= Cardinality(peers))
  BY <1>1
<1> QED BY <1>2, PrunedInvariant, PTL DEF Spec, PrunedByHalf


-----------------------------------------------------------------------------
(* The rungs of successive halving.                                         *)

\* eta.pow: it is what its definition says, exceeds its exponent, and grows.
LEMMA PowerIs ==
    /\ Power \in [Nat -> Nat \ {0}] /\ Power[0] = 1
    /\ \A k \in Nat : Power[k + 1] = ReductionFactor * Power[k] /\ k < Power[k]
    /\ \A i, j \in Nat : i <= j => Power[i] <= Power[j]
<1>1. Power = PowersOf(ReductionFactor) /\ ReductionFactor \in Nat \ {0, 1}
  BY PrunerAssumption DEF Power, PowersOf, ArePowers
<1>2. /\ Power \in [Nat -> Nat \ {0}] /\ Power[0] = 1
      /\ \A k \in Nat : Power[k + 1] = ReductionFactor * Power[k]
  BY <1>1, PowersUnfold
<1>3. \A i, j \in Nat : i <= j => Power[i] <= Power[j]
  BY <1>1, PowersGrow
<1>4. ASSUME NEW n \in Nat PROVE n < Power[n]
  <2> DEFINE S == {k \in Nat : k < Power[k]}
  <2>1. 0 \in S
    BY <1>2
  <2>2. ASSUME NEW k \in 1 .. n, k - 1 \in S PROVE k \in S
    <3> DEFINE x == Power[k - 1]
    <3>1. k - 1 \in Nat /\ x \in Nat /\ k - 1 < x /\ Power[k] = ReductionFactor * x
      BY <1>2, <2>2
    <3> HIDE DEF x
    <3>2. ReductionFactor - 2 \in Nat /\ (ReductionFactor - 2) * x \in Nat
          /\ ReductionFactor * x = (ReductionFactor - 2) * x + (x + x)
      BY <1>1, <3>1
    <3> QED BY <3>1, <3>2
  <2> HIDE DEF S
  <2>3. \A k \in 0 .. n : k \in S
    BY <2>1, <2>2, StepByStep
  <2> QED BY <2>3 DEF S
<1> QED BY <1>2, <1>3, <1>4

\* The climb from a rung, given the climbs from those above it.
ClimbFrom(step, f, rung) ==
    LET next == SaturatingMul(rung, ReductionFactor)
    IN  IF next > step THEN rung ELSE IF next = rung THEN Forever ELSE f[next]

IsClimb(step, f) == f = [rung \in 0 .. U64 - 1 |-> ClimbFrom(step, f, rung)]

\* saturating_mul stays in a u64, and above zero it grows but at the top.
LEMMA SaturatingGrows ==
    ASSUME NEW a \in 0 .. U64 - 1
    PROVE  /\ SaturatingMul(a, ReductionFactor) \in 0 .. U64 - 1
           /\ a # 0 => a < SaturatingMul(a, ReductionFactor)
                       \/ SaturatingMul(a, ReductionFactor) = a
           /\ a = 0 => SaturatingMul(a, ReductionFactor) = 0
<1> DEFINE p == a * ReductionFactor
<1>1. ReductionFactor - 2 \in Nat /\ U64 \in Nat \ {0} /\ a \in Nat
  BY PrunerAssumption
<1>2. p \in Nat /\ (ReductionFactor - 2) * a \in Nat
      /\ p = (ReductionFactor - 2) * a + (a + a)
  BY <1>1, PrunerAssumption
<1>3. SaturatingMul(a, ReductionFactor) = IF p >= U64 THEN U64 - 1 ELSE p
  BY DEF SaturatingMul
<1>4. a = 0 => p = 0
  BY <1>1, PrunerAssumption
<1> HIDE DEF p
<1> QED BY <1>1, <1>2, <1>3, <1>4

\* The climb exists: every way up ends.
LEMMA WayUpEnds ==
    ASSUME NEW step \in Nat
    PROVE  \E f : IsClimb(step, f)
<1> DEFINE D == 0 .. U64 - 1
           V == D \cup {Forever}
           X == [D -> V]
           Sat(rung) == SaturatingMul(rung, ReductionFactor)
           Next1(f) == [rung \in D |-> ClimbFrom(step, f, rung)]
           F == [e \in Nat \X X |-> Next1(e[2])]
           zero == [rung \in D |-> Forever]
<1>1. ASSUME NEW f \in X PROVE Next1(f) \in X
  <2>1. ASSUME NEW rung \in D PROVE ClimbFrom(step, f, rung) \in V
    <3>1. Sat(rung) \in D
      BY SaturatingGrows
    <3> QED BY <3>1 DEF ClimbFrom
  <2> QED BY <2>1
<1>2. zero \in X
  OBVIOUS
<1>3. F \in [Nat \X X -> X] /\ \A k \in Nat, f \in X : F[<<k, f>>] = Next1(f)
  <2> HIDE DEF X
  <2> QED BY <1>1
<1> HIDE DEF F, zero, X, Next1
<1>4. PICK g : Unfolds(X, zero, F, g)
  BY <1>2, <1>3, Recursion
<1>5. ASSUME NEW k \in Nat PROVE g[k] \in X /\ g[k + 1] = Next1(g[k])
  <2>1. k + 1 \in Nat /\ k + 1 # 0 /\ (k + 1) - 1 = k
    OBVIOUS
  <2>2. g[k] \in X /\ g[k + 1] = F[<<k, g[k]>>]
    BY <1>4, <2>1 DEF Unfolds
  <2> QED BY <1>3, <2>2
<1>6. ASSUME NEW k \in Nat, NEW rung \in D
      PROVE  g[k + 1][rung] = ClimbFrom(step, g[k], rung)
  BY <1>5 DEF Next1
<1>7. U64 \in Nat \ {0}
  BY PrunerAssumption
<1>8. \A k \in 0 .. U64 : \A rung \in D \ {0} : U64 <= rung + k => g[k][rung] = g[k + 1][rung]
  <2> DEFINE S == {k \in Nat : \A rung \in D \ {0} : U64 <= rung + k => g[k][rung] = g[k + 1][rung]}
  <2>1. 0 \in S
    BY <1>7
  <2>2. ASSUME NEW k \in 1 .. U64, k - 1 \in S PROVE k \in S
    <3>1. ASSUME NEW rung \in D \ {0}, U64 <= rung + k PROVE g[k][rung] = g[k + 1][rung]
      <4>1. k - 1 \in Nat /\ k \in Nat /\ (k - 1) + 1 = k
        BY <1>7
      <4>2. /\ g[k][rung] = ClimbFrom(step, g[k - 1], rung)
            /\ g[k + 1][rung] = ClimbFrom(step, g[k], rung)
        BY <1>6, <4>1
      <4>3. Sat(rung) \in D /\ (rung < Sat(rung) \/ Sat(rung) = rung)
        BY SaturatingGrows
      <4>4. CASE Sat(rung) = rung
        BY <4>2, <4>4 DEF ClimbFrom
      <4>5. CASE rung < Sat(rung)
        <5> DEFINE s == Sat(rung)
        <5>1. s \in D \ {0} /\ U64 <= s + (k - 1)
          <6>1. s \in D /\ rung < s
            BY <4>3, <4>5
          <6> HIDE DEF s
          <6> QED BY <1>7, <3>1, <6>1
        <5> HIDE DEF s
        <5>2. g[k - 1][s] = g[k][s]
          BY <2>2, <4>1, <5>1
        <5> QED BY <4>2, <5>2 DEF ClimbFrom, s
      <4> QED BY <4>3, <4>4, <4>5
    <3>2. k \in Nat
      BY <1>7
    <3> QED BY <3>1, <3>2
  <2> HIDE DEF S
  <2>3. \A k \in 0 .. U64 : k \in S
    BY <1>7, <2>1, <2>2, StepByStep
  <2> QED BY <2>3 DEF S
<1> DEFINE f == g[U64]
<1>9. ASSUME NEW rung \in D PROVE f[rung] = ClimbFrom(step, f, rung)
  <2>1. g[U64 + 1][rung] = ClimbFrom(step, f, rung)
    BY <1>6, <1>7
  <2>2. CASE rung # 0
    <3>1. U64 \in 0 .. U64 /\ U64 <= rung + U64
      BY <1>7
    <3> QED BY <1>8, <2>1, <2>2, <3>1
  <2>3. CASE rung = 0
    <3>1. Sat(rung) = 0
      BY <2>3, SaturatingGrows
    <3>2. ASSUME NEW h PROVE ClimbFrom(step, h, rung) = Forever
      BY <2>3, <3>1 DEF ClimbFrom
    <3>3. U64 - 1 \in Nat /\ (U64 - 1) + 1 = U64
      BY <1>7
    <3>4. f[rung] = ClimbFrom(step, g[U64 - 1], rung)
      BY <1>6, <3>3
    <3> QED BY <3>2, <3>4
  <2> QED BY <2>2, <2>3
<1>10. f \in X
  BY <1>5, <1>7
<1> HIDE DEF f
<1>11. f = [rung \in D |-> f[rung]]
  BY <1>10 DEF X
<1> QED BY <1>9, <1>11 DEF IsClimb

\* The j-th rung above the first.
Rung(j) == MinResource * Power[MinEarlyStoppingRate + j]

LEMMA RungGrows ==
    ASSUME NEW j \in Nat
    PROVE  /\ Rung(j) \in Nat \ {0} /\ Rung(j + 1) = Rung(j) * ReductionFactor
           /\ Rung(j) < Rung(j + 1) /\ MinEarlyStoppingRate + j < Rung(j)
           /\ \A k \in Nat : MinEarlyStoppingRate + j <= k => Rung(j) <= MinResource * Power[k]
<1> DEFINE e == MinEarlyStoppingRate + j
           p == Power[e]
<1>1. /\ e \in Nat /\ e + 1 = MinEarlyStoppingRate + (j + 1) /\ MinResource - 1 \in Nat
      /\ MinResource \in Nat \ {0} /\ ReductionFactor - 2 \in Nat /\ ReductionFactor \in Nat
  BY PrunerAssumption
<1> HIDE DEF e
<1>2. p \in Nat \ {0} /\ e < p /\ Power[e + 1] = ReductionFactor * p
  BY <1>1, PowerIs
<1> HIDE DEF p
<1> DEFINE r == MinResource * p
<1>3. (MinResource - 1) * p \in Nat /\ r = (MinResource - 1) * p + p
  BY <1>1, <1>2
<1>4. MinResource * (ReductionFactor * p) = r * ReductionFactor
  BY <1>1, <1>2
<1>5. Rung(j) = r /\ Rung(j + 1) = r * ReductionFactor
  BY <1>1, <1>2, <1>4 DEF Rung, e, p
<1> HIDE DEF r
<1>6. r \in Nat \ {0} /\ e < r
  BY <1>1, <1>2, <1>3
<1>7. (ReductionFactor - 2) * r \in Nat /\ r * ReductionFactor = (ReductionFactor - 2) * r + (r + r)
  BY <1>1, <1>6
<1>8. r < r * ReductionFactor
  BY <1>6, <1>7
<1>9. ASSUME NEW k \in Nat, e <= k PROVE r <= MinResource * Power[k]
  <2> DEFINE q == Power[k]
  <2>1. q \in Nat /\ p <= q
    BY <1>1, <1>9, PowerIs DEF p
  <2> HIDE DEF q
  <2>2. q - p \in Nat /\ MinResource * (q - p) \in Nat
        /\ MinResource * q = MinResource * (q - p) + MinResource * p
    BY <1>1, <1>2, <2>1
  <2>3. r = MinResource * p /\ MinResource * q \in Nat
    BY <1>1, <2>1 DEF r
  <2> QED BY <1>6, <2>2, <2>3 DEF q
<1> QED BY <1>5, <1>6, <1>8, <1>9 DEF e

\* A step that has got to the first rung is on the last one that is not beyond it.
LEMMA RungIs ==
    ASSUME RungsFit, NEW step \in 0 .. LastStep
    PROVE  /\ step < Rung(0) => RungResourceFor(step) = None
           /\ ~(step < Rung(0)) =>
                 \E K \in Nat : /\ RungResourceFor(step) = Rung(K)
                                /\ Rung(K) <= step /\ step < Rung(K + 1)
<1>1. U64 \in Nat \ {0} /\ LastStep \in Nat /\ step \in Nat /\ step < U64 - 1
      /\ MinEarlyStoppingRate \in Nat
  BY PrunerAssumption, PrunedAssumption DEF RungsFit
<1>2. Rung(0) \in Nat \ {0} /\ Rung(0) < U64
  <2>1. 0 \in Nat /\ MinEarlyStoppingRate + 0 = MinEarlyStoppingRate
    BY <1>1
  <2> QED BY <2>1, RungGrows DEF RungsFit, Rung
<1>3. FirstRung = Rung(0)
  <2> DEFINE p == Power[MinEarlyStoppingRate]
  <2>1. p \in Nat /\ Rung(0) = MinResource * p /\ MinResource - 1 \in Nat /\ MinResource \in Nat
    <3>1. /\ MinEarlyStoppingRate + 0 = MinEarlyStoppingRate
          /\ MinResource - 1 \in Nat /\ MinResource \in Nat
      BY <1>1, PrunerAssumption
    <3>2. p \in Nat
      BY <1>1, PowerIs
    <3>3. Rung(0) = MinResource * p
      BY <3>1 DEF Rung
    <3> QED BY <3>1, <3>2, <3>3
  <2>2. FirstRung = (MinResource * (p % U64)) % U64
    BY DEF FirstRung
  <2> HIDE DEF p
  <2>3. (MinResource - 1) * p \in Nat /\ MinResource * p = (MinResource - 1) * p + p
    BY <2>1
  <2>4. p < U64
    BY <1>1, <1>2, <2>1, <2>3
  <2>5. p % U64 = p
    BY <1>1, <2>1, <2>4
  <2> DEFINE a == Rung(0)
  <2>6. a \in Nat /\ a < U64 /\ FirstRung = a % U64
    BY <1>2, <2>1, <2>2, <2>5
  <2> HIDE DEF a
  <2>7. a % U64 = a
    BY <1>1, <2>6
  <2> QED BY <2>6, <2>7 DEF a
<1> DEFINE f == CHOOSE g : IsClimb(step, g)
<1>4. IsClimb(step, f)
  BY <1>1, WayUpEnds
<1>5. RungResourceFor(step) = IF step < FirstRung THEN None ELSE f[FirstRung]
  BY DEF RungResourceFor, IsClimb, ClimbFrom
<1> HIDE DEF f
<1>6. \A rung \in 0 .. U64 - 1 : f[rung] = ClimbFrom(step, f, rung)
  BY <1>4 DEF IsClimb
<1>7. SUFFICES ASSUME ~(step < Rung(0))
               PROVE  \E K \in Nat : /\ f[Rung(0)] = Rung(K)
                                     /\ Rung(K) <= step /\ step < Rung(K + 1)
  BY <1>3, <1>5
<1>8. PICK K \in Nat : /\ step < Rung(K + 1) /\ \A j \in 0 .. K : Rung(j) <= step
  <2> DEFINE T == {j \in Nat : step < Rung(j)}
  <2>1. step \in T
    <3>1. MinEarlyStoppingRate + step < Rung(step) /\ Rung(step) \in Nat
      BY <1>1, RungGrows
    <3> QED BY <1>1, <3>1
  <2>2. T \subseteq Nat /\ T # {}
    BY <2>1
  <2>3. PICK L \in T : \A j \in T : L <= j
    BY <2>2, LeastNatural
  <2>4. L \in Nat /\ L # 0 /\ step < Rung(L)
    BY <1>7, <2>3
  <2>5. L - 1 \in Nat /\ (L - 1) + 1 = L
    BY <2>4
  <2>6. ASSUME NEW j \in 0 .. L - 1 PROVE Rung(j) <= step
    <3>1. j \in Nat /\ ~(L <= j)
      BY <2>4
    <3>2. ~(step < Rung(j)) /\ Rung(j) \in Nat
      BY <2>3, <3>1, RungGrows
    <3> QED BY <1>1, <3>2
  <2> QED BY <2>4, <2>5, <2>6
<1>9. ASSUME NEW j \in 0 .. K
      PROVE  /\ j \in Nat /\ Rung(j) \in Nat \ {0} /\ Rung(j) \in 0 .. U64 - 1
             /\ Rung(j + 1) = Rung(j) * ReductionFactor /\ Rung(j) < Rung(j + 1)
             /\ Rung(j + 1) \in Nat /\ Rung(j) <= step
  <2>1. j \in Nat /\ j + 1 \in Nat
    BY <1>8
  <2>2. /\ Rung(j) \in Nat \ {0} /\ Rung(j + 1) = Rung(j) * ReductionFactor
        /\ Rung(j) < Rung(j + 1) /\ Rung(j + 1) \in Nat
    BY <2>1, RungGrows
  <2>3. Rung(j) <= step
    BY <1>8
  <2> QED BY <1>1, <2>1, <2>2, <2>3
<1> DEFINE S == {i \in Nat : i <= K => f[Rung(K - i)] = Rung(K)}
<1>10. 0 \in S
  <2>1. K \in 0 .. K /\ K - 0 = K
    BY <1>8
  <2> DEFINE a == Rung(K)
             b == Rung(K + 1)
             next == SaturatingMul(a, ReductionFactor)
  <2>2. /\ a \in 0 .. U64 - 1 /\ b = a * ReductionFactor /\ b \in Nat /\ step < b
        /\ f[a] = ClimbFrom(step, f, a)
    BY <1>6, <1>8, <1>9, <2>1
  <2> HIDE DEF a, b
  <2>3. next > step
    BY <1>1, <2>2 DEF SaturatingMul
  <2>4. f[a] = a
    BY <2>2, <2>3 DEF ClimbFrom
  <2> QED BY <2>1, <2>4 DEF a
<1>11. ASSUME NEW i \in 1 .. K, i - 1 \in S PROVE i \in S
  <2> DEFINE j == K - i
             a == Rung(j)
             b == Rung(j + 1)
             next == SaturatingMul(a, ReductionFactor)
  <2>1. j \in 0 .. K /\ j + 1 \in 0 .. K /\ j + 1 = K - (i - 1) /\ i - 1 <= K /\ i \in Nat
    BY <1>8
  <2> HIDE DEF j
  <2>2. /\ a \in 0 .. U64 - 1 /\ b = a * ReductionFactor /\ b \in Nat /\ b <= step /\ a < b
        /\ f[a] = ClimbFrom(step, f, a)
    BY <1>6, <1>9, <2>1
  <2>3. f[b] = Rung(K)
    BY <1>11, <2>1
  <2> HIDE DEF a, b
  <2>4. next = b
    BY <1>1, <2>2 DEF SaturatingMul
  <2>5. f[a] = f[b]
    BY <1>1, <2>2, <2>4 DEF ClimbFrom
  <2> QED BY <2>1, <2>3, <2>5 DEF a, j
<1> HIDE DEF S
<1>12. K \in S
  <2>1. K \in 0 .. K /\ \A i \in 1 .. K : i - 1 \in S => i \in S
    BY <1>8, <1>11
  <2> QED BY <1>8, <1>10, <2>1, StepByStep
<1>13. f[Rung(0)] = Rung(K)
  <2>1. K - K = 0 /\ K <= K
    BY <1>8
  <2> QED BY <1>12, <2>1 DEF S
<1>14. Rung(K) <= step
  BY <1>8
<1> QED BY <1>8, <1>13, <1>14

\* The rung of a step a trial is at is the highest of the ladder that the step has reached
\* (successive_halving.rs:59-60), for any options whose first rung is within a u64.
THEOREM RungsAreHighest ==
    ASSUME RungsFit
    PROVE  Spec => []RungIsHighest
<1>1. ASSUME NEW step \in 0 .. LastStep
      PROVE  LET reached == {r \in Ladder : r <= step}
             IN  IF reached = {} THEN RungResourceFor(step) = None
                 ELSE /\ RungResourceFor(step) \in reached
                      /\ \A r \in reached : r <= RungResourceFor(step)
  <2> DEFINE M == MinEarlyStoppingRate
             reached == {r \in Ladder : r <= step}
  <2>1. M \in Nat /\ LastStep \in Nat /\ step \in Nat
    BY PrunerAssumption, PrunedAssumption
  <2>2. ASSUME NEW j \in Nat, NEW k \in Nat, M + j <= k PROVE Rung(j) <= MinResource * Power[k]
    BY <2>2, RungGrows
  <2>3. \A k \in Nat : MinResource * Power[k] \in Nat
    <3>1. ASSUME NEW k \in Nat PROVE MinResource * Power[k] \in Nat
      <4> DEFINE p == Power[k]
      <4>1. p \in Nat /\ MinResource \in Nat
        BY PrunerAssumption, PowerIs
      <4> HIDE DEF p
      <4>2. MinResource * p \in Nat
        BY <4>1
      <4> QED BY <4>2 DEF p
    <3> QED BY <3>1
  <2>4. ASSUME NEW r \in Ladder PROVE \E k \in Nat : M <= k /\ k <= LastStep + 5 /\ r = MinResource * Power[k]
    BY <2>1 DEF Ladder
  <2>5. CASE step < Rung(0)
    <3>1. ASSUME NEW r \in reached PROVE FALSE
      <4>1. PICK k \in Nat : M <= k /\ r = MinResource * Power[k]
        BY <2>4
      <4>2. Rung(0) <= r /\ r \in Nat /\ r <= step
        <5>1. M + 0 <= k /\ 0 \in Nat
          BY <2>1, <4>1
        <5> QED BY <2>2, <2>3, <4>1, <5>1
      <4>3. Rung(0) \in Nat
        <5>1. 0 \in Nat
          OBVIOUS
        <5> QED BY <5>1, RungGrows
      <4> QED BY <2>1, <2>5, <4>2, <4>3
    <3> QED BY <2>5, <3>1, RungIs
  <2>6. CASE ~(step < Rung(0))
    <3>1. PICK K \in Nat : /\ RungResourceFor(step) = Rung(K)
                           /\ Rung(K) <= step /\ step < Rung(K + 1)
      BY <2>6, RungIs
    <3>2. /\ Rung(K) \in Nat /\ M + K < Rung(K)
          /\ Rung(K + 1) \in Nat /\ Rung(K) = MinResource * Power[M + K]
      BY RungGrows DEF Rung
    <3>3. Rung(K) \in reached
      <4>1. M + K \in M .. LastStep + 5
        BY <2>1, <3>1, <3>2
      <4> QED BY <3>1, <3>2, <4>1 DEF Ladder
    <3>4. ASSUME NEW r \in reached PROVE r <= Rung(K)
      <4>1. PICK k \in Nat : M <= k /\ r = MinResource * Power[k]
        BY <2>4
      <4>2. r \in Nat /\ r <= step
        BY <2>3, <4>1
      <4>3. ~(M + (K + 1) <= k)
        <5>1. M + (K + 1) <= k => Rung(K + 1) <= r
          BY <2>2, <4>1
        <5> QED BY <2>1, <3>1, <3>2, <4>2, <5>1
      <4>4. k <= M + K /\ M + K \in Nat
        BY <2>1, <4>3
      <4>5. Power[k] <= Power[M + K] /\ Power[k] \in Nat /\ Power[M + K] \in Nat
        BY <4>4, PowerIs
      <4> DEFINE x == Power[k]
                 y == Power[M + K]
      <4>6. x \in Nat /\ y - x \in Nat /\ y \in Nat /\ MinResource \in Nat
        BY <4>5, PrunerAssumption
      <4>7. r = MinResource * x /\ Rung(K) = MinResource * y
        BY <3>2, <4>1
      <4> HIDE DEF x, y
      <4>8. MinResource * (y - x) \in Nat /\ MinResource * y = MinResource * (y - x) + MinResource * x
        BY <4>6
      <4> QED BY <3>2, <4>2, <4>7, <4>8
    <3> HIDE DEF reached
    <3>5. reached # {}
      BY <3>3
    <3> QED BY <3>1, <3>3, <3>4, <3>5 DEF reached
  <2> QED BY <2>5, <2>6
<1>2. PrunedInv => RungIsHighest
  <2> SUFFICES ASSUME PrunedInv, NEW n \in DOMAIN trials,
                      NEW step \in Keys(trials[n].intermediate_values)
               PROVE  step \in 0 .. LastStep
    BY <1>1 DEF RungIsHighest
  <2>1. Typed(trials[n])
    BY DEF PrunedInv, TrialsInOrder
  <2>2. trials[n].intermediate_values \in Seq(Entry(Steps, Floats))
    BY <2>1, TrialFields DEF ReportLists
  <2> DEFINE s == trials[n].intermediate_values
  <2>3. s \in Seq(Entry(Steps, Floats)) /\ step \in Keys(s)
    BY <2>2
  <2> HIDE DEF s
  <2>4. PICK i \in DOMAIN s : step = s[i].key
    BY <2>3 DEF Keys
  <2>5. s[i] \in Entry(Steps, Floats)
    BY <2>3, <2>4
  <2> QED BY <2>4, <2>5 DEF Entry, Steps
<1> QED BY <1>2, PrunedInvariant, PTL
=============================================================================
