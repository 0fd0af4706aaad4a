---------------------------- MODULE SampledProofs ----------------------------
(***************************************************************************)
(* Proofs about SampledStudy: what samplers answer lies in the range they  *)
(* are asked for; the vectors CMA-ES caches are of their trial's history   *)
(* and are used whole; what its engine recombines is the best of what it   *)
(* is told; earlier generations stay; a lap of the grid covers it once.    *)
(***************************************************************************)
EXTENDS SampledStudy, TrialsProofs

-----------------------------------------------------------------------------
(* Numbers.                                                                 *)

LEMMA MaxOfTwo ==
    ASSUME NEW a \in Int, NEW b \in Int
    PROVE  Max({a, b}) \in {a, b} /\ a <= Max({a, b}) /\ b <= Max({a, b})
<1>1. \E x \in {a, b} : \A y \in {a, b} : x >= y
  OBVIOUS
<1> QED BY <1>1 DEF Max

LEMMA MinOfTwo ==
    ASSUME NEW a \in Int, NEW b \in Int
    PROVE  Min({a, b}) \in {a, b} /\ Min({a, b}) <= a /\ Min({a, b}) <= b
<1>1. \E x \in {a, b} : \A y \in {a, b} : x <= y
  OBVIOUS
<1> QED BY <1>1 DEF Min

LEMMA MinOfSet ==
    ASSUME NEW S, S \subseteq Nat, S # {}
    PROVE  Min(S) \in S /\ \A m \in S : Min(S) <= m
<1>1. \E n \in S : \A m \in S : n <= m
  BY LeastNatural
<1> QED BY <1>1 DEF Min

\* Powers of two: Exp is what its definition says.
LEMMA ExpUnfolds ==
    /\ Exp \in [Nat -> Nat \ {0}] /\ Exp[0] = 1
    /\ \A k \in Nat : Exp[k + 1] = 2 * Exp[k]
<1>1. Exp = PowersOf(2)
  BY DEF Exp, PowersOf, ArePowers
<1> DEFINE b == 2
<1>2. b \in Nat \ {0} /\ Exp = PowersOf(b)
  BY <1>1
<1> HIDE DEF b
<1>3. /\ Exp \in [Nat -> Nat \ {0}] /\ Exp[0] = 1
      /\ \A k \in Nat : Exp[k + 1] = b * Exp[k]
  BY <1>2, PowersUnfold
<1> QED BY <1>3 DEF b

\* They grow.
LEMMA ExpGrows ==
    ASSUME NEW i \in Nat, NEW j \in Nat, i <= j
    PROVE  Exp[i] <= Exp[j]
<1>1. Exp = PowersOf(2)
  BY DEF Exp, PowersOf, ArePowers
<1> QED BY <1>1, PowersGrow

\* The logarithm of a power of two.
LEMMA LnInverse ==
    ASSUME NEW x \in Nat, \E k \in 0 .. x : Exp[k] = x
    PROVE  Ln(x) \in Nat /\ Exp[Ln(x)] = x
<1>1. Ln(x) \in 0 .. x /\ Exp[Ln(x)] = x
  BY DEF Ln
<1> QED BY <1>1

\* A range with logarithms: its ends are the powers of their logarithms, in order.
LEMMA LnRange ==
    ASSUME NEW d \in Distribution, d.kind = "LogUniform", Logarithmic(d), 0 < d.low, 0 < d.high
    PROVE  /\ d.low \in Nat /\ d.high \in Nat
           /\ Ln(d.low) \in Nat /\ Exp[Ln(d.low)] = d.low
           /\ Ln(d.high) \in Nat /\ Exp[Ln(d.high)] = d.high
           /\ d.low <= d.high => Ln(d.low) <= Ln(d.high)
<1>1. d.low \in Nat /\ d.high \in Nat
  BY DEF Distribution, NumericKinds
<1>2. (\E k \in 0 .. d.low : Exp[k] = d.low) /\ (\E k \in 0 .. d.high : Exp[k] = d.high)
  BY DEF Logarithmic
<1>3. /\ Ln(d.low) \in Nat /\ Exp[Ln(d.low)] = d.low
      /\ Ln(d.high) \in Nat /\ Exp[Ln(d.high)] = d.high
  BY <1>1, <1>2, LnInverse
<1>4. ASSUME d.low <= d.high, ~(Ln(d.low) <= Ln(d.high)) PROVE FALSE
  <2>1. Ln(d.high) + 1 \in Nat /\ Ln(d.high) + 1 <= Ln(d.low)
    BY <1>3, <1>4
  <2>2. Exp[Ln(d.high) + 1] <= Exp[Ln(d.low)]
    BY <1>3, <2>1, ExpGrows
  <2>3. Exp[Ln(d.high) + 1] = 2 * d.high
    BY <1>3, ExpUnfolds
  <2> QED BY <1>1, <1>3, <1>4, <2>2, <2>3
<1> QED BY <1>1, <1>3, <1>4


-----------------------------------------------------------------------------
(* What samplers answer.                                                    *)

\* v may be answered for d: a value of d's type, in d's range if that is not empty.
Fits(d, v) ==
    v \in Value /\ VariantMatches(d, v) /\ (Inhabited(d) => InSupportOf(d, v))

\* The shape of a distribution.
LEMMA DistributionShape ==
    ASSUME NEW d \in Distribution
    PROVE  \/ /\ d.kind \in {"Uniform", "LogUniform", "IntUniform"} /\ IsNumeric(d)
              /\ d.low \in Int /\ d.high \in Int
           \/ d.kind = "Categorical" /\ ~IsNumeric(d) /\ d.choices \in Seq(STRING)
BY DEF Distribution, IsNumeric, NumericKinds

\* A number, and a label, that fits.
LEMMA FloatFits ==
    ASSUME NEW d \in Distribution, d.kind \in {"Uniform", "LogUniform"}, NEW x \in Int,
           d.low <= d.high => d.low <= x /\ x <= d.high
    PROVE  Fits(d, FloatOf(x))
<1>1. FloatOf(x) \in Value /\ FloatOf(x).type = "Float" /\ FloatOf(x).num = x
  BY DEF FloatOf, Value
<1>2. TypeOf(d) = "Float" /\ IsNumeric(d)
  BY DEF TypeOf, IsNumeric, NumericKinds
<1> QED BY <1>1, <1>2 DEF Fits, VariantMatches, Inhabited, InSupportOf

LEMMA IntFits ==
    ASSUME NEW d \in Distribution, d.kind = "IntUniform", NEW x \in Int,
           d.low <= d.high => d.low <= x /\ x <= d.high
    PROVE  Fits(d, IntOf(x))
<1>1. IntOf(x) \in Value /\ IntOf(x).type = "Int" /\ IntOf(x).num = x
  BY DEF IntOf, Value
<1>2. TypeOf(d) = "Int" /\ IsNumeric(d)
  BY DEF TypeOf, IsNumeric, NumericKinds
<1> QED BY <1>1, <1>2 DEF Fits, VariantMatches, Inhabited, InSupportOf

LEMMA LabelFits ==
    ASSUME NEW d \in Distribution, d.kind = "Categorical", NEW c \in STRING \cup {NoLabel},
           d.choices # <<>> => c \in ToSet(d.choices)
    PROVE  Fits(d, LabelOf(c))
<1>1. LabelOf(c) \in Value /\ LabelOf(c).type = "Categorical" /\ LabelOf(c).label = c
  BY DEF LabelOf, Value
<1>2. TypeOf(d) = "Categorical" /\ ~IsNumeric(d)
  BY DEF TypeOf, IsNumeric, NumericKinds
<1> QED BY <1>1, <1>2 DEF Fits, VariantMatches, Inhabited, InSupportOf

\* Powers between two logarithms lie between the ends of the range.
LEMMA PowersFit ==
    ASSUME NEW d \in Distribution, d.kind = "LogUniform", Logarithmic(d), 0 < d.low,
           NEW k \in Int, d.low <= d.high, Ln(d.low) <= k, k <= Ln(d.high)
    PROVE  Fits(d, FloatOf(Exp[k]))
<1>1. d.low \in Nat /\ d.high \in Nat /\ 0 < d.high
  BY DistributionShape
<1>2. /\ Ln(d.low) \in Nat /\ Exp[Ln(d.low)] = d.low
      /\ Ln(d.high) \in Nat /\ Exp[Ln(d.high)] = d.high
  BY <1>1, LnRange
<1>3. k \in Nat
  BY <1>2
<1>4. Exp[Ln(d.low)] <= Exp[k] /\ Exp[k] <= Exp[Ln(d.high)]
  BY <1>2, <1>3, ExpGrows
<1>5. Exp[k] \in Int /\ d.low <= Exp[k] /\ Exp[k] <= d.high
  BY <1>2, <1>3, <1>4, ExpUnfolds
<1> QED BY <1>5, FloatFits

\* A random draw (random.rs:46-79).
LEMMA DrawsFit ==
    ASSUME NEW d \in Distribution, Logarithmic(d)
    PROVE  \A v \in SampleValues(d) : Fits(d, v)
<1> SUFFICES ASSUME NEW v \in SampleValues(d) PROVE Fits(d, v)
  OBVIOUS
<1>1. CASE d.kind = "Uniform"
  <2>1. d.low \in Int /\ d.high \in Int
    BY <1>1, DistributionShape
  <2>2. PICK x \in IF d.low < d.high THEN d.low .. d.high - 1 ELSE {d.low} : v = FloatOf(x)
    BY <1>1 DEF SampleValues
  <2>3. x \in Int /\ (d.low <= d.high => d.low <= x /\ x <= d.high)
    BY <2>1, <2>2
  <2> QED BY <1>1, <2>2, <2>3, FloatFits
<1>2. CASE d.kind = "LogUniform"
  <2>1. d.low \in Int /\ d.high \in Int
    BY <1>2, DistributionShape
  <2>2. v \in {FloatOf(x) : x \in IF 0 < d.low /\ d.low < d.high
                                  THEN {Exp[k] : k \in Ln(d.low) .. Ln(d.high) - 1} ELSE {d.low}}
    BY <1>2 DEF SampleValues
  <2>3. CASE 0 < d.low /\ d.low < d.high
    <3>1. PICK k \in Ln(d.low) .. Ln(d.high) - 1 : v = FloatOf(Exp[k])
      BY <2>2, <2>3
    <3>2. Ln(d.low) \in Nat /\ Ln(d.high) \in Nat
      BY <1>2, <2>1, <2>3, LnRange
    <3>3. k \in Int /\ Ln(d.low) <= k /\ k <= Ln(d.high) /\ d.low <= d.high
      BY <2>1, <2>3, <3>1, <3>2
    <3> QED BY <1>2, <2>3, <3>1, <3>3, PowersFit
  <2>4. CASE ~(0 < d.low /\ d.low < d.high)
    <3>1. v = FloatOf(d.low)
      BY <2>2, <2>4
    <3>2. d.low <= d.high => d.low <= d.low
      BY <2>1
    <3> QED BY <1>2, <2>1, <3>1, <3>2, FloatFits
  <2> QED BY <2>3, <2>4
<1>3. CASE d.kind = "IntUniform"
  <2>1. d.low \in Int /\ d.high \in Int
    BY <1>3, DistributionShape
  <2>2. PICK x \in IF d.low <= d.high THEN d.low .. d.high ELSE {d.low} : v = IntOf(x)
    BY <1>3 DEF SampleValues
  <2>3. x \in Int /\ (d.low <= d.high => d.low <= x /\ x <= d.high)
    BY <2>1, <2>2
  <2> QED BY <1>3, <2>2, <2>3, IntFits
<1>4. CASE d.kind = "Categorical"
  <2>1. d.choices \in Seq(STRING)
    BY <1>4, DistributionShape
  <2>2. v \in IF d.choices = <<>> THEN {LabelOf(NoLabel)} ELSE {LabelOf(c) : c \in ToSet(d.choices)}
    BY <1>4 DEF SampleValues
  <2>3. PICK c : /\ v = LabelOf(c) /\ c \in STRING \cup {NoLabel}
                 /\ d.choices # <<>> => c \in ToSet(d.choices)
    BY <2>1, <2>2 DEF ToSet
  <2> QED BY <1>4, <2>3, LabelFits
<1> QED BY <1>1, <1>2, <1>3, <1>4, DistributionShape

\* What a TPE optimizer answers (tpe_sampler.rs:139-169).
LEMMA AsksFit ==
    ASSUME NEW d \in Distribution, Logarithmic(d), Buildable(d)
    PROVE  \A v \in AskValues(d) : Fits(d, v)
<1> SUFFICES ASSUME NEW v \in AskValues(d) PROVE Fits(d, v)
  OBVIOUS
<1>1. CASE d.kind = "Uniform"
  <2>1. d.low \in Int /\ d.high \in Int
    BY <1>1, DistributionShape
  <2>2. PICK x \in d.low .. d.high - 1 : v = FloatOf(x)
    BY <1>1 DEF AskValues
  <2>3. x \in Int /\ d.low <= x /\ x <= d.high
    BY <2>1, <2>2
  <2> QED BY <1>1, <2>2, <2>3, FloatFits
<1>2. CASE d.kind = "LogUniform"
  <2>1. d.low \in Int /\ d.high \in Int /\ 0 < d.low /\ d.low < d.high
    BY <1>2, DistributionShape DEF Buildable
  <2>2. PICK k \in Ln(d.low) .. Ln(d.high) - 1 : v = FloatOf(Exp[k])
    BY <1>2 DEF AskValues
  <2>3. Ln(d.low) \in Nat /\ Ln(d.high) \in Nat
    BY <1>2, <2>1, LnRange
  <2>4. k \in Int /\ Ln(d.low) <= k /\ k <= Ln(d.high) /\ d.low <= d.high
    BY <2>1, <2>2, <2>3
  <2> QED BY <1>2, <2>1, <2>2, <2>4, PowersFit
<1>3. CASE d.kind = "IntUniform"
  <2>1. d.low \in Int /\ d.high \in Int
    BY <1>3, DistributionShape
  <2>2. PICK x \in 2 * d.low .. 2 * d.high + 1 : v = IntOf(x \div 2)
    BY <1>3 DEF AskValues
  <2>3. x \in Int /\ x \div 2 \in Int /\ d.low <= x \div 2 /\ x \div 2 <= d.high
    BY <2>1, <2>2
  <2> QED BY <1>3, <2>2, <2>3, IntFits
<1>4. CASE d.kind = "Categorical"
  <2>1. d.choices \in Seq(STRING)
    BY <1>4, DistributionShape
  <2>2. PICK x \in 0 .. 2 * Len(d.choices) - 1 : v = LabelOf(d.choices[1 + x \div 2])
    BY <1>4 DEF AskValues
  <2>3. 1 + x \div 2 \in 1 .. Len(d.choices)
    BY <2>1, <2>2
  <2>4. d.choices[1 + x \div 2] \in STRING /\ d.choices[1 + x \div 2] \in ToSet(d.choices)
    BY <2>1, <2>3 DEF ToSet
  <2> QED BY <1>4, <2>2, <2>4, LabelFits
<1> QED BY <1>1, <1>2, <1>3, <1>4, DistributionShape

-----------------------------------------------------------------------------
(* The grid.                                                                *)

AxisType == [name : STRING, values : Seq(Value)]

LEMMA RadixType ==
    ASSUME NEW axes \in Seq(AxisType), NEW i \in DOMAIN axes
    PROVE  /\ axes[i].name \in STRING /\ axes[i].values \in Seq(Value)
           /\ Radix(axes[i]) \in Nat \ {0}
           /\ axes[i].values # <<>> => Radix(axes[i]) = Len(axes[i].values)
<1>1. axes[i] \in AxisType
  OBVIOUS
<1>2. axes[i].name \in STRING /\ axes[i].values \in Seq(Value)
  BY <1>1 DEF AxisType
<1> DEFINE n == Len(axes[i].values)
<1>3. n \in Nat /\ (axes[i].values # <<>> => n # 0)
  BY <1>2
<1> HIDE DEF n
<1>4. Max({n, 1}) \in {n, 1} /\ n <= Max({n, 1}) /\ 1 <= Max({n, 1})
  <2>1. n \in Int /\ 1 \in Int
    BY <1>3
  <2> QED BY <2>1, MaxOfTwo, Zenon
<1>5. Radix(axes[i]) = Max({n, 1})
  BY DEF Radix, n
<1> QED BY <1>2, <1>3, <1>4, <1>5 DEF n

\* p[k] is the size of the grid of the first k axes, wrapped.
Products(axes, p) ==
    p = [k \in 0 .. Len(axes) |->
            IF k = 0 THEN 1 ELSE (p[k - 1] * Radix(axes[k])) % USize]

\* s[k] is the size of the grid of the last k axes, saturated.
TailProducts(axes, s) ==
    s = [k \in 0 .. Len(axes) |->
            IF k = 0 THEN 1
            ELSE Min({s[k - 1] * Radix(axes[Len(axes) + 1 - k]), USize - 1})]

\* grid_size (grid.rs:71-76).
LEMMA GridSizeIs ==
    ASSUME NEW axes \in Seq(AxisType)
    PROVE  \E p : /\ Products(axes, p) /\ p \in [0 .. Len(axes) -> Nat]
                  /\ GridSize(axes) = Max({1, p[Len(axes)]})
<1> DEFINE N == Len(axes)
           F == [e \in Nat \X Nat |->
                   IF e[1] + 1 \in 1 .. N THEN (e[2] * Radix(axes[e[1] + 1])) % USize ELSE 0]
<1>1. N \in Nat /\ DOMAIN axes = 1 .. N
  OBVIOUS
<1> HIDE DEF N
<1>2. ASSUME NEW x \in Nat, NEW k \in 1 .. N PROVE (x * Radix(axes[k])) % USize \in Nat
  <2>1. Radix(axes[k]) \in Nat
    BY <1>1, RadixType
  <2>2. x * Radix(axes[k]) \in Nat
    BY <2>1
  <2> QED BY <2>2, USizeAssumption
<1>3. F \in [Nat \X Nat -> Nat]
  BY <1>2
<1>4. \A k \in Nat, x \in Nat :
         k + 1 \in 1 .. N => F[<<k, x>>] = (x * Radix(axes[k + 1])) % USize
  OBVIOUS
<1> HIDE DEF F
<1>5. PICK g : Partial(Nat, 1, F, g, N)
  <2>1. 1 \in Nat
    OBVIOUS
  <2> QED BY <1>1, <1>3, <2>1, PartialExists
<1>6. ASSUME NEW k \in 1 .. N PROVE g[k] = (g[k - 1] * Radix(axes[k])) % USize
  <2>1. k - 1 \in Nat /\ (k - 1) + 1 = k /\ k - 1 \in 0 .. N
    BY <1>1
  <2>2. g[k] = F[<<k - 1, g[k - 1]>>] /\ g[k - 1] \in Nat
    BY <1>5, <2>1 DEF Partial
  <2> QED BY <1>4, <2>1, <2>2
<1>7. Products(axes, g)
  <2>1. g = [k \in 0 .. N |-> g[k]] /\ g[0] = 1
    BY <1>5 DEF Partial
  <2>2. g = [k \in 0 .. N |-> IF k = 0 THEN 1 ELSE (g[k - 1] * Radix(axes[k])) % USize]
    BY <1>1, <1>6, <2>1
  <2> QED BY <2>2 DEF Products, N
<1> DEFINE p == CHOOSE q : Products(axes, q)
<1>8. Products(axes, p)
  BY <1>7
<1>9. GridSize(axes) = Max({1, p[N]})
  BY DEF GridSize, Products, N
<1> HIDE DEF p
<1>10. p[0] = 1 /\ p = [k \in 0 .. N |-> p[k]]
       /\ \A k \in 1 .. N : p[k] = (p[k - 1] * Radix(axes[k])) % USize
  BY <1>1, <1>8 DEF Products, N
<1>11. \A k \in 0 .. N : p[k] \in Nat
  <2> DEFINE S == {k \in Nat : p[k] \in Nat}
  <2>1. 0 \in S
    BY <1>10
  <2>2. ASSUME NEW k \in 1 .. N, k - 1 \in S PROVE k \in S
    <3>1. (p[k - 1] * Radix(axes[k])) % USize \in Nat
      BY <1>2, <2>2
    <3>2. p[k] = (p[k - 1] * Radix(axes[k])) % USize
      BY <1>10
    <3>3. p[k] \in Nat
      BY <3>1, <3>2, Zenon
    <3>4. k \in Nat
      BY <1>1
    <3> QED BY <3>3, <3>4
  <2> HIDE DEF S
  <2>3. \A k \in 0 .. N : k \in S
    BY <1>1, <2>1, <2>2, StepByStep
  <2> QED BY <2>3 DEF S
<1>12. p \in [0 .. N -> Nat]
  BY <1>10, <1>11
<1> QED BY <1>8, <1>9, <1>12 DEF N

\* suffix_product (grid.rs:78-89).
LEMMA TailProductIs ==
    ASSUME NEW axes \in Seq(AxisType)
    PROVE  \E s : /\ TailProducts(axes, s) /\ s \in [0 .. Len(axes) -> Nat \ {0}]
                  /\ \A k \in 0 .. Len(axes) : TailProduct(axes, k) = s[k]
<1> DEFINE N == Len(axes)
           X == Nat \ {0}
           F == [e \in Nat \X X |->
                   IF e[1] + 1 \in 1 .. N
                   THEN Min({e[2] * Radix(axes[N + 1 - (e[1] + 1)]), USize - 1}) ELSE 1]
<1>1. N \in Nat /\ DOMAIN axes = 1 .. N
  OBVIOUS
<1> HIDE DEF N
<1>2. ASSUME NEW x \in X, NEW k \in 1 .. N
      PROVE  Min({x * Radix(axes[N + 1 - k]), USize - 1}) \in X
  <2>1. N + 1 - k \in 1 .. N
    BY <1>1
  <2>2. Radix(axes[N + 1 - k]) \in X
    BY <1>1, <2>1, RadixType
  <2>3. x * Radix(axes[N + 1 - k]) \in X /\ USize - 1 \in X
    BY <2>2, USizeAssumption
  <2> DEFINE y == x * Radix(axes[N + 1 - k])
             z == USize - 1
  <2>4. y \in X /\ z \in X /\ y \in Int /\ z \in Int
    BY <2>3
  <2> HIDE DEF y, z, X
  <2>5. Min({y, z}) \in {y, z}
    BY <2>4, MinOfTwo, Zenon
  <2>6. Min({y, z}) \in X
    BY <2>4, <2>5
  <2> QED BY <2>6 DEF y, z
<1>3. F \in [Nat \X X -> X]
  BY <1>2
<1>4. \A k \in Nat, x \in X :
         k + 1 \in 1 .. N =>
            F[<<k, x>>] = Min({x * Radix(axes[N + 1 - (k + 1)]), USize - 1})
  OBVIOUS
<1>5. 1 \in X
  OBVIOUS
<1> HIDE DEF F, X
<1>6. PICK g : Partial(X, 1, F, g, N)
  BY <1>1, <1>3, <1>5, PartialExists
<1>7. ASSUME NEW k \in 1 .. N
      PROVE  g[k] = Min({g[k - 1] * Radix(axes[N + 1 - k]), USize - 1})
  <2>1. k - 1 \in Nat /\ (k - 1) + 1 = k /\ k - 1 \in 0 .. N
    BY <1>1
  <2>2. g[k] = F[<<k - 1, g[k - 1]>>] /\ g[k - 1] \in X
    BY <1>6, <2>1 DEF Partial
  <2> QED BY <1>4, <2>1, <2>2
<1>8. TailProducts(axes, g)
  <2>1. g = [k \in 0 .. N |-> g[k]] /\ g[0] = 1
    BY <1>6 DEF Partial
  <2> QED BY <1>1, <1>7, <2>1 DEF TailProducts, N
<1> DEFINE s == CHOOSE q : TailProducts(axes, q)
<1>9. TailProducts(axes, s)
  BY <1>8
<1>10. \A k \in 0 .. N : TailProduct(axes, k) = s[k]
  BY DEF TailProduct, TailProducts, N
<1> HIDE DEF s
<1>11. s[0] = 1 /\ s = [k \in 0 .. N |-> s[k]]
       /\ \A k \in 1 .. N : s[k] = Min({s[k - 1] * Radix(axes[N + 1 - k]), USize - 1})
  BY <1>1, <1>9 DEF TailProducts, N
<1>12. \A k \in 0 .. N : s[k] \in X
  <2> DEFINE S == {k \in Nat : s[k] \in X}
  <2>1. 0 \in S /\ \A k \in 1 .. N : k - 1 \in S => k \in S
    BY <1>1, <1>2, <1>5, <1>11
  <2> HIDE DEF S
  <2>2. \A k \in 0 .. N : k \in S
    BY <1>1, <2>1, StepByStep
  <2> QED BY <2>2 DEF S
<1>13. s \in [0 .. N -> X]
  BY <1>11, <1>12
<1> QED BY <1>9, <1>10, <1>13 DEF N, X


\* index_for is an index into the values of its axis (grid.rs:91-106).
LEMMA IndexInRange ==
    ASSUME NEW axes \in Seq(AxisType), NEW name, HasGrid(axes, name), NEW n \in Nat
    PROVE  /\ Min(Registered(axes, name)) \in DOMAIN axes
           /\ axes[Min(Registered(axes, name))].name = name
           /\ GridValues(axes, name) \in Seq(Value)
           /\ IndexFor(axes, name, n) \in 0 .. Len(GridValues(axes, name)) - 1
<1> DEFINE i == Min(Registered(axes, name))
           N == Len(axes)
<1>1. i \in DOMAIN axes /\ axes[i].name = name
  <2>1. Registered(axes, name) \subseteq Nat /\ Registered(axes, name) # {}
    BY DEF Registered, HasGrid
  <2>2. i \in Registered(axes, name)
    BY <2>1, MinOfSet
  <2> QED BY <2>2 DEF Registered
<1>2. GridValues(axes, name) = axes[i].values
  BY DEF GridValues
<1> HIDE DEF i
<1>3. GridValues(axes, name) \in Seq(Value) /\ GridValues(axes, name) # <<>>
  BY <1>1, <1>2, RadixType DEF HasGrid
<1>4. SuffixProduct(axes, i) \in Nat \ {0}
  <2>1. N - i \in 0 .. N
    BY <1>1
  <2>2. PICK s \in [0 .. N -> Nat \ {0}] : \A k \in 0 .. N : TailProduct(axes, k) = s[k]
    BY TailProductIs
  <2>3. TailProduct(axes, N - i) \in Nat \ {0}
    BY <2>1, <2>2
  <2> QED BY <2>3 DEF SuffixProduct
<1>5. GridSize(axes) \in Nat \ {0}
  <2>1. PICK p \in [0 .. N -> Nat] : GridSize(axes) = Max({1, p[N]})
    BY GridSizeIs
  <2> DEFINE q == p[N]
  <2>2. q \in Int /\ 1 \in Int /\ q \in Nat
    OBVIOUS
  <2> HIDE DEF q
  <2>3. Max({1, q}) \in {1, q} /\ 1 <= Max({1, q})
    BY <2>2, MaxOfTwo, Zenon
  <2>4. Max({1, q}) \in Nat \ {0}
    BY <2>2, <2>3
  <2> QED BY <2>1, <2>4 DEF q
<1> DEFINE L == Len(GridValues(axes, name))
           x == (n % GridSize(axes)) \div SuffixProduct(axes, i)
<1>6. L \in Nat \ {0}
  BY <1>3
<1>7. x \in Nat
  <2> DEFINE a == GridSize(axes)
             b == SuffixProduct(axes, i)
  <2>1. a \in Nat \ {0} /\ b \in Nat \ {0}
    BY <1>4, <1>5
  <2> HIDE DEF a, b
  <2>2. n % a \in Nat
    BY <2>1
  <2> DEFINE c == n % a
  <2> HIDE DEF c
  <2>3. c \div b \in Nat
    BY <2>1, <2>2 DEF c
  <2> QED BY <2>3 DEF a, b, c
<1>8. IndexFor(axes, name, n) = x % L
  BY DEF IndexFor, i
<1> HIDE DEF x, L
<1>9. x % L \in 0 .. L - 1
  BY <1>6, <1>7
<1> QED BY <1>1, <1>3, <1>8, <1>9 DEF i, L

\* What the grid answers for a name it has: one of its values.
LEMMA GridAnswersFit ==
    ASSUME NEW axes \in Seq(AxisType), NEW n \in Nat, NEW name,
           NEW d \in Distribution, Logarithmic(d)
    PROVE  \A v \in GridAnswers(axes, n, name, d) :
              IF HasGrid(axes, name) THEN v \in Value /\ v \in ToSet(GridValues(axes, name))
              ELSE Fits(d, v)
<1>1. CASE HasGrid(axes, name)
  <2> DEFINE values == GridValues(axes, name)
  <2>1. values \in Seq(Value) /\ IndexFor(axes, name, n) \in 0 .. Len(values) - 1
    BY <1>1, IndexInRange
  <2>2. GridAnswers(axes, n, name, d) = {values[IndexFor(axes, name, n) + 1]}
    BY <1>1 DEF GridAnswers
  <2> HIDE DEF values
  <2>3. IndexFor(axes, name, n) + 1 \in 1 .. Len(values)
    BY <2>1
  <2> QED BY <1>1, <2>1, <2>2, <2>3 DEF ToSet, values
<1>2. CASE ~HasGrid(axes, name)
  BY <1>2, DrawsFit DEF GridAnswers
<1> QED BY <1>1, <1>2

-----------------------------------------------------------------------------
(* The vectors of CMA-ES.                                                   *)

\* repair maps every coordinate into the box (cmaes.rs:68-82).
LEMMA RepairInBox ==
    ASSUME NEW handling, NEW z \in Int
    PROVE  Repair(handling, z) \in 0 .. 2
<1>1. CASE handling = "Clamp"
  <2> DEFINE y == Min({z, 2})
             x == Max({0, y})
  <2>1. z \in Int /\ 2 \in Int /\ 0 \in Int
    OBVIOUS
  <2>2. y \in {z, 2} /\ y <= z /\ y <= 2
    BY <2>1, MinOfTwo, Zenon
  <2>3. y \in Int
    BY <2>1, <2>2
  <2> HIDE DEF y
  <2>4. x \in {0, y} /\ 0 <= x /\ y <= x
    BY <2>1, <2>3, MaxOfTwo, Zenon
  <2>5. x \in 0 .. 2
    BY <2>2, <2>3, <2>4
  <2> QED BY <1>1, <2>5 DEF Repair, y
<1>2. CASE handling # "Clamp"
  <2>1. z % 4 \in 0 .. 3
    OBVIOUS
  <2> DEFINE t == z % 4
  <2> HIDE DEF t
  <2>2. (IF t > 2 THEN 4 - t ELSE t) \in 0 .. 2
    BY <2>1 DEF t
  <2> QED BY <1>2, <2>2 DEF Repair, t
<1> QED BY <1>1, <1>2

\* decode maps the box into the range (cmaes.rs:322-338).
LEMMA DecodeFits ==
    ASSUME NEW d \in Distribution, IsNumeric(d), Logarithmic(d), Decodable(d),
           NEW z \in 0 .. 2
    PROVE  Fits(d, Decode(d, z))
<1>1. d.low \in Int /\ d.high \in Int /\ d.kind \in {"Uniform", "LogUniform", "IntUniform"}
  BY DistributionShape
<1>2. z = 0 \/ z = 1 \/ z = 2
  OBVIOUS
<1>3. CASE d.kind = "Uniform"
  <2> DEFINE l == d.low
             h == d.high
             x == l + (z * (h - l)) \div 2
  <2> HIDE DEF l, h
  <2>1. l \in Int /\ h \in Int
    BY <1>1 DEF l, h
  <2>2. x \in Int /\ (l <= h => l <= x /\ x <= h)
    BY <1>2, <2>1
  <2> HIDE DEF x
  <2>3. Fits(d, FloatOf(x))
    BY <1>3, <2>2, FloatFits DEF l, h
  <2>4. Decode(d, z) = FloatOf(x)
    BY <1>3 DEF Decode, x, l, h
  <2> QED BY <2>3, <2>4
<1>4. CASE d.kind = "IntUniform"
  <2> DEFINE l == d.low
             h == d.high
             y == 2 * l + z * (h - l)
             x == RoundHalf(y)
  <2> HIDE DEF l, h
  <2>1. l \in Int /\ h \in Int
    BY <1>1 DEF l, h
  <2>2. y \in Int /\ (l <= h => 2 * l <= y /\ y <= 2 * h)
    BY <1>2, <2>1
  <2> HIDE DEF y
  <2>3. x \in Int /\ (l <= h => l <= x /\ x <= h)
    BY <2>1, <2>2 DEF RoundHalf
  <2> HIDE DEF x
  <2>4. Fits(d, IntOf(x))
    BY <1>4, <2>3, IntFits DEF l, h
  <2>5. Decode(d, z) = IntOf(x)
    BY <1>4 DEF Decode, x, y, l, h
  <2> QED BY <2>4, <2>5
<1>5. CASE d.kind = "LogUniform"
  <2> DEFINE l == Ln(d.low)
             h == Ln(d.high)
             k == l + (z * (h - l)) \div 2
  <2>1. /\ 0 < d.low /\ 0 < d.high
        /\ l \in Nat /\ h \in Nat /\ (d.low <= d.high => l <= h)
    BY <1>5, LnRange DEF Decodable
  <2> HIDE DEF l, h
  <2>2. k \in Nat /\ (l <= h => l <= k /\ k <= h)
    BY <1>2, <2>1
  <2> HIDE DEF k
  <2>3. Exp[k] \in Int
    BY <2>2, ExpUnfolds
  <2>4. Decode(d, z) = FloatOf(Exp[k])
    BY <1>5 DEF Decode, k, l, h
  <2>5. CASE d.low <= d.high
    <3>1. k \in Int /\ Ln(d.low) <= k /\ k <= Ln(d.high)
      BY <2>1, <2>2, <2>5 DEF l, h
    <3> QED BY <1>5, <2>1, <2>4, <2>5, <3>1, PowersFit
  <2>6. CASE ~(d.low <= d.high)
    BY <1>5, <2>3, <2>4, <2>6, FloatFits
  <2> QED BY <2>5, <2>6
<1> QED BY <1>1, <1>3, <1>4, <1>5

-----------------------------------------------------------------------------
(* The inductive invariant.                                                 *)

Count == Cardinality(DOMAIN trials)

IsCall(c) == c \in Calls(setup)

SampledTrial ==
    [number : Nat, params : Seq(Entry(STRING, ParamRecord)), intermediate_values : {<<>>},
     value : Int \cup {None}, state : TrialStates]

\* Trial n of the study s, each parameter the answer to a call.
TrialTyped(s, n, t) ==
    /\ t \in SampledTrial /\ t.number = n
    /\ DistinctKeys(t.params)
    /\ t.state = "Complete" => t.value \in Int
    /\ \A i \in DOMAIN t.params :
          [name |-> t.params[i].key, dist |-> t.params[i].val.dist] \in Calls(s)

\* The trials run one at a time are numbered without gaps.
TrialsTyped ==
    /\ setup \in Setups /\ lost \in Nat
    /\ DOMAIN trials \subseteq Nat /\ IsFiniteSet(DOMAIN trials) /\ Count \in Nat
    /\ setup.width = 1 => DOMAIN trials = 0 .. Count - 1
    /\ \A n \in DOMAIN trials : TrialTyped(setup, n, trials[n])

LiveTyped ==
    /\ DOMAIN live \subseteq DOMAIN trials
    /\ \A n \in DOMAIN live :
          /\ trials[n].state = "Running"
          /\ live[n] \in [todo : Seq(Call), loaded : BOOLEAN, seen : SUBSET Nat]
          /\ \A i \in DOMAIN live[n].todo : IsCall(live[n].todo[i])

\* One trial at a time, in one process.
Solo == setup.width = 1 /\ ~setup.remote

\* A trial holds ended trials; the one that runs alone holds them all.
SeenFits ==
    /\ setup.width = 1 => DOMAIN live \subseteq {Count - 1}
    /\ \A n \in DOMAIN live :
          /\ live[n].seen \subseteq Ended
          /\ ~live[n].loaded => live[n].seen = {}
          /\ Solo => live[n].loaded /\ live[n].seen = Ended
          /\ ~setup.remote /\ ~live[n].loaded => trials[n].params = <<>>

Engine(S) == Replayed(setup, setup.dir, View(S))

\* Each vector comes from some history of the study.
CacheSound ==
    /\ setup.sampler # "cma" => DOMAIN cache = {}
    /\ \A n \in DOMAIN cache :
          /\ cache[n].had \in Nat
          /\ \E S \in SUBSET Ended :
                cache[n].engine = Engine(S) /\ cache[n].vector \in Vectors(setup, View(S))

\* No save of the study has failed but of a trial that ran alone.
Unbroken == setup.width = 1 \/ lost = 0

\* The vector of n is of some of the trials that trial n holds.
FromSome(n) == \E S \in SUBSET live[n].seen : cache[n].engine = Engine(S)

\* While that is so, each local one comes from its trial's; if that was lost, from the
\* next one's.  Afterwards it comes from some of its trial's.
CacheFresh ==
    ~setup.remote =>
        \A n \in DOMAIN cache :
          /\ n \in DOMAIN live /\ live[n].loaded => FromSome(n)
          /\ Unbroken /\ n \in DOMAIN live =>
                live[n].loaded /\ cache[n].engine = Engine(live[n].seen)
          /\ Unbroken /\ n \notin DOMAIN trials =>
                Solo /\ DOMAIN live = {} /\ n = Count /\ cache[n].engine = Engine(Ended)

HasNumeric(n) == \E i \in DOMAIN trials[n].params : IsNumeric(trials[n].params[i].val.dist)

\* A local trial that has a number but no vector had nothing to draw one from.
Cold ==
    \A n \in DOMAIN live \ DOMAIN cache :
        setup.sampler = "cma" /\ ~setup.remote /\ live[n].loaded /\ HasNumeric(n)
            => ~Warm(setup, View(live[n].seen))

Inv == TrialsTyped /\ LiveTyped /\ SeenFits /\ CacheSound /\ CacheFresh /\ Cold

-----------------------------------------------------------------------------
(* Records, and the search space.                                           *)

\* The record of a name is that of the slot it is in, and None if there is none.
LEMMA RecordOfSlot ==
    ASSUME NEW t, t.params \in Seq(Entry(STRING, ParamRecord)), DistinctKeys(t.params), NEW x
    PROVE  /\ \A i \in DOMAIN t.params :
                 t.params[i].key = x => RecordOf(t, x) = t.params[i].val /\ RecordOf(t, x) # None
           /\ RecordOf(t, x) # None =>
                 \E i \in DOMAIN t.params : t.params[i].key = x /\ RecordOf(t, x) = t.params[i].val
<1> DEFINE s == t.params
<1>1. s \in Seq(Entry(STRING, ParamRecord)) /\ DistinctKeys(s) /\ RecordOf(t, x) = Lookup(s, x)
  BY DEF RecordOf
<1> HIDE DEF s
<1>2. \A i \in DOMAIN s : s[i].val \in ParamRecord
  <2>1. \A i \in DOMAIN s : s[i] \in Entry(STRING, ParamRecord)
    BY <1>1
  <2> QED BY <2>1 DEF Entry
<1>3. None \notin ParamRecord
  BY SampledAssumption
<1>4. CASE Slots(s, x) = {}
  <2>1. Lookup(s, x) = None /\ \A i \in DOMAIN s : s[i].key # x
    BY <1>4 DEF Lookup, Slots
  <2> QED BY <1>1, <2>1 DEF s
<1>5. CASE Slots(s, x) # {}
  <2> DEFINE f == FirstSlot(s, x)
  <2>1. f \in DOMAIN s /\ s[f].key = x
    BY <1>1, <1>5, FirstSlotIsSlot
  <2>2. Lookup(s, x) = s[f].val
    BY <1>5 DEF Lookup
  <2> HIDE DEF f
  <2>3. \A i \in DOMAIN s : s[i].key = x => i = f
    BY <1>1, <2>1 DEF DistinctKeys
  <2> QED BY <1>1, <1>2, <1>3, <2>1, <2>2, <2>3 DEF s
<1> QED BY <1>4, <1>5

\* A call's distribution is one, with logarithms where they are taken.
LEMMA CallsTyped ==
    ASSUME setup \in Setups, NEW c, IsCall(c)
    PROVE  /\ c \in Call /\ c.name \in STRING /\ c.dist \in Distribution /\ Logarithmic(c.dist)
           /\ setup.sampler = "cma" => Decodable(c.dist)
<1>1. PICK p \in setup.programs : \E j \in DOMAIN p : c = p[j]
  BY DEF IsCall, Calls
<1>2. PICK j \in DOMAIN p : c = p[j]
  BY <1>1
<1>3. /\ p \in Seq(Call) /\ Logarithmic(p[j].dist)
      /\ setup.sampler = "cma" => Decodable(p[j].dist)
  BY <1>1, SetupsAssumption
<1>4. c \in Call
  BY <1>2, <1>3
<1> QED BY <1>2, <1>3, <1>4 DEF Call

\* A space is of the names every completed trial has, each as the first of them had it.
LEMMA SpaceIs ==
    ASSUME NEW h, NEW x \in DOMAIN SearchSpace(h)
    PROVE  /\ \E n \in CompletedTrials(h) : x \in NumericNames(h[n])
           /\ \A n \in CompletedTrials(h) : x \in NumericNames(h[n])
           /\ SearchSpace(h)[x] = RecordOf(h[Min(CompletedTrials(h))], x).dist
BY DEF SearchSpace

\* The space that a part of the study spans: of each name a numeric distribution that one
\* of its completed trials recorded (cmaes.rs:145-170).
LEMMA SpaceIsRecorded ==
    ASSUME TrialsTyped, NEW S, S \subseteq DOMAIN trials,
           NEW x \in DOMAIN SearchSpace(View(S))
    PROVE  /\ x \in STRING
           /\ \E m \in S :
                 /\ RecordOf(trials[m], x) # None
                 /\ SearchSpace(View(S))[x] = RecordOf(trials[m], x).dist
                 /\ IsNumeric(SearchSpace(View(S))[x])
                 /\ IsCall([name |-> x, dist |-> SearchSpace(View(S))[x]])
<1> DEFINE h == View(S)
           done == CompletedTrials(h)
           m == Min(done)
<1>1. done \subseteq S /\ \A n \in S : h[n] = trials[n]
  BY DEF CompletedTrials, View
<1>2. /\ \E n \in done : x \in NumericNames(h[n])
      /\ \A n \in done : x \in NumericNames(h[n])
      /\ SearchSpace(h)[x] = RecordOf(h[m], x).dist
  BY SpaceIs
<1>3. m \in done
  <2>1. done \subseteq Nat
    BY <1>1 DEF TrialsTyped, TrialTyped, IsCall
  <2> HIDE DEF done
  <2> QED BY <1>2, <2>1, MinOfSet
<1> HIDE DEF m, done, h
<1>4. m \in S /\ h[m] = trials[m] /\ x \in NumericNames(trials[m])
  BY <1>1, <1>2, <1>3
<1>5. PICK i \in DOMAIN trials[m].params :
         trials[m].params[i].key = x /\ IsNumeric(trials[m].params[i].val.dist)
  BY <1>4 DEF NumericNames
<1>6. /\ trials[m] \in SampledTrial /\ DistinctKeys(trials[m].params)
      /\ IsCall([name |-> trials[m].params[i].key, dist |-> trials[m].params[i].val.dist])
  BY <1>4, <1>5 DEF TrialsTyped, TrialTyped, IsCall
<1>7. trials[m].params \in Seq(Entry(STRING, ParamRecord))
  BY <1>6 DEF SampledTrial
<1>8. RecordOf(trials[m], x) = trials[m].params[i].val /\ RecordOf(trials[m], x) # None
  BY <1>5, <1>6, <1>7, RecordOfSlot
<1>9. x \in STRING
  <2>1. trials[m].params[i] \in Entry(STRING, ParamRecord)
    BY <1>5, <1>7
  <2> QED BY <1>5, <2>1 DEF Entry
<1> QED BY <1>2, <1>4, <1>5, <1>6, <1>8, <1>9 DEF h

\* A coordinate of a vector: a value that fits the distribution of its name in the space.
LEMMA CoordinatesFit ==
    ASSUME TrialsTyped, setup.sampler = "cma", NEW S, S \subseteq DOMAIN trials,
           NEW v \in Vectors(setup, View(S)), NEW x \in DOMAIN v
    PROVE  \E m \in S :
              /\ RecordOf(trials[m], x) # None
              /\ IsNumeric(RecordOf(trials[m], x).dist)
              /\ IsCall([name |-> x, dist |-> RecordOf(trials[m], x).dist])
              /\ Fits(RecordOf(trials[m], x).dist, v[x])
<1> DEFINE space == SearchSpace(View(S))
<1>1. PICK raw \in [DOMAIN space -> Raws] :
         v = [y \in DOMAIN space |-> Decode(space[y], Repair(setup.handling, raw[y]))]
  BY DEF Vectors
<1>2. x \in DOMAIN space /\ v[x] = Decode(space[x], Repair(setup.handling, raw[x]))
  BY <1>1
<1>3. PICK m \in S : /\ RecordOf(trials[m], x) # None
                     /\ space[x] = RecordOf(trials[m], x).dist
                     /\ IsNumeric(space[x])
                     /\ IsCall([name |-> x, dist |-> space[x]])
  BY <1>2, SpaceIsRecorded
<1>4. raw[x] \in Int
  BY <1>1, <1>2, RawsAssumption
<1> HIDE DEF space
<1>5. Repair(setup.handling, raw[x]) \in 0 .. 2
  BY <1>4, RepairInBox
<1>6. space[x] \in Distribution /\ Logarithmic(space[x]) /\ Decodable(space[x])
  <2> DEFINE c == [name |-> x, dist |-> space[x]]
  <2>1. c.dist = space[x] /\ IsCall(c) /\ setup \in Setups
    BY <1>3 DEF TrialsTyped, TrialTyped, IsCall
  <2> HIDE DEF c
  <2> QED BY <2>1, CallsTyped
<1>7. Fits(space[x], v[x])
  BY <1>2, <1>3, <1>5, <1>6, DecodeFits
<1> QED BY <1>3, <1>7

-----------------------------------------------------------------------------
(* An answer of suggest.                                                    *)

\* The value fits the distribution an ended trial recorded for this name.
FitsEarlier(name, v) ==
    \E m \in Ended : /\ RecordOf(trials[m], name) # None
                     /\ IsNumeric(RecordOf(trials[m], name).dist)
                     /\ IsCall([name |-> name, dist |-> RecordOf(trials[m], name).dist])
                     /\ Fits(RecordOf(trials[m], name).dist, v)

\* What is answered to the call c, but by a grid that has its name.
Apt(c, v) ==
    \/ Fits(c.dist, v)
    \/ setup.sampler = "cma" /\ VariantMatches(c.dist, v) /\ FitsEarlier(c.name, v)

\* candidate_for either leaves the cache, because it has a vector of the trial or too
\* little to draw one from, or puts a new one there (cmaes.rs:175-229).
LEMMA CacheStep ==
    ASSUME NEW S, NEW t, NEW k \in CachesAfter(setup, setup.dir, View(S), t, cache)
    PROVE  \/ /\ k = cache
              /\ t.number \in DOMAIN cache \/ ~Warm(setup, View(S))
           \/ /\ t.number \notin DOMAIN cache /\ Warm(setup, View(S))
              /\ DOMAIN k = DOMAIN cache \cup {t.number}
              /\ \A m \in DOMAIN cache : k[m] = cache[m]
              /\ k[t.number].engine = Engine(S) /\ k[t.number].had = Len(t.params)
              /\ k[t.number].vector \in Vectors(setup, View(S))
<1>1. CASE t.number \notin DOMAIN cache /\ Warm(setup, View(S))
  <2>1. PICK e \in Entries(setup, setup.dir, View(S), t) : k = Cached(cache, t.number, e)
    BY <1>1 DEF CachesAfter
  <2>2. /\ e.engine = Engine(S) /\ e.had = Len(t.params)
        /\ e.vector \in Vectors(setup, View(S))
    BY DEF Entries, Engine
  <2>3. /\ DOMAIN k = DOMAIN cache \cup {t.number} /\ k[t.number] = e
        /\ \A m \in DOMAIN cache : k[m] = cache[m]
    BY <1>1, <2>1 DEF Cached
  <2> QED BY <1>1, <2>2, <2>3
<1>2. CASE ~(t.number \notin DOMAIN cache /\ Warm(setup, View(S)))
  BY <1>2 DEF CachesAfter
<1> QED BY <1>1, <1>2

\* The caches hold vectors of the study, before an answer and after.
LEMMA CacheKeepsSound ==
    ASSUME TrialsTyped, CacheSound, setup.sampler = "cma", NEW S \in SUBSET Ended,
           NEW n \in DOMAIN trials,
           NEW k \in CachesAfter(setup, setup.dir, View(S), trials[n], cache)
    PROVE  \A m \in DOMAIN k :
              /\ k[m].had \in Nat
              /\ \E Q \in SUBSET Ended :
                    k[m].engine = Engine(Q) /\ k[m].vector \in Vectors(setup, View(Q))
<1>1. trials[n].number = n /\ Len(trials[n].params) \in Nat
  <2>1. trials[n] \in SampledTrial /\ trials[n].number = n
    BY DEF TrialsTyped, TrialTyped, IsCall
  <2>2. trials[n].params \in Seq(Entry(STRING, ParamRecord))
    BY <2>1 DEF SampledTrial
  <2> QED BY <2>1, <2>2
<1>2. \/ k = cache
      \/ /\ DOMAIN k = DOMAIN cache \cup {n}
         /\ \A m \in DOMAIN cache : k[m] = cache[m]
         /\ k[n].engine = Engine(S) /\ k[n].had = Len(trials[n].params)
         /\ k[n].vector \in Vectors(setup, View(S))
  <2> DEFINE t == trials[n]
  <2>1. t.number = n /\ k \in CachesAfter(setup, setup.dir, View(S), t, cache)
    BY <1>1
  <2> HIDE DEF t
  <2>2. \/ k = cache
        \/ /\ DOMAIN k = DOMAIN cache \cup {t.number}
           /\ \A m \in DOMAIN cache : k[m] = cache[m]
           /\ k[t.number].engine = Engine(S) /\ k[t.number].had = Len(t.params)
           /\ k[t.number].vector \in Vectors(setup, View(S))
    BY <2>1, CacheStep, ZenonT(40)
  <2> QED BY <2>1, <2>2 DEF t
<1> QED BY <1>1, <1>2 DEF CacheSound

\* A value taken from a vector, or drawn.
LEMMA FromVectorApt ==
    ASSUME TrialsTyped, setup.sampler = "cma", NEW c, IsCall(c), NEW k, NEW n,
           \A m \in DOMAIN k : \E Q \in SUBSET Ended : k[m].vector \in Vectors(setup, View(Q))
    PROVE  \A v \in FromVector(k, n, c.name, c.dist) : v \in Value /\ Apt(c, v)
<1> DEFINE Taken == /\ n \in DOMAIN k /\ c.name \in DOMAIN k[n].vector
                    /\ VariantMatches(c.dist, k[n].vector[c.name])
<1>1. setup \in Setups /\ c.dist \in Distribution /\ Logarithmic(c.dist)
  BY CallsTyped DEF TrialsTyped, TrialTyped, IsCall
<1>2. CASE Taken
  <2>1. PICK Q \in SUBSET Ended : k[n].vector \in Vectors(setup, View(Q))
    BY <1>2
  <2>2. Q \subseteq DOMAIN trials
    BY DEF Ended
  <2>3. PICK m \in Q : /\ RecordOf(trials[m], c.name) # None
                       /\ IsNumeric(RecordOf(trials[m], c.name).dist)
                       /\ IsCall([name |-> c.name, dist |-> RecordOf(trials[m], c.name).dist])
                       /\ Fits(RecordOf(trials[m], c.name).dist, k[n].vector[c.name])
    BY <1>2, <2>1, <2>2, CoordinatesFit
  <2>4. FitsEarlier(c.name, k[n].vector[c.name])
    BY <2>3 DEF FitsEarlier
  <2>5. k[n].vector[c.name] \in Value
    BY <2>3 DEF Fits
  <2>6. FromVector(k, n, c.name, c.dist) = {k[n].vector[c.name]}
    BY <1>2 DEF FromVector
  <2> QED BY <1>2, <2>4, <2>5, <2>6 DEF Apt
<1>3. CASE ~Taken
  <2>1. FromVector(k, n, c.name, c.dist) = SampleValues(c.dist)
    BY <1>3 DEF FromVector
  <2>2. \A v \in SampleValues(c.dist) : Fits(c.dist, v)
    BY <1>1, DrawsFit
  <2> QED BY <2>1, <2>2 DEF Apt, Fits
<1> QED BY <1>2, <1>3

\* What Suggest may find: the answer a to the call c of trial n, given the ended trials S.
LEMMA AnswersAre ==
    ASSUME TrialsTyped, CacheSound, NEW S \in SUBSET Ended, NEW n \in DOMAIN trials,
           NEW c, IsCall(c), NEW a \in Answers(View(S), trials[n], c.name, c.dist)
    PROVE  /\ a.value \in Value
           /\ IF setup.sampler = "grid" /\ HasGrid(setup.axes, c.name)
              THEN a.value \in ToSet(GridValues(setup.axes, c.name)) ELSE Apt(c, a.value)
           /\ setup.sampler = "grid" => a.value \in GridAnswers(setup.axes, n, c.name, c.dist)
           /\ setup.sampler # "cma" \/ ~IsNumeric(c.dist) => a.cache = cache
           /\ setup.sampler = "cma" /\ IsNumeric(c.dist) =>
                 /\ a.cache \in CachesAfter(setup, setup.dir, View(S), trials[n], cache)
                 /\ a.value \in FromVector(a.cache, n, c.name, c.dist)
<1>1. /\ setup \in Setups /\ c.dist \in Distribution /\ Logarithmic(c.dist)
      /\ trials[n].number = n
  BY CallsTyped DEF TrialsTyped, TrialTyped, IsCall
<1>2. \A v \in SampleValues(c.dist) : Fits(c.dist, v)
  BY <1>1, DrawsFit
<1>3. setup.sampler \in {"random", "grid", "tpe", "cma"}
  BY <1>1, SetupsAssumption
<1>4. CASE setup.sampler = "random"
  <2>1. a.value \in SampleValues(c.dist) /\ a.cache = cache
    BY <1>4 DEF Answers
  <2> QED BY <1>2, <1>4, <2>1 DEF Apt, Fits
<1>5. CASE setup.sampler = "grid"
  <2>1. a.value \in GridAnswers(setup.axes, n, c.name, c.dist) /\ a.cache = cache
    BY <1>1, <1>5 DEF Answers
  <2>2. setup.axes \in Seq(AxisType) /\ n \in Nat
    <3>1. setup.axes \in Seq(AxisType)
      BY <1>1, SetupsAssumption, Zenon DEF AxisType
    <3>2. n \in Nat
      BY DEF TrialsTyped, TrialTyped, IsCall
    <3> QED BY <3>1, <3>2
  <2>3. IF HasGrid(setup.axes, c.name)
        THEN a.value \in Value /\ a.value \in ToSet(GridValues(setup.axes, c.name))
        ELSE Fits(c.dist, a.value)
    BY <1>1, <2>1, <2>2, GridAnswersFit
  <2> QED BY <1>5, <2>1, <2>3 DEF Apt, Fits
<1>6. CASE setup.sampler = "tpe"
  <2>1. a.value \in TpeAnswers(setup, View(S), c.name, c.dist) /\ a.cache = cache
    BY <1>6 DEF Answers
  <2>2. Fits(c.dist, a.value)
    BY <1>1, <1>2, <2>1, AsksFit DEF TpeAnswers
  <2> QED BY <1>6, <2>1, <2>2 DEF Apt, Fits
<1>7. CASE setup.sampler = "cma"
  <2>1. a \in CmaAnswers(setup, setup.dir, View(S), trials[n], c.name, c.dist, cache)
    BY <1>7 DEF Answers
  <2>2. CASE ~IsNumeric(c.dist)
    <3>1. a.value \in SampleValues(c.dist) /\ a.cache = cache
      BY <2>1, <2>2 DEF CmaAnswers
    <3> QED BY <1>2, <1>7, <2>2, <3>1 DEF Apt, Fits
  <2>3. CASE IsNumeric(c.dist)
    <3>1. /\ a.cache \in CachesAfter(setup, setup.dir, View(S), trials[n], cache)
          /\ a.value \in FromVector(a.cache, n, c.name, c.dist)
      BY <1>1, <2>1, <2>3 DEF CmaAnswers
    <3>2. \A m \in DOMAIN a.cache :
             \E Q \in SUBSET Ended : a.cache[m].vector \in Vectors(setup, View(Q))
      BY <1>7, <3>1, CacheKeepsSound
    <3>3. a.value \in Value /\ Apt(c, a.value)
      BY <1>7, <3>1, <3>2, FromVectorApt
    <3> QED BY <1>7, <2>3, <3>1, <3>3
  <2> QED BY <2>2, <2>3
<1> QED BY <1>3, <1>4, <1>5, <1>6, <1>7

-----------------------------------------------------------------------------
(* What each action does.                                                   *)

\* The list u is the list s but for one slot, which holds r for a name.
Overwrites(s, u, name, r) ==
    \E p \in 1 .. Len(u) :
        /\ u[p] = [key |-> name, val |-> r]
        /\ \A i \in 1 .. Len(s) : i # p => u[i] = s[i] /\ s[i].key # name
        /\ \A i \in 1 .. Len(u) : i # p => i \in 1 .. Len(s)

\* Recording a parameter: its slot holds the new record, every other is as it was.
LEMMA RecordTyped ==
    ASSUME NEW t, t \in SampledTrial, DistinctKeys(t.params), NEW name \in STRING,
           NEW r \in ParamRecord
    PROVE  /\ Record(t, name, r) \in SampledTrial
           /\ Record(t, name, r).number = t.number /\ Record(t, name, r).state = t.state
           /\ Record(t, name, r).value = t.value
           /\ DistinctKeys(Record(t, name, r).params)
           /\ t.params \in Seq(Entry(STRING, ParamRecord))
           /\ Record(t, name, r).params \in Seq(Entry(STRING, ParamRecord))
           /\ Overwrites(t.params, Record(t, name, r).params, name, r)
           /\ Keys(Record(t, name, r).params) = Keys(t.params) \cup {name}
<1> DEFINE s == t.params
           u == Upsert(s, name, r)
<1>1. s \in Seq(Entry(STRING, ParamRecord)) /\ DistinctKeys(s)
  BY DEF SampledTrial
<1> HIDE DEF s
<1>2. u \in Seq(Entry(STRING, ParamRecord))
  BY <1>1, UpsertType
<1>3. DistinctKeys(u) /\ Overwrites(s, u, name, r) /\ Keys(u) = Keys(s) \cup {name}
  BY <1>1, UpsertEntries DEF Overwrites
<1> HIDE DEF u
<1>4. Record(t, name, r) = [t EXCEPT !.params = u]
  BY DEF Record, u, s
<1>5. /\ Record(t, name, r) \in SampledTrial /\ Record(t, name, r).params = u
      /\ Record(t, name, r).number = t.number /\ Record(t, name, r).state = t.state
      /\ Record(t, name, r).value = t.value
  BY <1>2, <1>4 DEF SampledTrial
<1> QED BY <1>1, <1>2, <1>3, <1>5 DEF s

\* A trial begins.
LEMMA BeginEffect ==
    ASSUME TrialsTyped, LiveTyped, NEW program, Begin(program)
    PROVE  /\ Count \notin DOMAIN trials /\ Count \notin DOMAIN live
           /\ DOMAIN trials' = DOMAIN trials \cup {Count} /\ DOMAIN trials' = 0 .. Count
           /\ Count' = Count + 1
           /\ trials'[Count] = NewTrial(Count)
           /\ \A m \in DOMAIN trials : trials'[m] = trials[m]
           /\ DOMAIN live' = DOMAIN live \cup {Count}
           /\ \A m \in DOMAIN live : live'[m] = live[m]
           /\ live'[Count] = [todo |-> program, loaded |-> Solo,
                              seen |-> IF Solo THEN Ended ELSE {}]
           /\ setup' = setup /\ cache' = cache /\ lost' = lost
           /\ Ended' = Ended
           /\ setup.width = 1 => DOMAIN live = {}
<1>1. Count \in Nat /\ DOMAIN trials = 0 .. Count - 1
  BY DEF TrialsTyped, Begin, Count
<1>2. /\ trials' = With(trials, Count, NewTrial(Count))
      /\ live' = With(live, Count, [todo |-> program, loaded |-> Solo,
                                    seen |-> IF Solo THEN Ended ELSE {}])
      /\ setup' = setup /\ cache' = cache /\ lost' = lost
      /\ Cardinality(DOMAIN live) < setup.width
  BY DEF Begin, Count, Solo
<1> DEFINE n == Count
<1> HIDE DEF n
<1>3. n \notin DOMAIN trials /\ DOMAIN trials \cup {n} = 0 .. n
  BY <1>1 DEF n
<1>4. /\ DOMAIN trials' = DOMAIN trials \cup {n} /\ trials'[n] = NewTrial(n)
      /\ \A m \in DOMAIN trials : trials'[m] = trials[m]
  BY <1>2, <1>3 DEF With, n
<1>5. n \notin DOMAIN live /\ DOMAIN live \subseteq DOMAIN trials
  BY <1>3 DEF LiveTyped
<1>6. /\ DOMAIN live' = DOMAIN live \cup {n}
      /\ \A m \in DOMAIN live : live'[m] = live[m]
      /\ live'[n] = [todo |-> program, loaded |-> Solo, seen |-> IF Solo THEN Ended ELSE {}]
  BY <1>2, <1>5 DEF With, n
<1>7. Count' = n + 1
  <2>1. DOMAIN trials' = 0 .. (n + 1) - 1 /\ n + 1 \in Nat
    BY <1>1, <1>3, <1>4 DEF n
  <2> DEFINE D == DOMAIN trials'
             k == n + 1
  <2>2. D = 0 .. k - 1 /\ k \in Nat
    BY <2>1
  <2> HIDE DEF k, D
  <2>3. Cardinality(D) = k
    BY <2>2, FS_Interval
  <2> QED BY <2>3 DEF Count, D, k
<1>8. Ended' = Ended
  BY <1>3, <1>4, <1>5, <1>6 DEF Ended
<1>9. ASSUME setup.width = 1 PROVE DOMAIN live = {}
  <2>1. IsFiniteSet(DOMAIN live)
    <3>1. IsFiniteSet(DOMAIN trials)
      BY <1>1, FS_Interval
    <3> QED BY <1>5, <3>1, FS_Subset
  <2>2. Cardinality(DOMAIN live) \in Nat /\ Cardinality(DOMAIN live) < 1
    BY <1>2, <1>9, <2>1, FS_CardinalityType
  <2>3. Cardinality(DOMAIN live) = 0
    BY <2>2
  <2> QED BY <2>1, <2>3, FS_EmptySet
<1> QED BY <1>2, <1>3, <1>4, <1>5, <1>6, <1>7, <1>8, <1>9 DEF n

LEMMA LoadEffect ==
    ASSUME LiveTyped, NEW n \in DOMAIN live, LoadHistory(n)
    PROVE  /\ ~live[n].loaded
           /\ DOMAIN live' = DOMAIN live
           /\ \A m \in DOMAIN live \ {n} : live'[m] = live[m]
           /\ live'[n] = [live[n] EXCEPT !.loaded = TRUE, !.seen = Ended]
           /\ setup' = setup /\ trials' = trials /\ cache' = cache /\ lost' = lost
           /\ Ended' = Ended
<1>1. /\ ~live[n].loaded
      /\ live' = [live EXCEPT ![n].loaded = TRUE, ![n].seen = Ended]
      /\ setup' = setup /\ trials' = trials /\ cache' = cache /\ lost' = lost
  BY DEF LoadHistory
<1>2. DOMAIN live' = DOMAIN live
  BY <1>1
<1>3. Ended' = Ended
  BY <1>1, <1>2 DEF Ended
<1> QED BY <1>1, <1>2, <1>3

\* The call n's trial has come to is answered.
LEMMA SuggestEffect ==
    ASSUME TrialsTyped, LiveTyped, CacheSound, SeenFits, NEW n \in DOMAIN live, Suggest(n)
    PROVE  /\ live[n].loaded /\ live[n].seen \in SUBSET Ended
           /\ DOMAIN live' = DOMAIN live
           /\ \A m \in DOMAIN live \ {n} : live'[m] = live[m]
           /\ live'[n] = [todo |-> Tail(live[n].todo), loaded |-> ~setup.remote,
                          seen |-> IF setup.remote THEN {} ELSE live[n].seen]
           /\ live[n].todo \in Seq(Call) /\ live[n].todo # <<>>
           /\ setup' = setup /\ lost' = lost /\ Ended' = Ended
           /\ DOMAIN trials' = DOMAIN trials /\ Count' = Count
           /\ \A m \in DOMAIN trials \ {n} : trials'[m] = trials[m]
           /\ IsCall(Head(live[n].todo)) /\ Head(live[n].todo) \in Call
           /\ \E a \in Answers(View(live[n].seen), trials[n], Head(live[n].todo).name,
                               Head(live[n].todo).dist) :
                 /\ cache' = a.cache
                 /\ trials'[n] = Record(trials[n], Head(live[n].todo).name,
                                        Sampled(Head(live[n].todo).dist, a.value))
                 /\ Sampled(Head(live[n].todo).dist, a.value) \in ParamRecord
<1> DEFINE c == Head(live[n].todo)
<1>1. /\ live[n].todo # <<>> /\ live[n].loaded
      /\ live' = [live EXCEPT ![n].todo = Tail(@), ![n].loaded = ~setup.remote,
                              ![n].seen = IF setup.remote THEN {} ELSE @]
      /\ setup' = setup /\ lost' = lost
      /\ \E a \in Answers(View(live[n].seen), trials[n], c.name, c.dist) :
            /\ trials' = [trials EXCEPT ![n] = Record(@, c.name, Sampled(c.dist, a.value))]
            /\ cache' = a.cache
  BY DEF Suggest
<1>2. /\ live[n] \in [todo : Seq(Call), loaded : BOOLEAN, seen : SUBSET Nat]
      /\ \A i \in DOMAIN live[n].todo : IsCall(live[n].todo[i])
      /\ n \in DOMAIN trials
  BY DEF LiveTyped
<1>3. live[n].todo \in Seq(Call)
  BY <1>2
<1>4. IsCall(c) /\ c \in Call
  <2>1. 1 \in DOMAIN live[n].todo /\ c = live[n].todo[1]
    BY <1>1, <1>3
  <2> QED BY <1>2, <1>3, <2>1
<1>5. live[n].seen \in SUBSET Ended
  BY DEF SeenFits
<1>6. /\ DOMAIN live' = DOMAIN live
      /\ \A m \in DOMAIN live \ {n} : live'[m] = live[m]
      /\ live'[n] = [todo |-> Tail(live[n].todo), loaded |-> ~setup.remote,
                     seen |-> IF setup.remote THEN {} ELSE live[n].seen]
  BY <1>1, <1>2
<1> HIDE DEF c
<1>7. PICK a \in Answers(View(live[n].seen), trials[n], c.name, c.dist) :
         /\ trials' = [trials EXCEPT ![n] = Record(@, c.name, Sampled(c.dist, a.value))]
         /\ cache' = a.cache
  BY <1>1
<1>8. a.value \in Value
  BY <1>2, <1>4, <1>5, AnswersAre
<1>9. Sampled(c.dist, a.value) \in ParamRecord
  BY <1>4, <1>8 DEF Sampled, ParamRecord, Call
<1>10. /\ DOMAIN trials' = DOMAIN trials
       /\ trials'[n] = Record(trials[n], c.name, Sampled(c.dist, a.value))
       /\ \A m \in DOMAIN trials \ {n} : trials'[m] = trials[m]
  BY <1>2, <1>7
<1>11. Ended' = Ended /\ Count' = Count
  BY <1>6, <1>10 DEF Ended, Count
<1> QED BY <1>1, <1>3, <1>4, <1>5, <1>6, <1>7, <1>9, <1>10, <1>11 DEF c

LEMMA FinishEffect ==
    ASSUME TrialsTyped, LiveTyped, NEW n \in DOMAIN live, NEW o, Finish(n, o)
    PROVE  /\ DOMAIN trials' = DOMAIN trials /\ Count' = Count
           /\ \A m \in DOMAIN trials \ {n} : trials'[m] = trials[m]
           /\ trials'[n] = FinishTrial(trials[n], o)
           /\ DOMAIN live' = DOMAIN live \ {n}
           /\ \A m \in DOMAIN live \ {n} : live'[m] = live[m]
           /\ setup' = setup /\ cache' = cache /\ lost' = lost
           /\ Ended' = Ended \cup {n} /\ n \notin Ended
<1>1. /\ trials' = [trials EXCEPT ![n] = FinishTrial(@, o)]
      /\ live' = Without(live, n)
      /\ setup' = setup /\ cache' = cache /\ lost' = lost
  BY DEF Finish
<1>2. n \in DOMAIN trials
  BY DEF LiveTyped
<1>3. /\ DOMAIN trials' = DOMAIN trials /\ trials'[n] = FinishTrial(trials[n], o)
      /\ \A m \in DOMAIN trials \ {n} : trials'[m] = trials[m]
  BY <1>1, <1>2
<1>4. DOMAIN live' = DOMAIN live \ {n} /\ \A m \in DOMAIN live \ {n} : live'[m] = live[m]
  BY <1>1 DEF Without
<1>5. Ended' = Ended \cup {n} /\ n \notin Ended /\ Count' = Count
  BY <1>2, <1>3, <1>4 DEF Ended, Count
<1> QED BY <1>1, <1>3, <1>4, <1>5

\* A local trial is lost.  One that runs alone is the last.
LEMMA LostEffect ==
    ASSUME TrialsTyped, LiveTyped, SeenFits, NEW n \in DOMAIN live, Lost(n)
    PROVE  /\ ~setup.remote /\ n \in DOMAIN trials
           /\ DOMAIN trials' = DOMAIN trials \ {n}
           /\ \A m \in DOMAIN trials' : trials'[m] = trials[m]
           /\ DOMAIN live' = DOMAIN live \ {n}
           /\ \A m \in DOMAIN live' : live'[m] = live[m]
           /\ setup' = setup /\ cache' = cache /\ lost' = lost + 1
           /\ Ended' = Ended /\ IsFiniteSet(DOMAIN trials') /\ Count' \in Nat
           /\ setup.width = 1 =>
                 /\ Solo /\ DOMAIN live = {n} /\ DOMAIN live' = {}
                 /\ DOMAIN trials' = 0 .. n - 1 /\ Count' = n
<1>1. /\ ~setup.remote /\ lost' = lost + 1
      /\ trials' = Without(trials, n) /\ live' = Without(live, n)
      /\ setup' = setup /\ cache' = cache
  BY DEF Lost
<1>2. /\ Count \in Nat /\ IsFiniteSet(DOMAIN trials)
      /\ setup.width = 1 => DOMAIN trials = 0 .. Count - 1
      /\ DOMAIN live \subseteq DOMAIN trials
  BY DEF TrialsTyped, LiveTyped
<1>3. /\ DOMAIN trials' = DOMAIN trials \ {n}
      /\ \A m \in DOMAIN trials' : trials'[m] = trials[m]
      /\ DOMAIN live' = DOMAIN live \ {n}
      /\ \A m \in DOMAIN live' : live'[m] = live[m]
  BY <1>1 DEF Without
<1>4. Ended' = Ended
  BY <1>3 DEF Ended
<1>5. IsFiniteSet(DOMAIN trials') /\ Count' \in Nat
  <2>1. DOMAIN trials' \in SUBSET (DOMAIN trials)
    BY <1>3
  <2>2. IsFiniteSet(DOMAIN trials')
    BY <1>2, <2>1, FS_Subset
  <2> QED BY <2>2, FS_CardinalityType DEF Count
<1>6. ASSUME setup.width = 1
      PROVE  /\ Solo /\ DOMAIN live = {n} /\ DOMAIN live' = {}
             /\ DOMAIN trials' = 0 .. n - 1 /\ Count' = n
  <2>1. Solo
    BY <1>1, <1>6 DEF Solo
  <2>2. DOMAIN live = {n} /\ n = Count - 1 /\ n \in 0 .. Count - 1
    BY <1>2, <1>6 DEF SeenFits
  <2> DEFINE k == Count
             D == DOMAIN trials'
  <2>3. k \in Nat /\ n = k - 1 /\ n \in 0 .. k - 1 /\ D = (0 .. k - 1) \ {n}
    BY <1>2, <1>3, <1>6, <2>2
  <2> HIDE DEF k, D
  <2>4. n \in Nat /\ D = 0 .. n - 1
    BY <2>3
  <2>5. Cardinality(D) = n
    BY <2>4, FS_Interval
  <2> QED BY <1>3, <2>1, <2>2, <2>4, <2>5 DEF Count, D
<1> QED BY <1>1, <1>2, <1>3, <1>4, <1>5, <1>6

-----------------------------------------------------------------------------
(* The invariant holds: first the types.                                    *)

\* The cases a step falls into.
LEMMA StepIs ==
    ASSUME [Next]_vars
    PROVE  \/ UNCHANGED vars
           \/ \E program \in setup.programs : Begin(program)
           \/ \E n \in DOMAIN live : LoadHistory(n)
           \/ \E n \in DOMAIN live : Suggest(n)
           \/ \E n \in DOMAIN live : Lost(n)
           \/ \E n \in DOMAIN live : \E o \in Outcome(setup.values) : Finish(n, o)
BY DEF Next

\* Ended trials stay as they are.
LEMMA EndedKept ==
    ASSUME Inv, [Next]_vars
    PROVE  /\ setup' = setup /\ Ended \subseteq Ended'
           /\ \A m \in Ended : trials'[m] = trials[m]
           /\ \A S \in SUBSET Ended : View(S)' = View(S) /\ Engine(S)' = Engine(S)
<1>1. /\ setup' = setup /\ Ended \subseteq Ended'
      /\ \A m \in Ended : m \in DOMAIN trials' /\ trials'[m] = trials[m]
  <2>1. Ended \subseteq DOMAIN trials /\ \A m \in Ended : m \notin DOMAIN live
    BY DEF Ended
  <2>2. CASE UNCHANGED vars
    BY <2>1, <2>2 DEF vars, Ended
  <2>3. ASSUME NEW program \in setup.programs, Begin(program)
        PROVE  /\ setup' = setup /\ Ended \subseteq Ended'
               /\ \A m \in Ended : m \in DOMAIN trials' /\ trials'[m] = trials[m]
    BY <2>1, <2>3, BeginEffect DEF Inv
  <2>4. ASSUME NEW n \in DOMAIN live, LoadHistory(n)
        PROVE  /\ setup' = setup /\ Ended \subseteq Ended'
               /\ \A m \in Ended : m \in DOMAIN trials' /\ trials'[m] = trials[m]
    <3>1. LiveTyped
      BY DEF Inv
    <3>2. setup' = setup /\ trials' = trials /\ Ended' = Ended
      BY <2>4, <3>1, LoadEffect, ZenonT(30)
    <3> QED BY <2>1, <3>2
  <2>5. ASSUME NEW n \in DOMAIN live, Suggest(n)
        PROVE  /\ setup' = setup /\ Ended \subseteq Ended'
               /\ \A m \in Ended : m \in DOMAIN trials' /\ trials'[m] = trials[m]
    <3>1. TrialsTyped /\ LiveTyped /\ CacheSound /\ SeenFits
      BY DEF Inv
    <3>2. /\ setup' = setup /\ Ended' = Ended /\ DOMAIN trials' = DOMAIN trials
          /\ \A m \in DOMAIN trials \ {n} : trials'[m] = trials[m]
      BY <2>5, <3>1, SuggestEffect, ZenonT(30)
    <3> QED BY <2>1, <3>2
  <2>6. ASSUME NEW n \in DOMAIN live, Lost(n)
        PROVE  /\ setup' = setup /\ Ended \subseteq Ended'
               /\ \A m \in Ended : m \in DOMAIN trials' /\ trials'[m] = trials[m]
    BY <2>1, <2>6, LostEffect DEF Inv
  <2>7. ASSUME NEW n \in DOMAIN live, NEW o, Finish(n, o)
        PROVE  /\ setup' = setup /\ Ended \subseteq Ended'
               /\ \A m \in Ended : m \in DOMAIN trials' /\ trials'[m] = trials[m]
    BY <2>1, <2>7, FinishEffect DEF Inv
  <2> QED BY <2>2, <2>3, <2>4, <2>5, <2>6, <2>7, StepIs
<1>2. ASSUME NEW S \in SUBSET Ended PROVE View(S)' = View(S)
  <2>1. \A m \in S : trials'[m] = trials[m]
    BY <1>1
  <2> QED BY <2>1 DEF View
<1>3. ASSUME NEW S \in SUBSET Ended PROVE Engine(S)' = Engine(S)
  BY <1>1, <1>2 DEF Engine
<1> QED BY <1>1, <1>2, <1>3

LEMMA InitTyped ==
    ASSUME Init
    PROVE  Inv /\ Count = setup.first /\ Ended = DOMAIN trials
<1>1. /\ setup \in Setups /\ setup.first \in Nat
      /\ trials = [n \in 0 .. setup.first - 1 |->
                      FinishTrial(NewTrial(n), [kind |-> "Failed", value |-> None])]
      /\ DOMAIN live = {} /\ DOMAIN cache = {} /\ lost = 0
  BY SetupsAssumption DEF Init
<1>2. Count = setup.first
  <2> DEFINE k == setup.first
             D == DOMAIN trials
  <2>1. D = 0 .. k - 1 /\ k \in Nat
    BY <1>1
  <2> HIDE DEF k, D
  <2>2. Cardinality(D) = k
    BY <2>1, FS_Interval
  <2> QED BY <2>2 DEF Count, k, D
<1>3. ASSUME NEW n \in DOMAIN trials PROVE TrialTyped(setup, n, trials[n])
  <2>1. n \in Nat
    BY <1>1
  <2>2. trials[n] = [number |-> n, params |-> <<>>, intermediate_values |-> <<>>,
                     value |-> None, state |-> "Failed"]
    BY <1>1 DEF FinishTrial, NewTrial
  <2>3. trials[n] \in SampledTrial
    BY <2>1, <2>2 DEF SampledTrial, TrialStates
  <2> QED BY <2>2, <2>3 DEF TrialTyped, DistinctKeys
<1>4. TrialsTyped
  <2>1. DOMAIN trials = 0 .. setup.first - 1
    BY <1>1
  <2>2. IsFiniteSet(DOMAIN trials) /\ DOMAIN trials \subseteq Nat
    BY <1>1, <2>1, FS_Interval
  <2> QED BY <1>1, <1>2, <1>3, <2>1, <2>2 DEF TrialsTyped
<1>5. Ended = DOMAIN trials
  BY <1>1 DEF Ended
<1>6. LiveTyped /\ SeenFits /\ CacheSound /\ CacheFresh /\ Cold
  BY <1>1 DEF LiveTyped, SeenFits, CacheSound, CacheFresh, Cold
<1> QED BY <1>2, <1>4, <1>5, <1>6 DEF Inv

LEMMA TrialsTypedStep ==
    ASSUME Inv, [Next]_vars
    PROVE  TrialsTyped'
<1>1. /\ setup \in Setups /\ lost \in Nat
      /\ DOMAIN trials \subseteq Nat /\ IsFiniteSet(DOMAIN trials) /\ Count \in Nat
      /\ setup.width = 1 => DOMAIN trials = 0 .. Count - 1
      /\ \A n \in DOMAIN trials : TrialTyped(setup, n, trials[n])
  BY DEF Inv, TrialsTyped
<1>2. SUFFICES /\ setup' \in Setups /\ lost' \in Nat
               /\ DOMAIN trials' \subseteq Nat /\ IsFiniteSet(DOMAIN trials') /\ Count' \in Nat
               /\ setup'.width = 1 => DOMAIN trials' = 0 .. Count' - 1
               /\ \A n \in DOMAIN trials' : TrialTyped(setup', n, trials'[n])
  BY DEF TrialsTyped
<1>3. CASE UNCHANGED vars
  BY <1>1, <1>3 DEF vars, Count
<1>4. ASSUME NEW program \in setup.programs, Begin(program) PROVE <1>2!1
  <2>1. /\ DOMAIN trials' = DOMAIN trials \cup {Count} /\ DOMAIN trials' = 0 .. Count
        /\ Count' = Count + 1 /\ trials'[Count] = NewTrial(Count)
        /\ \A m \in DOMAIN trials : trials'[m] = trials[m]
        /\ setup' = setup /\ lost' = lost
    BY <1>4, BeginEffect DEF Inv
  <2>2. TrialTyped(setup, Count, NewTrial(Count))
    <3>1. NewTrial(Count) \in SampledTrial
      BY <1>1 DEF NewTrial, SampledTrial, TrialStates
    <3> QED BY <3>1 DEF TrialTyped, NewTrial, DistinctKeys
  <2>3. Count' \in Nat /\ DOMAIN trials' = 0 .. Count' - 1
    BY <1>1, <2>1
  <2>4. IsFiniteSet(DOMAIN trials') /\ DOMAIN trials' \subseteq Nat
    BY <1>1, <2>1, FS_AddElement
  <2> QED BY <1>1, <2>1, <2>2, <2>3, <2>4
<1>5. ASSUME NEW n \in DOMAIN live, LoadHistory(n) PROVE <1>2!1
  <2>1. setup' = setup /\ trials' = trials /\ lost' = lost
    BY <1>5, LoadEffect DEF Inv
  <2> QED BY <1>1, <2>1 DEF Count
<1>6. ASSUME NEW n \in DOMAIN live, Suggest(n) PROVE <1>2!1
  <2> DEFINE c == Head(live[n].todo)
  <2>1. PICK r \in ParamRecord :
          /\ setup' = setup /\ lost' = lost
          /\ DOMAIN trials' = DOMAIN trials /\ Count' = Count
          /\ \A m \in DOMAIN trials \ {n} : trials'[m] = trials[m]
          /\ IsCall(c) /\ c \in Call
          /\ trials'[n] = Record(trials[n], c.name, r) /\ r.dist = c.dist
    BY <1>6, SuggestEffect DEF Inv, Sampled
  <2> HIDE DEF c
  <2>2. n \in DOMAIN trials /\ TrialTyped(setup, n, trials[n])
    BY <1>1 DEF Inv, LiveTyped
  <2> DEFINE u == Record(trials[n], c.name, r).params
             s == trials[n].params
  <2>3. /\ Record(trials[n], c.name, r) \in SampledTrial
        /\ Record(trials[n], c.name, r).number = trials[n].number
        /\ Record(trials[n], c.name, r).state = trials[n].state
        /\ Record(trials[n], c.name, r).value = trials[n].value
        /\ DistinctKeys(u)
        /\ s \in Seq(Entry(STRING, ParamRecord)) /\ u \in Seq(Entry(STRING, ParamRecord))
        /\ Overwrites(s, u, c.name, r)
    <3>1. trials[n] \in SampledTrial /\ DistinctKeys(trials[n].params) /\ c.name \in STRING
      BY <2>1, <2>2 DEF TrialTyped, Call
    <3> QED BY <3>1, RecordTyped, Zenon
  <2>4. PICK p \in 1 .. Len(u) :
              /\ u[p] = [key |-> c.name, val |-> r]
              /\ \A i \in 1 .. Len(s) : i # p => u[i] = s[i] /\ s[i].key # c.name
              /\ \A i \in 1 .. Len(u) : i # p => i \in 1 .. Len(s)
    BY <2>3 DEF Overwrites
  <2>5. \A i \in DOMAIN s : [name |-> s[i].key, dist |-> s[i].val.dist] \in Calls(setup)
    BY <2>2 DEF TrialTyped
  <2>6. c = [name |-> c.name, dist |-> c.dist]
    BY <2>1 DEF Call
  <2> HIDE DEF u, s
  <2>7. DOMAIN u = 1 .. Len(u) /\ DOMAIN s = 1 .. Len(s)
    BY <2>3
  <2>8. ASSUME NEW i \in DOMAIN u PROVE [name |-> u[i].key, dist |-> u[i].val.dist] \in Calls(setup)
    <3>1. CASE i = p
      <4>1. u[i].key = c.name /\ u[i].val.dist = c.dist
        BY <2>1, <2>4, <3>1
      <4> QED BY <2>1, <2>6, <4>1 DEF IsCall
    <3>2. CASE i # p
      <4>1. i \in DOMAIN s /\ u[i] = s[i]
        BY <2>4, <2>7, <3>2
      <4> QED BY <2>5, <4>1
    <3> QED BY <3>1, <3>2
  <2>9. TrialTyped(setup, n, Record(trials[n], c.name, r))
    BY <2>2, <2>3, <2>8 DEF TrialTyped, u
  <2> QED BY <1>1, <2>1, <2>9
<1>7. ASSUME NEW n \in DOMAIN live, Lost(n) PROVE <1>2!1
  <2>1. /\ setup' = setup /\ lost' = lost + 1
        /\ DOMAIN trials' = DOMAIN trials \ {n}
        /\ IsFiniteSet(DOMAIN trials') /\ Count' \in Nat
        /\ setup.width = 1 => DOMAIN trials' = 0 .. n - 1 /\ Count' = n
        /\ \A m \in DOMAIN trials' : trials'[m] = trials[m]
    BY <1>7, LostEffect DEF Inv
  <2>2. lost' \in Nat
    BY <1>1, <2>1
  <2> QED BY <1>1, <2>1, <2>2
<1>8. ASSUME NEW n \in DOMAIN live, NEW o \in Outcome(setup.values), Finish(n, o) PROVE <1>2!1
  <2>1. /\ DOMAIN trials' = DOMAIN trials /\ Count' = Count
        /\ \A m \in DOMAIN trials \ {n} : trials'[m] = trials[m]
        /\ trials'[n] = FinishTrial(trials[n], o)
        /\ setup' = setup /\ lost' = lost
    BY <1>8, FinishEffect DEF Inv
  <2>2. n \in DOMAIN trials /\ TrialTyped(setup, n, trials[n]) /\ setup.values \subseteq Int
    BY <1>1, SetupsAssumption DEF Inv, LiveTyped
  <2>3. CASE o.kind = "Complete"
    <3>1. o.value \in Int
      BY <2>2, <2>3 DEF Outcome
    <3>2. FinishTrial(trials[n], o) = [trials[n] EXCEPT !.value = o.value, !.state = "Complete"]
      BY <2>3 DEF FinishTrial
    <3>3. /\ FinishTrial(trials[n], o) \in SampledTrial
          /\ FinishTrial(trials[n], o).number = n
          /\ FinishTrial(trials[n], o).params = trials[n].params
          /\ FinishTrial(trials[n], o).value \in Int
      BY <2>2, <3>1, <3>2 DEF TrialTyped, SampledTrial, TrialStates
    <3>4. TrialTyped(setup, n, FinishTrial(trials[n], o))
      BY <2>2, <3>3 DEF TrialTyped
    <3> QED BY <1>1, <2>1, <3>4
  <2>4. CASE o.kind # "Complete"
    <3>1. o.kind \in {"Pruned", "Failed"}
      BY <2>4 DEF Outcome
    <3>2. FinishTrial(trials[n], o) = [trials[n] EXCEPT !.state = o.kind]
      BY <2>4 DEF FinishTrial
    <3>3. /\ FinishTrial(trials[n], o) \in SampledTrial
          /\ FinishTrial(trials[n], o).number = n
          /\ FinishTrial(trials[n], o).params = trials[n].params
          /\ FinishTrial(trials[n], o).state # "Complete"
      BY <2>2, <3>1, <3>2 DEF TrialTyped, SampledTrial, TrialStates
    <3>4. TrialTyped(setup, n, FinishTrial(trials[n], o))
      BY <2>2, <3>3 DEF TrialTyped
    <3> QED BY <1>1, <2>1, <3>4
  <2> QED BY <2>3, <2>4
<1> QED BY <1>3, <1>4, <1>5, <1>6, <1>7, <1>8, StepIs

\* What LiveTyped says of one trial.
HolderTyped(s, t, l) ==
    /\ t.state = "Running"
    /\ l \in [todo : Seq(Call), loaded : BOOLEAN, seen : SUBSET Nat]
    /\ \A i \in DOMAIN l.todo : l.todo[i] \in Calls(s)

LEMMA LiveTypedStep ==
    ASSUME Inv, [Next]_vars
    PROVE  LiveTyped'
<1>1. /\ DOMAIN live \subseteq DOMAIN trials
      /\ \A n \in DOMAIN live : HolderTyped(setup, trials[n], live[n])
      /\ Count \in Nat /\ DOMAIN trials \subseteq Nat /\ Ended \in SUBSET Nat
      /\ setup \in Setups
  BY DEF Inv, TrialsTyped, LiveTyped, HolderTyped, IsCall, Ended
<1>2. SUFFICES /\ DOMAIN live' \subseteq DOMAIN trials'
               /\ \A n \in DOMAIN live' : HolderTyped(setup', trials'[n], live'[n])
  BY DEF LiveTyped, HolderTyped, IsCall
<1>3. CASE UNCHANGED vars
  BY <1>1, <1>3 DEF vars
<1>4. ASSUME NEW program \in setup.programs, Begin(program) PROVE <1>2!1
  <2>1. /\ DOMAIN trials' = DOMAIN trials \cup {Count} /\ trials'[Count] = NewTrial(Count)
        /\ \A m \in DOMAIN trials : trials'[m] = trials[m]
        /\ DOMAIN live' = DOMAIN live \cup {Count}
        /\ \A m \in DOMAIN live : live'[m] = live[m]
        /\ live'[Count] = [todo |-> program, loaded |-> Solo,
                           seen |-> IF Solo THEN Ended ELSE {}]
        /\ setup' = setup
    BY <1>4, BeginEffect DEF Inv
  <2>2. program \in Seq(Call) /\ setup.width \in Nat /\ setup.remote \in BOOLEAN
    BY <1>1, SetupsAssumption
  <2>3. \A i \in DOMAIN program : program[i] \in Calls(setup)
    BY DEF Calls
  <2>4. HolderTyped(setup, NewTrial(Count), live'[Count])
    BY <1>1, <2>1, <2>2, <2>3 DEF HolderTyped, NewTrial, Solo
  <2> QED BY <1>1, <2>1, <2>4
<1>5. ASSUME NEW n \in DOMAIN live, LoadHistory(n) PROVE <1>2!1
  <2>1. /\ DOMAIN live' = DOMAIN live
        /\ \A m \in DOMAIN live \ {n} : live'[m] = live[m]
        /\ live'[n] = [live[n] EXCEPT !.loaded = TRUE, !.seen = Ended]
        /\ setup' = setup /\ trials' = trials
    BY <1>5, LoadEffect DEF Inv
  <2>2. HolderTyped(setup, trials[n], live'[n])
    BY <1>1, <2>1 DEF HolderTyped
  <2> QED BY <1>1, <2>1, <2>2
<1>6. ASSUME NEW n \in DOMAIN live, Suggest(n) PROVE <1>2!1
  <2> DEFINE c == Head(live[n].todo)
             s == live[n].todo
  <2>1. PICK r \in ParamRecord :
          /\ setup' = setup /\ DOMAIN live' = DOMAIN live /\ s \in Seq(Call) /\ s # <<>>
          /\ \A m \in DOMAIN live \ {n} : live'[m] = live[m]
          /\ live'[n] = [todo |-> Tail(s), loaded |-> ~setup.remote,
                         seen |-> IF setup.remote THEN {} ELSE live[n].seen]
          /\ DOMAIN trials' = DOMAIN trials
          /\ \A m \in DOMAIN trials \ {n} : trials'[m] = trials[m]
          /\ c \in Call /\ trials'[n] = Record(trials[n], c.name, r)
    BY <1>6, SuggestEffect DEF Inv
  <2> HIDE DEF c
  <2>2. TrialTyped(setup, n, trials[n]) /\ HolderTyped(setup, trials[n], live[n])
    BY <1>1 DEF Inv, TrialsTyped
  <2>3. trials[n] \in SampledTrial /\ DistinctKeys(trials[n].params) /\ c.name \in STRING
    BY <2>1, <2>2 DEF TrialTyped, Call
  <2>4. Record(trials[n], c.name, r).state = "Running"
    BY <2>2, <2>3, RecordTyped DEF HolderTyped
  <2>5. \A i \in DOMAIN s : s[i] \in Calls(setup)
    BY <2>2 DEF HolderTyped
  <2> HIDE DEF s
  <2>6. Tail(s) \in Seq(Call) /\ \A i \in DOMAIN Tail(s) : Tail(s)[i] \in Calls(setup)
    <3>1. Tail(s) \in Seq(Call) /\ Len(Tail(s)) = Len(s) - 1 /\ Len(s) \in Nat
      BY <2>1
    <3>2. ASSUME NEW i \in DOMAIN Tail(s) PROVE Tail(s)[i] \in Calls(setup)
      <4>1. i \in 1 .. Len(s) - 1 /\ i + 1 \in DOMAIN s /\ Tail(s)[i] = s[i + 1]
        BY <2>1, <3>1
      <4> QED BY <2>5, <4>1
    <3> QED BY <3>1, <3>2
  <2>7. setup.remote \in BOOLEAN /\ live[n].seen \in SUBSET Nat
    BY <1>1, <2>2, SetupsAssumption DEF HolderTyped
  <2>8. HolderTyped(setup, trials'[n], live'[n])
    BY <2>1, <2>4, <2>6, <2>7 DEF HolderTyped
  <2> QED BY <1>1, <2>1, <2>8
<1>7. ASSUME NEW n \in DOMAIN live, Lost(n) PROVE <1>2!1
  <2>1. /\ DOMAIN live' = DOMAIN live \ {n} /\ DOMAIN trials' = DOMAIN trials \ {n}
        /\ setup' = setup
        /\ \A m \in DOMAIN live' : live'[m] = live[m]
        /\ \A m \in DOMAIN trials' : trials'[m] = trials[m]
    BY <1>7, LostEffect DEF Inv
  <2> QED BY <1>1, <2>1
<1>8. ASSUME NEW n \in DOMAIN live, NEW o \in Outcome(setup.values), Finish(n, o) PROVE <1>2!1
  <2>1. /\ DOMAIN live' = DOMAIN live \ {n} /\ DOMAIN trials' = DOMAIN trials /\ setup' = setup
        /\ \A m \in DOMAIN live \ {n} : live'[m] = live[m]
        /\ \A m \in DOMAIN trials \ {n} : trials'[m] = trials[m]
    BY <1>8, FinishEffect DEF Inv
  <2> QED BY <1>1, <2>1
<1> QED BY <1>3, <1>4, <1>5, <1>6, <1>7, <1>8, StepIs

-----------------------------------------------------------------------------
(* What a trial holds.                                                      *)

LEMMA SeenFitsStep ==
    ASSUME Inv, [Next]_vars
    PROVE  SeenFits'
<1>1. /\ setup.width = 1 => DOMAIN live \subseteq {Count - 1}
      /\ \A n \in DOMAIN live :
            /\ live[n].seen \subseteq Ended
            /\ ~live[n].loaded => live[n].seen = {}
            /\ Solo => live[n].loaded /\ live[n].seen = Ended
            /\ ~setup.remote /\ ~live[n].loaded => trials[n].params = <<>>
      /\ Count \in Nat /\ DOMAIN live \subseteq DOMAIN trials
      /\ \A n \in DOMAIN live : live[n] \in [todo : Seq(Call), loaded : BOOLEAN, seen : SUBSET Nat]
  BY DEF Inv, SeenFits, TrialsTyped, LiveTyped
<1>2. setup' = setup /\ Solo' = Solo
  BY EndedKept DEF Solo
<1>3. CASE UNCHANGED vars
  BY <1>1, <1>2, <1>3 DEF vars, SeenFits, Count, Ended
<1>4. ASSUME NEW program \in setup.programs, Begin(program) PROVE SeenFits'
  <2>1. /\ Count' = Count + 1 /\ Ended' = Ended
        /\ trials'[Count] = NewTrial(Count)
        /\ \A m \in DOMAIN trials : trials'[m] = trials[m]
        /\ DOMAIN live' = DOMAIN live \cup {Count}
        /\ \A m \in DOMAIN live : live'[m] = live[m]
        /\ live'[Count] = [todo |-> program, loaded |-> Solo,
                           seen |-> IF Solo THEN Ended ELSE {}]
        /\ setup.width = 1 => DOMAIN live = {}
    BY <1>4, BeginEffect DEF Inv
  <2>2. Count = Count' - 1
    BY <1>1, <2>1
  <2>3. NewTrial(Count).params = <<>>
    BY DEF NewTrial
  <2>4. ASSUME NEW n \in DOMAIN live'
        PROVE  /\ live'[n].seen \subseteq Ended'
               /\ ~live'[n].loaded => live'[n].seen = {}
               /\ Solo => live'[n].loaded /\ live'[n].seen = Ended'
               /\ ~setup.remote /\ ~live'[n].loaded => trials'[n].params = <<>>
    <3>1. CASE n = Count
      BY <2>1, <2>3, <3>1
    <3>2. CASE n # Count
      BY <1>1, <2>1, <3>2
    <3> QED BY <3>1, <3>2
  <2>5. setup.width = 1 => DOMAIN live' \subseteq {Count' - 1}
    BY <2>1, <2>2
  <2> QED BY <1>2, <2>4, <2>5 DEF SeenFits
<1>5. ASSUME NEW n \in DOMAIN live, LoadHistory(n) PROVE SeenFits'
  <2>1. /\ ~live[n].loaded
        /\ DOMAIN live' = DOMAIN live
        /\ \A m \in DOMAIN live \ {n} : live'[m] = live[m]
        /\ live'[n] = [live[n] EXCEPT !.loaded = TRUE, !.seen = Ended]
        /\ trials' = trials /\ Ended' = Ended
    BY <1>5, LoadEffect DEF Inv
  <2>2. live'[n].loaded /\ live'[n].seen = Ended /\ Count' = Count
    BY <1>1, <2>1 DEF Count
  <2> QED BY <1>1, <1>2, <2>1, <2>2 DEF SeenFits
<1>6. ASSUME NEW n \in DOMAIN live, Suggest(n) PROVE SeenFits'
  <2>1. /\ DOMAIN live' = DOMAIN live /\ live[n].loaded
        /\ \A m \in DOMAIN live \ {n} : live'[m] = live[m]
        /\ live'[n] = [todo |-> Tail(live[n].todo), loaded |-> ~setup.remote,
                       seen |-> IF setup.remote THEN {} ELSE live[n].seen]
        /\ \A m \in DOMAIN trials \ {n} : trials'[m] = trials[m]
        /\ Ended' = Ended /\ Count' = Count
    BY <1>6, SuggestEffect DEF Inv
  <2>2. setup.remote \in BOOLEAN
    BY SetupsAssumption DEF Inv, TrialsTyped
  <2>3. /\ live'[n].loaded = ~setup.remote
        /\ live'[n].seen = IF setup.remote THEN {} ELSE live[n].seen
    BY <2>1
  <2> QED BY <1>1, <1>2, <2>1, <2>2, <2>3 DEF SeenFits, Solo
<1>7. ASSUME NEW n \in DOMAIN live, Lost(n) PROVE SeenFits'
  <2>1. /\ DOMAIN trials' = DOMAIN trials \ {n} /\ DOMAIN live' = DOMAIN live \ {n}
        /\ \A m \in DOMAIN trials' : trials'[m] = trials[m]
        /\ \A m \in DOMAIN live' : live'[m] = live[m]
        /\ Ended' = Ended
        /\ setup.width = 1 => DOMAIN live' = {}
    BY <1>7, LostEffect DEF Inv
  <2> QED BY <1>1, <1>2, <2>1 DEF SeenFits
<1>8. ASSUME NEW n \in DOMAIN live, NEW o \in Outcome(setup.values), Finish(n, o) PROVE SeenFits'
  <2>1. /\ DOMAIN live' = DOMAIN live \ {n} /\ Count' = Count
        /\ \A m \in DOMAIN live \ {n} : live'[m] = live[m]
        /\ \A m \in DOMAIN trials \ {n} : trials'[m] = trials[m]
        /\ Ended' = Ended \cup {n}
    BY <1>8, FinishEffect DEF Inv
  <2>2. Solo => DOMAIN live' = {}
    BY <1>1, <2>1 DEF Solo
  <2> QED BY <1>1, <1>2, <2>1, <2>2 DEF SeenFits
<1> QED BY <1>3, <1>4, <1>5, <1>6, <1>7, <1>8, StepIs

-----------------------------------------------------------------------------
(* The cache.                                                               *)

\* The cache is as it was, or has got a vector for the trial that has asked.
CacheGets(n) ==
    /\ setup.sampler = "cma" /\ Warm(setup, View(live[n].seen))
    /\ n \notin DOMAIN cache /\ DOMAIN cache' = DOMAIN cache \cup {n}
    /\ \A m \in DOMAIN cache : cache'[m] = cache[m]
    /\ cache'[n].engine = Engine(live[n].seen) /\ cache'[n].had = Len(trials[n].params)
    /\ cache'[n].vector \in Vectors(setup, View(live[n].seen))

\* An answer of CMA-ES, and what it leaves: a numeric parameter asked for while the trial
\* has no vector says that there is too little to draw one from.
LEMMA SuggestCache ==
    ASSUME Inv, NEW n \in DOMAIN live, Suggest(n)
    PROVE  /\ cache' = cache \/ CacheGets(n)
           /\ setup.sampler = "cma" /\ IsNumeric(Head(live[n].todo).dist) /\ n \notin DOMAIN cache'
                 => ~Warm(setup, View(live[n].seen))
<1> DEFINE c == Head(live[n].todo)
           S == live[n].seen
<1>1. /\ S \in SUBSET Ended /\ IsCall(c)
      /\ \E a \in Answers(View(S), trials[n], c.name, c.dist) : cache' = a.cache
  BY SuggestEffect DEF Inv
<1>2. n \in DOMAIN trials /\ trials[n].number = n
  BY DEF Inv, LiveTyped, TrialsTyped, TrialTyped
<1> HIDE DEF c, S
<1>3. PICK a \in Answers(View(S), trials[n], c.name, c.dist) : cache' = a.cache
  BY <1>1
<1>4. /\ setup.sampler # "cma" \/ ~IsNumeric(c.dist) => cache' = cache
      /\ setup.sampler = "cma" /\ IsNumeric(c.dist) =>
            cache' \in CachesAfter(setup, setup.dir, View(S), trials[n], cache)
  BY <1>1, <1>2, <1>3, AnswersAre DEF Inv
<1>5. CASE setup.sampler = "cma" /\ IsNumeric(c.dist)
  <2> DEFINE t == trials[n]
             k == cache'
  <2>1. k \in CachesAfter(setup, setup.dir, View(S), t, cache) /\ t.number = n
    BY <1>2, <1>4, <1>5
  <2> HIDE DEF t, k
  <2>2. \/ /\ k = cache
           /\ t.number \in DOMAIN cache \/ ~Warm(setup, View(S))
        \/ /\ t.number \notin DOMAIN cache /\ Warm(setup, View(S))
           /\ DOMAIN k = DOMAIN cache \cup {t.number}
           /\ \A m \in DOMAIN cache : k[m] = cache[m]
           /\ k[t.number].engine = Engine(S) /\ k[t.number].had = Len(t.params)
           /\ k[t.number].vector \in Vectors(setup, View(S))
    BY <2>1, CacheStep, ZenonT(40)
  <2>3. (k = cache /\ (n \in DOMAIN k \/ ~Warm(setup, View(S)))) \/ CacheGets(n)
    BY <1>5, <2>1, <2>2 DEF CacheGets, S, t, k
  <2>4. CacheGets(n) => n \in DOMAIN k
    BY DEF CacheGets, k
  <2> QED BY <2>3, <2>4 DEF k, S
<1>6. CASE ~(setup.sampler = "cma" /\ IsNumeric(c.dist))
  BY <1>4, <1>6 DEF c
<1> QED BY <1>5, <1>6

LEMMA CacheMoves ==
    ASSUME Inv, [Next]_vars
    PROVE  cache' = cache \/ \E n \in DOMAIN live : Suggest(n) /\ CacheGets(n)
<1>1. CASE UNCHANGED vars
  BY <1>1 DEF vars
<1>2. ASSUME NEW program \in setup.programs, Begin(program) PROVE cache' = cache
  BY <1>2, BeginEffect DEF Inv
<1>3. ASSUME NEW n \in DOMAIN live, LoadHistory(n) PROVE cache' = cache
  BY <1>3, LoadEffect DEF Inv
<1>4. ASSUME NEW n \in DOMAIN live, Suggest(n) PROVE cache' = cache \/ CacheGets(n)
  BY <1>4, SuggestCache
<1>5. ASSUME NEW n \in DOMAIN live, Lost(n) PROVE cache' = cache
  BY <1>5, LostEffect DEF Inv
<1>6. ASSUME NEW n \in DOMAIN live, NEW o, Finish(n, o) PROVE cache' = cache
  BY <1>6, FinishEffect DEF Inv
<1> QED BY <1>1, <1>2, <1>3, <1>4, <1>5, <1>6, StepIs

LEMMA CacheSoundStep ==
    ASSUME Inv, [Next]_vars
    PROVE  CacheSound'
<1> DEFINE Sound(k, m) == /\ k[m].had \in Nat
                          /\ \E S \in SUBSET Ended :
                                k[m].engine = Engine(S) /\ k[m].vector \in Vectors(setup, View(S))
<1>1. /\ setup.sampler # "cma" => DOMAIN cache = {}
      /\ \A m \in DOMAIN cache : Sound(cache, m)
  BY DEF Inv, CacheSound
<1>2. /\ setup' = setup /\ Ended \subseteq Ended'
      /\ \A S \in SUBSET Ended : View(S)' = View(S) /\ Engine(S)' = Engine(S)
  BY EndedKept
<1>3. ASSUME NEW m \in DOMAIN cache', Sound(cache', m)
      PROVE  /\ cache'[m].had \in Nat
             /\ \E S \in SUBSET Ended' :
                   cache'[m].engine = Engine(S)' /\ cache'[m].vector \in Vectors(setup', View(S)')
  BY <1>2, <1>3
<1>4. CASE cache' = cache
  <2>1. \A m \in DOMAIN cache' : Sound(cache', m)
    BY <1>1, <1>4
  <2> HIDE DEF Sound
  <2> QED BY <1>1, <1>2, <1>3, <1>4, <2>1 DEF CacheSound
<1>5. ASSUME NEW n \in DOMAIN live, CacheGets(n) PROVE CacheSound'
  <2>1. \A m \in DOMAIN cache' : m = n \/ (m \in DOMAIN cache /\ cache'[m] = cache[m])
    BY <1>5 DEF CacheGets
  <2>2. Sound(cache', n)
    <3>1. live[n].seen \in SUBSET Ended
      BY DEF Inv, SeenFits
    <3>2. Len(trials[n].params) \in Nat
      <4>1. trials[n] \in SampledTrial
        BY DEF Inv, LiveTyped, TrialsTyped, TrialTyped
      <4>2. trials[n].params \in Seq(Entry(STRING, ParamRecord))
        BY <4>1 DEF SampledTrial
      <4> QED BY <4>2
    <3> QED BY <1>5, <3>1, <3>2 DEF CacheGets
  <2>3. \A m \in DOMAIN cache' : Sound(cache', m)
    BY <1>1, <2>1, <2>2
  <2>4. setup.sampler = "cma"
    BY <1>5 DEF CacheGets
  <2> HIDE DEF Sound
  <2> QED BY <1>2, <1>3, <2>3, <2>4 DEF CacheSound
<1> QED BY <1>4, <1>5, CacheMoves

\* A vector is drawn from what its trial holds, and found with its number from trials
\* that had ended before this one loaded the history.
LEMMA FromSomeStep ==
    ASSUME Inv, [Next]_vars, ~setup.remote, NEW m \in DOMAIN cache', m \in DOMAIN live',
           live'[m].loaded
    PROVE  FromSome(m)'
<1>1. \A S \in SUBSET Ended : Engine(S)' = Engine(S)
  BY EndedKept
<1>2. /\ \A n \in DOMAIN cache : n \in DOMAIN live /\ live[n].loaded => FromSome(n)
      /\ \A n \in DOMAIN cache : \E S \in SUBSET Ended : cache[n].engine = Engine(S)
      /\ \A n \in DOMAIN live : live[n].seen \in SUBSET Ended
  BY DEF Inv, CacheFresh, CacheSound, SeenFits
<1>3. ASSUME m \in DOMAIN cache, cache'[m] = cache[m], m \in DOMAIN live, live[m].loaded,
             live'[m].seen = live[m].seen
      PROVE  FromSome(m)'
  <2>1. PICK S \in SUBSET live[m].seen : cache[m].engine = Engine(S)
    BY <1>2, <1>3 DEF FromSome
  <2>2. S \in SUBSET live'[m].seen /\ cache'[m].engine = Engine(S)'
    BY <1>1, <1>2, <1>3, <2>1
  <2> QED BY <2>2 DEF FromSome
<1>4. ASSUME m \in DOMAIN cache, cache'[m] = cache[m], live'[m].seen = Ended
      PROVE  FromSome(m)'
  <2>1. PICK S \in SUBSET Ended : cache[m].engine = Engine(S)
    BY <1>2, <1>4
  <2>2. S \in SUBSET live'[m].seen /\ cache'[m].engine = Engine(S)'
    BY <1>1, <1>4, <2>1
  <2> QED BY <2>2 DEF FromSome
<1>5. CASE UNCHANGED vars
  BY <1>3, <1>5 DEF vars
<1>6. ASSUME NEW program \in setup.programs, Begin(program) PROVE FromSome(m)'
  <2>1. /\ DOMAIN live' = DOMAIN live \cup {Count}
        /\ \A n \in DOMAIN live : live'[n] = live[n]
        /\ live'[Count] = [todo |-> program, loaded |-> Solo, seen |-> IF Solo THEN Ended ELSE {}]
        /\ cache' = cache
    BY <1>6, BeginEffect DEF Inv
  <2>2. live'[Count].loaded = Solo /\ (Solo => live'[Count].seen = Ended)
    BY <2>1
  <2> QED BY <1>3, <1>4, <2>1, <2>2
<1>7. ASSUME NEW n \in DOMAIN live, LoadHistory(n) PROVE FromSome(m)'
  <2>1. /\ DOMAIN live' = DOMAIN live
        /\ \A k \in DOMAIN live \ {n} : live'[k] = live[k]
        /\ live'[n] = [live[n] EXCEPT !.loaded = TRUE, !.seen = Ended]
        /\ cache' = cache
    BY <1>7, LoadEffect DEF Inv
  <2>2. live'[n].seen = Ended
    BY <2>1 DEF Inv, LiveTyped
  <2> QED BY <1>3, <1>4, <2>1, <2>2
<1>8. ASSUME NEW n \in DOMAIN live, Suggest(n) PROVE FromSome(m)'
  <2>1. /\ DOMAIN live' = DOMAIN live /\ live[n].loaded
        /\ \A k \in DOMAIN live \ {n} : live'[k] = live[k]
        /\ live'[n] = [todo |-> Tail(live[n].todo), loaded |-> ~setup.remote,
                       seen |-> IF setup.remote THEN {} ELSE live[n].seen]
    BY <1>8, SuggestEffect DEF Inv
  <2>2. live'[n].seen = live[n].seen
    BY <2>1
  <2>3. cache' = cache \/ CacheGets(n)
    BY <1>8, SuggestCache
  <2>4. CASE m \in DOMAIN cache /\ cache'[m] = cache[m]
    BY <1>3, <2>1, <2>2, <2>4
  <2>5. CASE CacheGets(n) /\ m = n
    <3>1. PICK S \in SUBSET Ended : S = live[n].seen
      BY <1>2
    <3>2. S \in SUBSET live'[m].seen /\ cache'[m].engine = Engine(S)'
      BY <1>1, <2>2, <2>5, <3>1 DEF CacheGets
    <3> QED BY <3>2 DEF FromSome
  <2> QED BY <2>3, <2>4, <2>5 DEF CacheGets
<1>9. ASSUME NEW n \in DOMAIN live, Lost(n) PROVE FromSome(m)'
  <2>1. /\ DOMAIN live' = DOMAIN live \ {n} /\ cache' = cache
        /\ \A k \in DOMAIN live' : live'[k] = live[k]
    BY <1>9, LostEffect DEF Inv
  <2> QED BY <1>3, <2>1
<1>10. ASSUME NEW n \in DOMAIN live, NEW o, Finish(n, o) PROVE FromSome(m)'
  <2>1. /\ DOMAIN live' = DOMAIN live \ {n} /\ cache' = cache
        /\ \A k \in DOMAIN live \ {n} : live'[k] = live[k]
    BY <1>10, FinishEffect DEF Inv
  <2> QED BY <1>3, <2>1
<1> QED BY <1>5, <1>6, <1>7, <1>8, <1>9, <1>10, StepIs

\* Saves that have failed stay failed.
LEMMA UnbrokenBefore ==
    ASSUME Inv, [Next]_vars, Unbroken'
    PROVE  Unbroken
<1>1. setup' = setup /\ lost \in Nat
  BY EndedKept DEF Inv, TrialsTyped
<1>2. lost' = lost \/ lost' = lost + 1
  <2>1. CASE UNCHANGED vars
    BY <2>1 DEF vars
  <2> QED BY <2>1 DEF Next, Begin, LoadHistory, Suggest, Lost, Finish
<1> QED BY <1>1, <1>2 DEF Unbroken

LEMMA CacheFreshStep ==
    ASSUME Inv, [Next]_vars
    PROVE  CacheFresh'
<1>1. /\ setup' = setup /\ Solo' = Solo
      /\ \A S \in SUBSET Ended : Engine(S)' = Engine(S)
  BY EndedKept DEF Solo
<1> SUFFICES ASSUME ~setup.remote, Unbroken'
             PROVE  \A m \in DOMAIN cache' :
                       /\ m \in DOMAIN live' =>
                             live'[m].loaded /\ cache'[m].engine = Engine(live[m].seen)'
                       /\ m \notin DOMAIN trials' =>
                             /\ Solo /\ DOMAIN live' = {} /\ m = Count'
                             /\ cache'[m].engine = Engine(Ended)'
  BY <1>1, FromSomeStep DEF CacheFresh
<1>2. \A m \in DOMAIN cache :
         /\ m \in DOMAIN live => live[m].loaded /\ cache[m].engine = Engine(live[m].seen)
         /\ m \notin DOMAIN trials =>
               Solo /\ DOMAIN live = {} /\ m = Count /\ cache[m].engine = Engine(Ended)
  BY UnbrokenBefore DEF Inv, CacheFresh
<1>3. /\ \A n \in DOMAIN live :
            /\ live[n].seen \in SUBSET Ended
            /\ Solo => live[n].loaded /\ live[n].seen = Ended
      /\ DOMAIN live \subseteq DOMAIN trials /\ Ended \in SUBSET Ended
  BY DEF Inv, SeenFits, LiveTyped
<1> DEFINE G == \A m \in DOMAIN cache' :
                   /\ m \in DOMAIN live' =>
                         live'[m].loaded /\ cache'[m].engine = Engine(live[m].seen)'
                   /\ m \notin DOMAIN trials' =>
                         /\ Solo /\ DOMAIN live' = {} /\ m = Count'
                         /\ cache'[m].engine = Engine(Ended)'
<1>4. \A m, S : live'[m].seen = S => Engine(live[m].seen)' = Engine(S)'
  OBVIOUS
<1>5. \A S : Ended' = S => Engine(Ended)' = Engine(S)'
  OBVIOUS
<1>6. CASE UNCHANGED vars
  <2>1. /\ cache' = cache /\ live' = live /\ trials' = trials /\ Ended' = Ended /\ Count' = Count
    BY <1>6 DEF vars, Ended, Count
  <2> QED BY <1>1, <1>2, <1>3, <1>4, <1>5, <2>1
<1>7. ASSUME NEW program \in setup.programs, Begin(program) PROVE G
  <2>1. /\ Count \notin DOMAIN trials
        /\ DOMAIN trials' = DOMAIN trials \cup {Count}
        /\ DOMAIN live' = DOMAIN live \cup {Count}
        /\ \A m \in DOMAIN live : live'[m] = live[m]
        /\ live'[Count] = [todo |-> program, loaded |-> Solo, seen |-> IF Solo THEN Ended ELSE {}]
        /\ cache' = cache
    BY <1>7, BeginEffect DEF Inv
  <2>2. live'[Count].loaded = Solo /\ (Solo => live'[Count].seen = Ended)
    BY <2>1
  <2>3. ASSUME NEW m \in DOMAIN cache'
        PROVE  m \in DOMAIN live' => live'[m].loaded /\ cache'[m].engine = Engine(live[m].seen)'
    <3>1. CASE m = Count
      BY <1>1, <1>2, <1>3, <1>4, <2>1, <2>2, <3>1
    <3>2. CASE m # Count
      BY <1>1, <1>2, <1>3, <1>4, <2>1, <3>2
    <3> QED BY <3>1, <3>2
  <2>4. ASSUME NEW m \in DOMAIN cache' PROVE m \in DOMAIN trials'
    BY <1>2, <2>1
  <2> QED BY <2>3, <2>4
<1>8. ASSUME NEW n \in DOMAIN live, LoadHistory(n) PROVE G
  <2>1. /\ ~live[n].loaded /\ DOMAIN live' = DOMAIN live
        /\ \A m \in DOMAIN live \ {n} : live'[m] = live[m]
        /\ trials' = trials /\ cache' = cache
    BY <1>8, LoadEffect DEF Inv
  <2>2. n \notin DOMAIN cache /\ \A m \in DOMAIN cache : m \in DOMAIN trials
    BY <1>2, <2>1
  <2>3. ASSUME NEW m \in DOMAIN cache'
        PROVE  m \in DOMAIN live' => live'[m].loaded /\ cache'[m].engine = Engine(live[m].seen)'
    BY <1>1, <1>2, <1>3, <1>4, <2>1, <2>2
  <2> QED BY <2>1, <2>2, <2>3
<1>9. ASSUME NEW n \in DOMAIN live, Suggest(n) PROVE G
  <2>1. /\ DOMAIN live' = DOMAIN live /\ DOMAIN trials' = DOMAIN trials
        /\ \A m \in DOMAIN live \ {n} : live'[m] = live[m]
        /\ live'[n] = [todo |-> Tail(live[n].todo), loaded |-> ~setup.remote,
                       seen |-> IF setup.remote THEN {} ELSE live[n].seen]
    BY <1>9, SuggestEffect DEF Inv
  <2>2. live'[n].loaded /\ live'[n].seen = live[n].seen
    <3>1. setup.remote \in BOOLEAN
      BY SetupsAssumption DEF Inv, TrialsTyped
    <3>2. /\ live'[n].loaded = ~setup.remote
          /\ live'[n].seen = IF setup.remote THEN {} ELSE live[n].seen
      BY <2>1, <3>1
    <3> QED BY <3>2
  <2>3. \A m \in DOMAIN live : live'[m].seen = live[m].seen
    BY <2>1, <2>2
  <2>4. \A m \in DOMAIN live : Engine(live[m].seen)' = Engine(live[m].seen)
    BY <1>1, <1>3, <1>4, <2>3
  <2>5. \A m \in DOMAIN cache :
           m \in DOMAIN trials /\ (m \in DOMAIN live => live'[m].loaded)
    BY <1>2, <2>1, <2>2
  <2>6. cache' = cache \/ CacheGets(n)
    BY <1>9, SuggestCache
  <2>7. \A m \in DOMAIN cache' :
           \/ m \in DOMAIN cache /\ cache'[m] = cache[m]
           \/ m = n /\ cache'[m].engine = Engine(live[m].seen)
    BY <2>6 DEF CacheGets
  <2> QED BY <1>2, <1>3, <2>1, <2>2, <2>4, <2>5, <2>7
<1>10. ASSUME NEW n \in DOMAIN live, Lost(n) PROVE G
  <2>1. setup.width = 1
    <3>1. lost' = lost + 1 /\ lost \in Nat
      BY <1>10, LostEffect DEF Inv, TrialsTyped
    <3> QED BY <1>1, <3>1 DEF Unbroken
  <2>2. /\ Solo /\ DOMAIN live = {n} /\ DOMAIN live' = {} /\ cache' = cache
        /\ DOMAIN trials' = DOMAIN trials \ {n} /\ Count' = n /\ Ended' = Ended
    BY <1>10, <2>1, LostEffect DEF Inv
  <2> QED BY <1>1, <1>2, <1>3, <1>5, <2>2
<1>11. ASSUME NEW n \in DOMAIN live, NEW o, Finish(n, o) PROVE G
  <2>1. /\ DOMAIN trials' = DOMAIN trials /\ cache' = cache
        /\ DOMAIN live' = DOMAIN live \ {n}
        /\ \A m \in DOMAIN live \ {n} : live'[m] = live[m]
    BY <1>11, FinishEffect DEF Inv
  <2>2. \A m \in DOMAIN cache : m \in DOMAIN trials
    BY <1>2
  <2> QED BY <1>1, <1>2, <1>3, <1>4, <2>1, <2>2
<1> QED BY <1>6, <1>7, <1>8, <1>9, <1>10, <1>11, StepIs

LEMMA ColdStep ==
    ASSUME Inv, [Next]_vars
    PROVE  Cold'
<1> DEFINE AnyNumeric(t) == \E i \in DOMAIN t.params : IsNumeric(t.params[i].val.dist)
           Draws(S) == Warm(setup, View(S))
<1>1. /\ setup' = setup
      /\ \A S \in SUBSET Ended : View(S)' = View(S)
  BY EndedKept
<1>2. \A n \in DOMAIN live :
         n \notin DOMAIN cache /\ setup.sampler = "cma" /\ ~setup.remote /\ live[n].loaded
            /\ AnyNumeric(trials[n]) => ~Draws(live[n].seen)
  BY DEF Inv, Cold, HasNumeric
<1>3. /\ DOMAIN live \subseteq DOMAIN trials
      /\ \A n \in DOMAIN live :
            /\ live[n].seen \in SUBSET Ended
            /\ ~setup.remote /\ ~live[n].loaded => trials[n].params = <<>>
  BY DEF Inv, SeenFits, LiveTyped
<1>4. DOMAIN cache \subseteq DOMAIN cache'
  BY CacheMoves DEF CacheGets
<1> DEFINE G == \A n \in DOMAIN live' :
                   n \notin DOMAIN cache' /\ setup.sampler = "cma" /\ ~setup.remote
                      /\ live'[n].loaded /\ AnyNumeric(trials'[n])
                      => ~Warm(setup', View(live[n].seen)')
<1> SUFFICES G
  BY <1>1 DEF Cold, HasNumeric
<1>5. ASSUME NEW n \in DOMAIN live, live'[n] = live[n], n \notin DOMAIN cache',
             setup.sampler = "cma", ~setup.remote, live'[n].loaded,
             trials'[n] = trials[n], AnyNumeric(trials'[n])
      PROVE  ~Warm(setup', View(live[n].seen)')
  <2>1. ~Draws(live[n].seen)
    BY <1>2, <1>4, <1>5
  <2>2. View(live[n].seen)' = View(live[n].seen)
    <3>1. PICK S \in SUBSET Ended : S = live[n].seen
      BY <1>3
    <3>2. View(live[n].seen)' = View(S)'
      BY <1>5, <3>1
    <3> QED BY <1>1, <3>1, <3>2
  <2> QED BY <1>1, <2>1, <2>2
<1>6. CASE UNCHANGED vars
  BY <1>3, <1>5, <1>6 DEF vars
<1>7. ASSUME NEW program \in setup.programs, Begin(program) PROVE G
  <2>1. /\ DOMAIN live' = DOMAIN live \cup {Count} /\ trials'[Count] = NewTrial(Count)
        /\ \A m \in DOMAIN live : live'[m] = live[m]
        /\ \A m \in DOMAIN trials : trials'[m] = trials[m]
    BY <1>7, BeginEffect DEF Inv
  <2>2. ~AnyNumeric(NewTrial(Count))
    BY DEF NewTrial
  <2> HIDE DEF AnyNumeric
  <2> QED BY <1>3, <1>5, <2>1, <2>2
<1>8. ASSUME NEW n \in DOMAIN live, LoadHistory(n) PROVE G
  <2>1. /\ ~live[n].loaded /\ DOMAIN live' = DOMAIN live /\ trials' = trials
        /\ \A m \in DOMAIN live \ {n} : live'[m] = live[m]
    BY <1>8, LoadEffect DEF Inv
  <2>2. ~setup.remote => ~AnyNumeric(trials[n])
    BY <1>3, <2>1
  <2> HIDE DEF AnyNumeric
  <2> QED BY <1>3, <1>5, <2>1, <2>2
<1>9. ASSUME NEW n \in DOMAIN live, Suggest(n) PROVE G
  <2> DEFINE c == Head(live[n].todo)
             s == trials[n].params
             u == trials'[n].params
  <2>1. PICK r \in ParamRecord :
          /\ DOMAIN live' = DOMAIN live /\ live[n].loaded
          /\ \A m \in DOMAIN live \ {n} : live'[m] = live[m]
          /\ live'[n] = [todo |-> Tail(live[n].todo), loaded |-> ~setup.remote,
                         seen |-> IF setup.remote THEN {} ELSE live[n].seen]
          /\ \A m \in DOMAIN trials \ {n} : trials'[m] = trials[m]
          /\ c \in Call /\ trials'[n] = Record(trials[n], c.name, r) /\ r.dist = c.dist
    BY <1>9, SuggestEffect DEF Inv, Sampled
  <2>2. TrialTyped(setup, n, trials[n])
    BY <1>3 DEF Inv, TrialsTyped
  <2>3. /\ Overwrites(s, u, c.name, r)
        /\ s \in Seq(Entry(STRING, ParamRecord)) /\ u \in Seq(Entry(STRING, ParamRecord))
    <3>1. trials[n] \in SampledTrial /\ DistinctKeys(s) /\ c.name \in STRING
      BY <2>1, <2>2 DEF TrialTyped, Call
    <3> HIDE DEF c
    <3> QED BY <2>1, <3>1, RecordTyped
  <2>4. AnyNumeric(trials'[n]) => IsNumeric(c.dist) \/ AnyNumeric(trials[n])
    <3> HIDE DEF c
    <3>1. PICK p \in 1 .. Len(u) :
            /\ u[p] = [key |-> c.name, val |-> r]
            /\ \A i \in 1 .. Len(s) : i # p => u[i] = s[i]
            /\ \A i \in 1 .. Len(u) : i # p => i \in 1 .. Len(s)
      BY <2>3 DEF Overwrites
    <3>2. DOMAIN s = 1 .. Len(s) /\ DOMAIN u = 1 .. Len(u)
      BY <2>3
    <3>3. u[p].val.dist = c.dist
      BY <2>1, <3>1
    <3> HIDE DEF s, u
    <3>4. \A i \in DOMAIN u : i = p \/ (i \in DOMAIN s /\ u[i] = s[i])
      BY <3>1, <3>2
    <3> QED BY <3>3, <3>4 DEF s, u
  <2>5. /\ IsNumeric(c.dist) /\ setup.sampler = "cma" /\ n \notin DOMAIN cache'
              => ~Draws(live[n].seen)
    BY <1>9, SuggestCache
  <2>6. ~setup.remote => View(live[n].seen)' = View(live[n].seen)
    <3>1. PICK S \in SUBSET Ended : S = live[n].seen
      BY <1>3
    <3>2. ~setup.remote => live'[n].seen = S
      BY <2>1, <3>1
    <3>3. ~setup.remote => View(live[n].seen)' = View(S)'
      BY <3>2
    <3> QED BY <1>1, <3>1, <3>3
  <2> HIDE DEF AnyNumeric, c, s, u
  <2>7. ASSUME n \notin DOMAIN cache', setup.sampler = "cma", ~setup.remote, AnyNumeric(trials'[n])
        PROVE  ~Warm(setup', View(live[n].seen)')
    BY <1>1, <1>2, <1>4, <2>1, <2>4, <2>5, <2>6, <2>7
  <2> QED BY <1>3, <1>5, <2>1, <2>7
<1>10. ASSUME NEW n \in DOMAIN live, Lost(n) PROVE G
  <2>1. /\ DOMAIN trials' = DOMAIN trials \ {n} /\ DOMAIN live' = DOMAIN live \ {n}
        /\ \A m \in DOMAIN trials' : trials'[m] = trials[m]
        /\ \A m \in DOMAIN live' : live'[m] = live[m]
    BY <1>10, LostEffect DEF Inv
  <2> HIDE DEF AnyNumeric
  <2> QED BY <1>3, <1>5, <2>1
<1>11. ASSUME NEW n \in DOMAIN live, NEW o, Finish(n, o) PROVE G
  <2>1. /\ DOMAIN live' = DOMAIN live \ {n}
        /\ \A m \in DOMAIN live \ {n} : live'[m] = live[m]
        /\ \A m \in DOMAIN trials \ {n} : trials'[m] = trials[m]
    BY <1>11, FinishEffect DEF Inv
  <2> HIDE DEF AnyNumeric
  <2> QED BY <1>3, <1>5, <2>1
<1> QED BY <1>6, <1>7, <1>8, <1>9, <1>10, <1>11, StepIs

\* The types and the invariant of every study.
THEOREM SampledInvariant == Spec => []Inv
<1>1. Init => Inv
  BY InitTyped
<1>2. Inv /\ [Next]_vars => Inv'
  BY TrialsTypedStep, LiveTypedStep, SeenFitsStep, CacheSoundStep, CacheFreshStep, ColdStep
     DEF Inv
<1> QED BY <1>1, <1>2, PTL DEF Spec

\* The vector a local trial works with is of the history that trial was given
\* (cmaes.rs:180-182): under optimize always, also where the number it is cached by was
\* that of a trial that has been lost; under optimize_parallel until a save has failed,
\* and after that it is of some of the trials in that history.
THEOREM VectorsAreFresh == Spec => []CacheIsFresh
<1>1. Inv => CacheIsFresh
  BY DEF Inv, CacheFresh, CacheIsFresh, FromSome, Unbroken, Engine
<1> QED BY <1>1, SampledInvariant, PTL

-----------------------------------------------------------------------------
(* What the trials record.                                                  *)

\* e records the answer to the call that trial n has come to.
Answered(n, e) ==
    LET c == Head(live[n].todo)
    IN  /\ IsCall(c) /\ e.key = c.name /\ e.val.dist = c.dist /\ e.val.value \in Value
        /\ IF setup.sampler = "grid" /\ HasGrid(setup.axes, c.name)
           THEN e.val.value \in GridAnswers(setup.axes, n, c.name, c.dist)
           ELSE Apt(c, e.val.value)
        /\ setup.sampler = "cma" /\ IsNumeric(c.dist) =>
              e.val.value \in FromVector(cache', n, c.name, c.dist)

\* A parameter is as it was, or it is the answer to the call just made.
LEMMA SlotsMove ==
    ASSUME Inv, [Next]_vars, NEW m \in DOMAIN trials', NEW i \in DOMAIN trials'[m].params
    PROVE  \/ /\ m \in DOMAIN trials /\ i \in DOMAIN trials[m].params
              /\ trials'[m].params[i] = trials[m].params[i]
           \/ m \in DOMAIN live /\ Suggest(m) /\ Answered(m, trials'[m].params[i])
<1> DEFINE Kept == /\ m \in DOMAIN trials /\ i \in DOMAIN trials[m].params
                   /\ trials'[m].params[i] = trials[m].params[i]
<1>1. m \in DOMAIN trials /\ trials'[m] = trials[m] => Kept
  OBVIOUS
<1>2. CASE UNCHANGED vars
  BY <1>1, <1>2 DEF vars
<1>3. ASSUME NEW program \in setup.programs, Begin(program) PROVE Kept
  <2>1. /\ DOMAIN trials' = DOMAIN trials \cup {Count} /\ trials'[Count] = NewTrial(Count)
        /\ \A j \in DOMAIN trials : trials'[j] = trials[j]
    BY <1>3, BeginEffect DEF Inv
  <2>2. m # Count
    BY <2>1 DEF NewTrial
  <2> QED BY <1>1, <2>1, <2>2
<1>4. ASSUME NEW n \in DOMAIN live, LoadHistory(n) PROVE Kept
  BY <1>1, <1>4, LoadEffect DEF Inv
<1>5. ASSUME NEW n \in DOMAIN live, Lost(n) PROVE Kept
  BY <1>1, <1>5, LostEffect DEF Inv
<1>6. ASSUME NEW n \in DOMAIN live, NEW o, Finish(n, o) PROVE Kept
  <2>1. /\ DOMAIN trials' = DOMAIN trials
        /\ \A j \in DOMAIN trials \ {n} : trials'[j] = trials[j]
        /\ trials'[n] = FinishTrial(trials[n], o)
    BY <1>6, FinishEffect DEF Inv
  <2>2. trials'[n].params = trials[n].params
    <3>1. n \in DOMAIN trials /\ trials[n] \in SampledTrial
      BY DEF Inv, LiveTyped, TrialsTyped, TrialTyped
    <3> QED BY <2>1, <3>1 DEF FinishTrial, SampledTrial
  <2> QED BY <1>1, <2>1, <2>2
<1>7. ASSUME NEW n \in DOMAIN live, Suggest(n)
      PROVE  Kept \/ (m = n /\ Answered(m, trials'[m].params[i]))
  <2> DEFINE c == Head(live[n].todo)
             S == live[n].seen
             s == trials[n].params
             u == trials'[n].params
  <2>1. /\ S \in SUBSET Ended /\ IsCall(c) /\ c \in Call
        /\ DOMAIN trials' = DOMAIN trials
        /\ \A j \in DOMAIN trials \ {n} : trials'[j] = trials[j]
        /\ \E a \in Answers(View(S), trials[n], c.name, c.dist) :
              /\ cache' = a.cache
              /\ trials'[n] = Record(trials[n], c.name, Sampled(c.dist, a.value))
              /\ Sampled(c.dist, a.value) \in ParamRecord
    BY <1>7, SuggestEffect DEF Inv
  <2>2. n \in DOMAIN trials /\ TrialTyped(setup, n, trials[n])
    BY DEF Inv, LiveTyped, TrialsTyped
  <2>3. CASE m # n
    BY <1>1, <2>1, <2>3
  <2>4. CASE m = n
    <3> HIDE DEF c, S
    <3>1. PICK a \in Answers(View(S), trials[n], c.name, c.dist) :
            /\ cache' = a.cache
            /\ trials'[n] = Record(trials[n], c.name, Sampled(c.dist, a.value))
            /\ Sampled(c.dist, a.value) \in ParamRecord
      BY <2>1
    <3> DEFINE r == Sampled(c.dist, a.value)
    <3>2. r.dist = c.dist /\ r.value = a.value /\ r \in ParamRecord
      BY <3>1 DEF Sampled
    <3> HIDE DEF r
    <3>3. trials[n] \in SampledTrial /\ DistinctKeys(s) /\ c.name \in STRING
      BY <2>1, <2>2 DEF TrialTyped, Call
    <3>4. trials'[n] = Record(trials[n], c.name, r)
      BY <3>1 DEF r
    <3>5. /\ Overwrites(s, u, c.name, r)
          /\ s \in Seq(Entry(STRING, ParamRecord)) /\ u \in Seq(Entry(STRING, ParamRecord))
      BY <3>2, <3>3, <3>4, RecordTyped
    <3> HIDE DEF s, u
    <3>6. PICK p \in 1 .. Len(u) :
            /\ u[p] = [key |-> c.name, val |-> r]
            /\ \A j \in 1 .. Len(s) : j # p => u[j] = s[j]
            /\ \A j \in 1 .. Len(u) : j # p => j \in 1 .. Len(s)
      BY <3>5 DEF Overwrites
    <3>7. DOMAIN s = 1 .. Len(s) /\ DOMAIN u = 1 .. Len(u)
      BY <3>5
    <3>8. CASE i # p
      BY <2>2, <2>4, <3>6, <3>7, <3>8 DEF s, u
    <3>9. CASE i = p
      <4>1. u[i].key = c.name /\ u[i].val.dist = c.dist /\ u[i].val.value = a.value
        BY <3>2, <3>6, <3>9
      <4>2. /\ a.value \in Value
            /\ IF setup.sampler = "grid" /\ HasGrid(setup.axes, c.name)
               THEN a.value \in ToSet(GridValues(setup.axes, c.name)) ELSE Apt(c, a.value)
            /\ setup.sampler = "grid" => a.value \in GridAnswers(setup.axes, n, c.name, c.dist)
            /\ setup.sampler = "cma" /\ IsNumeric(c.dist) =>
                  a.value \in FromVector(a.cache, n, c.name, c.dist)
        BY <2>1, <2>2, AnswersAre DEF Inv
      <4>3. Answered(n, u[i])
        <5>1. cache' = a.cache
          BY <3>1
        <5> QED BY <2>1, <4>1, <4>2, <5>1 DEF Answered, c
      <4> QED BY <2>4, <4>3 DEF u
    <3> QED BY <3>8, <3>9
  <2> QED BY <2>3, <2>4
<1> QED BY <1>2, <1>3, <1>4, <1>5, <1>6, <1>7, StepIs

\* The coordinates of a vector are numbers, each in a range its name was given.
LEMMA VectorsFit ==
    ASSUME Inv, [Next]_vars, NEW m \in DOMAIN cache', NEW x \in DOMAIN cache'[m].vector
    PROVE  /\ setup.sampler = "cma" /\ FitsEarlier(x, cache'[m].vector[x])
           /\ \A d \in Distribution : VariantMatches(d, cache'[m].vector[x]) => IsNumeric(d)
<1> DEFINE v == cache'[m].vector
<1>1. \E Q \in SUBSET Ended : v \in Vectors(setup, View(Q))
  <2>1. CASE cache' = cache
    BY <2>1 DEF Inv, CacheSound
  <2>2. ASSUME NEW n \in DOMAIN live, CacheGets(n)
        PROVE  \E Q \in SUBSET Ended : v \in Vectors(setup, View(Q))
    <3>1. live[n].seen \in SUBSET Ended
      BY DEF Inv, SeenFits
    <3> QED BY <2>2, <3>1 DEF CacheGets, Inv, CacheSound
  <2> QED BY <2>1, <2>2, CacheMoves
<1>2. setup.sampler = "cma"
  BY CacheMoves DEF CacheGets, Inv, CacheSound
<1>3. PICK Q \in SUBSET Ended : v \in Vectors(setup, View(Q))
  BY <1>1
<1>4. Q \subseteq DOMAIN trials
  BY DEF Ended
<1> HIDE DEF v
<1>5. x \in DOMAIN v
  BY DEF v
<1>6. PICK q \in Q : /\ RecordOf(trials[q], x) # None
                     /\ IsNumeric(RecordOf(trials[q], x).dist)
                     /\ IsCall([name |-> x, dist |-> RecordOf(trials[q], x).dist])
                     /\ Fits(RecordOf(trials[q], x).dist, v[x])
  BY <1>2, <1>3, <1>4, <1>5, CoordinatesFit DEF Inv
<1>7. FitsEarlier(x, v[x])
  BY <1>6 DEF FitsEarlier
<1>8. v[x].type \in {"Float", "Int"}
  <2>1. VariantMatches(RecordOf(trials[q], x).dist, v[x])
    BY <1>6 DEF Fits
  <2>2. RecordOf(trials[q], x).dist.kind \in {"Uniform", "LogUniform", "IntUniform"}
    BY <1>6 DEF IsNumeric, NumericKinds
  <2> QED BY <2>1, <2>2 DEF VariantMatches, TypeOf
<1>9. ASSUME NEW d \in Distribution, VariantMatches(d, v[x]), ~IsNumeric(d) PROVE FALSE
  <2>1. d.kind = "Categorical"
    BY <1>9, DistributionShape
  <2> QED BY <1>8, <1>9, <2>1 DEF VariantMatches, TypeOf
<1> QED BY <1>2, <1>7, <1>9 DEF v

LEMMA OnePointStep ==
    ASSUME Inv, OnePoint, [Next]_vars
    PROVE  OnePoint'
<1> SUFFICES ASSUME NEW m \in DOMAIN cache' \cap DOMAIN trials',
                    NEW i \in DOMAIN trials'[m].params,
                    trials'[m].params[i].key \in DOMAIN cache'[m].vector,
                    VariantMatches(trials'[m].params[i].val.dist,
                                   cache'[m].vector[trials'[m].params[i].key]),
                    setup'.remote => i > cache'[m].had
             PROVE  trials'[m].params[i].val.value = cache'[m].vector[trials'[m].params[i].key]
  BY DEF OnePoint
<1> DEFINE p == trials'[m].params[i]
           v == cache'[m].vector
<1>1. setup' = setup
  BY EndedKept
<1>2. setup.sampler = "cma" /\ \A d \in Distribution : VariantMatches(d, v[p.key]) => IsNumeric(d)
  BY VectorsFit
<1>3. CASE /\ m \in DOMAIN trials /\ i \in DOMAIN trials[m].params
           /\ p = trials[m].params[i]
  <2>1. CASE m \in DOMAIN cache
    <3>1. cache'[m] = cache[m]
      BY <2>1, CacheMoves DEF CacheGets
    <3> QED BY <1>1, <1>3, <2>1, <3>1 DEF OnePoint
  <2>2. CASE m \notin DOMAIN cache
    <3>1. m \in DOMAIN live /\ Suggest(m) /\ CacheGets(m)
      BY <2>2, CacheMoves DEF CacheGets
    <3>2. cache'[m].had = Len(trials[m].params) /\ Warm(setup, View(live[m].seen)) /\ live[m].loaded
      BY <3>1 DEF CacheGets, Suggest
    <3>3. TrialTyped(setup, m, trials[m]) /\ setup \in Setups
      BY <1>3 DEF Inv, TrialsTyped
    <3>4. ~setup.remote
      <4>1. trials[m].params \in Seq(Entry(STRING, ParamRecord))
        BY <3>3 DEF TrialTyped, SampledTrial
      <4> QED BY <1>1, <1>3, <3>2, <4>1
    <3>5. ~IsNumeric(p.val.dist)
      BY <1>2, <1>3, <2>2, <3>1, <3>2, <3>4 DEF Inv, Cold, HasNumeric
    <3>6. p.val.dist \in Distribution
      <4> DEFINE c == [name |-> p.key, dist |-> p.val.dist]
      <4>1. IsCall(c) /\ c.dist = p.val.dist
        BY <1>3, <3>3 DEF TrialTyped, IsCall
      <4> HIDE DEF c
      <4> QED BY <3>3, <4>1, CallsTyped
    <3> QED BY <1>2, <3>5, <3>6
  <2> QED BY <2>1, <2>2
<1>4. CASE m \in DOMAIN live /\ Suggest(m) /\ Answered(m, p)
  <2> DEFINE c == Head(live[m].todo)
  <2>1. /\ IsCall(c) /\ p.key = c.name /\ p.val.dist = c.dist
        /\ IsNumeric(c.dist) => p.val.value \in FromVector(cache', m, c.name, c.dist)
    BY <1>2, <1>4 DEF Answered
  <2> HIDE DEF c
  <2>2. c.dist \in Distribution
    BY <2>1, CallsTyped DEF Inv, TrialsTyped
  <2>3. IsNumeric(c.dist)
    BY <1>2, <2>1, <2>2
  <2>4. FromVector(cache', m, c.name, c.dist) = {v[c.name]}
    BY <2>1 DEF FromVector
  <2> QED BY <2>1, <2>3, <2>4
<1> QED BY <1>3, <1>4, SlotsMove

\* A trial tries one point: whichever of its parameters are coordinates of the vector it
\* was given take their values from it, those asked for before it was drawn excepted where
\* the history may grow in between (cmaes.rs:24-27, 221-222).
THEOREM TrialsTryOnePoint == Spec => []OnePoint
<1>1. Init => OnePoint
  <2>1. Init => DOMAIN cache = {}
    BY DEF Init
  <2> QED BY <2>1 DEF OnePoint
<1>2. Inv /\ OnePoint /\ [Next]_vars => OnePoint'
  BY OnePointStep
<1> QED BY <1>1, <1>2, SampledInvariant, PTL DEF Spec

\* Every record is of an answer that suits its distribution, or a point of the grid.
RecordsApt ==
    \A n \in DOMAIN trials : \A i \in DOMAIN trials[n].params :
        LET e == trials[n].params[i]
        IN  IF setup.sampler = "grid" /\ HasGrid(setup.axes, e.key)
            THEN e.val.value \in GridAnswers(setup.axes, n, e.key, e.val.dist)
            ELSE \/ Fits(e.val.dist, e.val.value)
                 \/ /\ setup.sampler = "cma" /\ VariantMatches(e.val.dist, e.val.value)
                    /\ FitsEarlier(e.key, e.val.value)

LEMMA RecordsAptStep ==
    ASSUME Inv, RecordsApt, [Next]_vars
    PROVE  RecordsApt'
<1>1. /\ setup' = setup /\ Ended \subseteq Ended'
      /\ \A m \in Ended : trials'[m] = trials[m]
  BY EndedKept
<1>2. ASSUME NEW x, NEW v, FitsEarlier(x, v)
      PROVE  \E m \in Ended' : /\ RecordOf(trials'[m], x) # None
                               /\ IsNumeric(RecordOf(trials'[m], x).dist)
                               /\ IsCall([name |-> x, dist |-> RecordOf(trials'[m], x).dist])
                               /\ Fits(RecordOf(trials'[m], x).dist, v)
  <2>1. PICK m \in Ended : /\ RecordOf(trials[m], x) # None
                           /\ IsNumeric(RecordOf(trials[m], x).dist)
                           /\ IsCall([name |-> x, dist |-> RecordOf(trials[m], x).dist])
                           /\ Fits(RecordOf(trials[m], x).dist, v)
    BY <1>2 DEF FitsEarlier
  <2> QED BY <1>1, <2>1 DEF IsCall
<1> DEFINE Ok(e) ==
             \/ Fits(e.val.dist, e.val.value)
             \/ /\ setup.sampler = "cma" /\ VariantMatches(e.val.dist, e.val.value)
                /\ FitsEarlier(e.key, e.val.value)
<1>3. ASSUME NEW e, Ok(e)
      PROVE  \/ Fits(e.val.dist, e.val.value)
             \/ /\ setup'.sampler = "cma" /\ VariantMatches(e.val.dist, e.val.value)
                /\ \E m \in Ended' : /\ RecordOf(trials'[m], e.key) # None
                                     /\ IsNumeric(RecordOf(trials'[m], e.key).dist)
                                     /\ IsCall([name |-> e.key,
                                                dist |-> RecordOf(trials'[m], e.key).dist])
                                     /\ Fits(RecordOf(trials'[m], e.key).dist, e.val.value)
  BY <1>1, <1>2, <1>3
<1> SUFFICES ASSUME NEW n \in DOMAIN trials', NEW i \in DOMAIN trials'[n].params
             PROVE  LET e == trials'[n].params[i]
                    IN  IF setup.sampler = "grid" /\ HasGrid(setup.axes, e.key)
                        THEN e.val.value \in GridAnswers(setup.axes, n, e.key, e.val.dist)
                        ELSE Ok(e)
  <2> HIDE DEF Ok
  <2> QED BY <1>1, <1>3, ZenonT(40) DEF RecordsApt, FitsEarlier, IsCall
<1>4. CASE /\ n \in DOMAIN trials /\ i \in DOMAIN trials[n].params
           /\ trials'[n].params[i] = trials[n].params[i]
  BY <1>4 DEF RecordsApt
<1>5. CASE n \in DOMAIN live /\ Suggest(n) /\ Answered(n, trials'[n].params[i])
  BY <1>5 DEF Answered, Apt
<1> QED BY <1>4, <1>5, SlotsMove

\* The types and what the records hold.
LEMMA RecordsInvariant == Spec => []RecordsApt
<1>1. Init => RecordsApt
  BY DEF Init, RecordsApt, FinishTrial, NewTrial
<1>2. Inv /\ RecordsApt /\ [Next]_vars => RecordsApt'
  BY RecordsAptStep
<1> QED BY <1>1, <1>2, SampledInvariant, PTL DEF Spec

\* Values are of the type asked for (traits.rs:11-13); those drawn at random, taken from
\* the grid or proposed by TPE are in the range asked for too.  One that CMA-ES decodes
\* from a vector is, as long as its name has been asked for with that range only; of a
\* name that has had several it is in one of them (cmaes.rs:160, 254-258).  The grid has
\* to be registered with values that fit, and no range CMA-ES is given may be empty.
THEOREM ValuesInSupport ==
    ASSUME \A s \in Setups : WellAsked(s)
    PROVE  Spec => []InSupport
<1>1. ASSUME Inv, RecordsApt PROVE InSupport
  <2> SUFFICES ASSUME NEW n \in DOMAIN trials, NEW i \in DOMAIN trials[n].params,
                      Inhabited(trials[n].params[i].val.dist)
               PROVE  LET p     == trials[n].params[i]
                          moved == setup.sampler = "cma" /\ DistsOf(p.key) # {p.val.dist}
                      IN  /\ VariantMatches(p.val.dist, p.val.value)
                          /\ ~moved => InSupportOf(p.val.dist, p.val.value)
                          /\ moved => \E d \in DistsOf(p.key) : InSupportOf(d, p.val.value)
    BY DEF InSupport
  <2> DEFINE p == trials[n].params[i]
             c == [name |-> p.key, dist |-> p.val.dist]
  <2>1. /\ TrialTyped(setup, n, trials[n]) /\ setup \in Setups /\ WellAsked(setup)
        /\ n \in Nat
    BY <1>1 DEF Inv, TrialsTyped
  <2>2. IsCall(c) /\ c.dist = p.val.dist /\ c.name = p.key
    BY <2>1 DEF TrialTyped, IsCall
  <2>3. p.val.dist \in DistsOf(p.key)
    <3>1. trials[n].params \in Seq(Entry(STRING, ParamRecord)) /\ DistinctKeys(trials[n].params)
      BY <2>1 DEF TrialTyped, SampledTrial
    <3>2. RecordOf(trials[n], p.key) = p.val /\ RecordOf(trials[n], p.key) # None
      BY <3>1, RecordOfSlot
    <3> QED BY <3>2 DEF DistsOf
  <2>4. CASE setup.sampler = "grid" /\ HasGrid(setup.axes, p.key)
    <3>1. setup.axes \in Seq(AxisType)
      BY <2>1, SetupsAssumption, Zenon DEF AxisType
    <3>2. p.val.dist \in Distribution /\ Logarithmic(p.val.dist)
      <4> HIDE DEF c
      <4> QED BY <2>1, <2>2, CallsTyped
    <3>3. p.val.value \in GridAnswers(setup.axes, n, p.key, p.val.dist)
      BY <1>1, <2>4 DEF RecordsApt
    <3>4. p.val.value \in ToSet(GridValues(setup.axes, p.key))
      <4> DEFINE v == p.val.value
                 d == p.val.dist
                 x == p.key
      <4>1. v \in GridAnswers(setup.axes, n, x, d) /\ d \in Distribution /\ Logarithmic(d)
            /\ HasGrid(setup.axes, x)
        BY <2>4, <3>2, <3>3
      <4> HIDE DEF v, d, x
      <4>2. v \in ToSet(GridValues(setup.axes, x))
        BY <2>1, <3>1, <4>1, GridAnswersFit
      <4> QED BY <4>2 DEF v, x
    <3>5. InSupportOf(p.val.dist, p.val.value)
      BY <2>1, <2>2, <2>4, <3>4 DEF WellAsked, IsCall, Calls
    <3> QED BY <2>4, <3>5 DEF InSupportOf
  <2>5. CASE ~(setup.sampler = "grid" /\ HasGrid(setup.axes, p.key))
    <3>1. \/ Fits(p.val.dist, p.val.value)
          \/ /\ setup.sampler = "cma" /\ VariantMatches(p.val.dist, p.val.value)
             /\ FitsEarlier(p.key, p.val.value)
      BY <1>1, <2>5 DEF RecordsApt
    <3>2. CASE Fits(p.val.dist, p.val.value)
      BY <2>3, <3>2 DEF Fits
    <3>3. CASE /\ setup.sampler = "cma" /\ VariantMatches(p.val.dist, p.val.value)
               /\ FitsEarlier(p.key, p.val.value)
      <4>1. PICK m \in Ended : /\ RecordOf(trials[m], p.key) # None
                               /\ IsNumeric(RecordOf(trials[m], p.key).dist)
                               /\ IsCall([name |-> p.key, dist |-> RecordOf(trials[m], p.key).dist])
                               /\ Fits(RecordOf(trials[m], p.key).dist, p.val.value)
        BY <3>3 DEF FitsEarlier
      <4> DEFINE d == RecordOf(trials[m], p.key).dist
      <4>2. d \in DistsOf(p.key)
        BY <4>1 DEF DistsOf, Ended
      <4>3. Inhabited(d)
        <5> DEFINE e == [name |-> p.key, dist |-> d]
        <5>1. IsCall(e) /\ e.dist = d
          BY <4>1
        <5> HIDE DEF e, d
        <5> QED BY <2>1, <3>3, <4>1, <5>1 DEF WellAsked, IsCall, Calls, d
      <4>4. InSupportOf(d, p.val.value)
        BY <4>1, <4>3 DEF Fits
      <4>5. DistsOf(p.key) = {p.val.dist} => d = p.val.dist
        BY <4>2
      <4> QED BY <3>3, <4>2, <4>4, <4>5
    <3> QED BY <3>1, <3>2, <3>3
  <2> QED BY <2>4, <2>5
<1> QED BY <1>1, SampledInvariant, RecordsInvariant, PTL

-----------------------------------------------------------------------------
(* Ranks in a finite set of numbers.                                        *)

Below(S, n) == {m \in S : m < n}

Rank(S, n) == Cardinality(Below(S, n))

\* A smaller member has a smaller rank, and every rank is less than the size of the set.
LEMMA RankGrows ==
    ASSUME NEW S, S \subseteq Nat, IsFiniteSet(S), NEW m \in S
    PROVE  /\ Rank(S, m) \in Nat /\ Rank(S, m) < Cardinality(S)
           /\ \A n \in S : m < n => Rank(S, m) < Rank(S, n)
<1>1. ASSUME NEW T, T \subseteq S, Below(S, m) \subseteq T, m \in T
      PROVE  Rank(S, m) \in Nat /\ Rank(S, m) < Cardinality(T)
  <2> DEFINE B == Below(S, m)
  <2>1. IsFiniteSet(T) /\ B \subseteq T /\ m \notin B
    <3>1. IsFiniteSet(T)
      BY <1>1, FS_Subset
    <3>2. ~(m < m)
      OBVIOUS
    <3>3. m \notin Below(S, m)
      BY <3>2, Zenon DEF Below
    <3> QED BY <1>1, <3>1, <3>3
  <2> HIDE DEF B
  <2>2. IsFiniteSet(B) /\ Cardinality(B) \in Nat
    BY <2>1, FS_Subset, FS_CardinalityType
  <2>3. Cardinality(B \cup {m}) = Cardinality(B) + 1 /\ B \cup {m} \subseteq T
    BY <1>1, <2>1, <2>2, FS_AddElement
  <2>4. Cardinality(B \cup {m}) <= Cardinality(T) /\ Cardinality(T) \in Nat
    BY <2>1, <2>3, FS_Subset, FS_CardinalityType
  <2> QED BY <2>2, <2>3, <2>4 DEF B, Rank
<1>2. Rank(S, m) \in Nat /\ Rank(S, m) < Cardinality(S)
  BY <1>1 DEF Below
<1>3. ASSUME NEW n \in S, m < n PROVE Rank(S, m) < Rank(S, n)
  <2>1. Below(S, n) \subseteq S /\ m \in Below(S, n) /\ Below(S, m) \subseteq Below(S, n)
    <3>1. \A k \in S : k < m => k < n
      BY <1>3
    <3> QED BY <1>3, <3>1, Zenon DEF Below
  <2> QED BY <1>1, <2>1 DEF Rank
<1> QED BY <1>2, <1>3

\* Every rank less than the size is that of one member.
LEMMA RankExists ==
    ASSUME NEW S, S \subseteq Nat, IsFiniteSet(S), NEW i \in Nat, i < Cardinality(S)
    PROVE  \E n \in S : Rank(S, n) = i
<1> DEFINE T == {j \in Nat : \E n \in S : Rank(S, n) = j}
           N == Cardinality(S) - 1
<1>1. Cardinality(S) \in Nat /\ N \in Nat
  BY FS_CardinalityType
<1>2. 0 \in T
  <2>1. S # {}
    BY <1>1, FS_EmptySet
  <2>2. PICK n \in S : \A m \in S : n <= m
    BY <2>1, LeastNatural
  <2>3. Below(S, n) = {}
    <3>1. \A m \in S : ~(m < n)
      BY <2>2
    <3> QED BY <3>1, Zenon DEF Below
  <2>4. Rank(S, n) = 0
    BY <2>3, FS_EmptySet DEF Rank
  <2> QED BY <2>4
<1>3. ASSUME NEW j \in 1 .. N, j - 1 \in T PROVE j \in T
  <2>1. PICK n \in S : Rank(S, n) = j - 1
    BY <1>3
  <2> DEFINE B == Below(S, n)
             U == {m \in S : n < m}
  <2>2. IsFiniteSet(B) /\ n \notin B /\ Cardinality(B) = j - 1
    BY <2>1, FS_Subset DEF Below, Rank
  <2>3. Cardinality(B \cup {n}) = j
    <3> HIDE DEF B, N
    <3>1. Cardinality(B \cup {n}) = Cardinality(B) + 1
      BY <2>2, FS_AddElement
    <3> QED BY <1>1, <2>2, <3>1
  <2>4. \A m \in S : m \in B \/ m = n \/ m \in U
    <3>1. \A m \in S : m < n \/ m = n \/ n < m
      OBVIOUS
    <3> QED BY <3>1, Zenon DEF Below
  <2>5. U # {}
    <3>1. B \subseteq S
      BY DEF Below
    <3>2. U = {} => S = B \cup {n}
      BY <2>4, <3>1
    <3> HIDE DEF B, U
    <3> QED BY <1>1, <2>3, <3>2
  <2>6. PICK k \in U : \A m \in U : k <= m
    <3>1. U \subseteq Nat
      OBVIOUS
    <3> QED BY <2>5, <3>1, LeastNatural
  <2>7. Below(S, k) = B \cup {n}
    <3>1. \A m \in S : m < k <=> (m < n \/ m = n)
      BY <2>6
    <3> QED BY <3>1, Zenon DEF Below
  <2> QED BY <1>1, <2>3, <2>6, <2>7 DEF Rank
<1> HIDE DEF T, N
<1>4. i \in T
  <2>1. i \in 0 .. N /\ \A j \in 1 .. N : j - 1 \in T => j \in T
    BY <1>1, <1>3 DEF N
  <2> QED BY <1>1, <1>2, <2>1, StepByStep
<1> QED BY <1>4 DEF T

\* Trials in number order (cmaes.rs:195-197).
LEMMA InOrderIs ==
    ASSUME NEW S, S \subseteq Nat, IsFiniteSet(S)
    PROVE  /\ InOrder(S) \in Seq(S) /\ Len(InOrder(S)) = Cardinality(S)
           /\ \A i \in 1 .. Cardinality(S) :
                 InOrder(S)[i] \in S /\ Rank(S, InOrder(S)[i]) = i - 1
<1>1. Cardinality(S) \in Nat
  BY FS_CardinalityType
<1>2. InOrder(S) = [i \in 1 .. Cardinality(S) |-> CHOOSE n \in S : Rank(S, n) = i - 1]
  BY DEF InOrder, Rank, Below
<1>3. ASSUME NEW i \in 1 .. Cardinality(S)
      PROVE  InOrder(S)[i] \in S /\ Rank(S, InOrder(S)[i]) = i - 1
  <2>1. i - 1 \in Nat /\ i - 1 < Cardinality(S)
    BY <1>1
  <2>2. \E n \in S : Rank(S, n) = i - 1
    BY <2>1, RankExists, Zenon
  <2> QED BY <1>2, <2>2
<1>4. InOrder(S) \in [1 .. Cardinality(S) -> S]
  BY <1>2, <1>3
<1>5. InOrder(S) \in Seq(S) /\ Len(InOrder(S)) = Cardinality(S)
  BY <1>1, <1>4
<1> QED BY <1>3, <1>5

-----------------------------------------------------------------------------
(* What the engine is told, and what it selects.                            *)

\* The completed trials among some of the study.
LEMMA CompletedAre ==
    ASSUME TrialsTyped, NEW S, S \subseteq DOMAIN trials
    PROVE  LET done == CompletedTrials(View(S))
           IN  /\ done \subseteq S /\ done \subseteq Nat /\ IsFiniteSet(done)
               /\ done = {n \in S : trials[n].state = "Complete" /\ trials[n].value # None}
               /\ \A n \in done : View(S)[n] = trials[n] /\ trials[n].value \in Int
<1> DEFINE done == CompletedTrials(View(S))
<1>1. /\ done = {n \in S : trials[n].state = "Complete" /\ trials[n].value # None}
      /\ \A n \in S : View(S)[n] = trials[n]
  BY DEF CompletedTrials, View
<1>2. done \subseteq S /\ DOMAIN trials \subseteq Nat /\ IsFiniteSet(DOMAIN trials)
  BY <1>1 DEF TrialsTyped
<1>3. \A n \in done : trials[n].value \in Int
  BY <1>1 DEF TrialsTyped, TrialTyped
<1> HIDE DEF done
<1>4. IsFiniteSet(done)
  <2>1. done \in SUBSET (DOMAIN trials)
    BY <1>2
  <2> QED BY <1>2, <2>1, FS_Subset
<1> QED BY <1>1, <1>2, <1>3, <1>4 DEF done

\* The completed trials that are points of the space.
PointTrials(h) ==
    {n \in CompletedTrials(h) :
        \A x \in DOMAIN SearchSpace(h) : Encodable(SearchSpace(h)[x], RecordOf(h[n], x).value)}

LEMMA SamplesAre ==
    ASSUME TrialsTyped, NEW S, S \subseteq DOMAIN trials
    PROVE  LET P == PointTrials(View(S))
           IN  /\ Samples(View(S)) = InOrder(P) /\ P \subseteq CompletedTrials(View(S))
               /\ P \subseteq Nat /\ IsFiniteSet(P)
               /\ Samples(View(S)) \in Seq(P) /\ Len(Samples(View(S))) = Cardinality(P)
<1> DEFINE P == PointTrials(View(S))
           done == CompletedTrials(View(S))
<1>1. P \subseteq done
  BY DEF PointTrials
<1>2. Samples(View(S)) = InOrder(P)
  BY DEF Samples, PointTrials
<1>3. done \subseteq Nat /\ IsFiniteSet(done)
  BY CompletedAre
<1> HIDE DEF done, P
<1>4. P \subseteq Nat /\ IsFiniteSet(P)
  <2>1. P \in SUBSET done
    BY <1>1
  <2> QED BY <1>3, <2>1, FS_Subset
<1>5. InOrder(P) \in Seq(P) /\ Len(InOrder(P)) = Cardinality(P)
  BY <1>4, InOrderIs
<1> QED BY <1>1, <1>2, <1>4, <1>5 DEF P, done

\* The population is never empty.
LEMMA PopsizeType ==
    ASSUME setup \in Setups, NEW n
    PROVE  Popsize(setup, n) \in Nat \ {0} /\ DefaultPopsize(n) \in Nat
<1>1. DefaultPopsize(n) \in Nat \ {0}
  <2> DEFINE K == {k \in 1 .. 10 :
                     <<2, 7, 20, 54, 148, 403, 1096, 2980, 8103, 22026>>[k] < n * n * n}
  <2>1. K \in SUBSET (1 .. 10) /\ DefaultPopsize(n) = 4 + Cardinality(K)
    BY DEF DefaultPopsize
  <2> HIDE DEF K
  <2>2. IsFiniteSet(1 .. 10)
    <3>1. 1 \in Int /\ 10 \in Int
      OBVIOUS
    <3> QED BY <3>1, FS_Interval, Zenon
  <2>3. Cardinality(K) \in Nat
    BY <2>1, <2>2, FS_Subset, FS_CardinalityType
  <2> QED BY <2>1, <2>3
<1>2. setup.popsize \in Nat \cup {None}
  BY SetupsAssumption
<1> DEFINE p == setup.popsize
<1>3. CASE p = None
  BY <1>1, <1>3 DEF Popsize
<1>4. CASE p # None
  <2>1. p \in Int /\ 2 \in Int
    BY <1>2, <1>4
  <2>2. Popsize(setup, n) = Max({p, 2})
    BY <1>4 DEF Popsize
  <2> HIDE DEF p
  <2>3. Max({p, 2}) \in {p, 2} /\ 2 <= Max({p, 2})
    BY <2>1, MaxOfTwo, Zenon
  <2>4. Max({p, 2}) \in Nat \ {0}
    BY <2>1, <2>3
  <2> QED BY <1>1, <2>2, <2>4
<1> QED BY <1>1, <1>3, <1>4

\* The generations of a list are the blocks of it.
Blocks(X, samples, size) ==
    /\ Len(samples) \div size \in Nat
    /\ DOMAIN Generations(samples, size) = 1 .. Len(samples) \div size
    /\ \A g \in 1 .. Len(samples) \div size :
          /\ Generations(samples, size)[g] \in Seq(X)
          /\ Len(Generations(samples, size)[g]) = size
          /\ \A i \in 1 .. size :
                /\ (g - 1) * size + i \in 1 .. Len(samples)
                /\ Generations(samples, size)[g][i] = samples[(g - 1) * size + i]

LEMMA GenerationIs ==
    ASSUME NEW X, NEW samples \in Seq(X), NEW size \in Nat \ {0}
    PROVE  Blocks(X, samples, size)
<1> DEFINE L == Len(samples)
           N == L \div size
<1>1. L \in Nat
  OBVIOUS
<1> HIDE DEF L
<1>2. N \in Nat /\ N * size <= L
  BY <1>1
<1> HIDE DEF N
<1>3. ASSUME NEW g \in 1 .. N
      PROVE  /\ (g - 1) * size \in Nat /\ g * size \in Nat /\ g * size = (g - 1) * size + size
             /\ g * size <= L
  <2>1. g - 1 \in Nat /\ g \in Nat /\ N - g \in Nat
    BY <1>2
  <2>2. (g - 1) * size \in Nat /\ g * size \in Nat /\ (N - g) * size \in Nat
    BY <2>1
  <2>3. g * size = (g - 1) * size + size /\ N * size = g * size + (N - g) * size
    BY <1>2, <2>1
  <2>4. N * size \in Nat
    BY <1>2
  <2> QED BY <1>1, <1>2, <2>2, <2>3, <2>4
<1>4. Generations(samples, size) =
         [g \in 1 .. N |-> SubSeq(samples, (g - 1) * size + 1, g * size)]
  BY DEF Generations, N, L
<1>5. ASSUME NEW g \in 1 .. N
      PROVE  LET gen == Generations(samples, size)[g]
             IN  /\ gen \in Seq(X) /\ Len(gen) = size
                 /\ \A i \in 1 .. size : /\ (g - 1) * size + i \in 1 .. L
                                         /\ gen[i] = samples[(g - 1) * size + i]
  <2> DEFINE a == (g - 1) * size
             b == g * size
  <2>1. a \in Nat /\ b \in Nat /\ b = a + size /\ b <= L
    BY <1>3
  <2>2. Generations(samples, size)[g] = SubSeq(samples, a + 1, b)
    BY <1>4
  <2> HIDE DEF a, b
  <2>3. \A i \in 1 .. size : a + i \in 1 .. L
    BY <1>1, <2>1
  <2>4. \A i \in a + 1 .. b : samples[i] \in X
    BY <1>1, <2>1 DEF L
  <2>5. /\ SubSeq(samples, a + 1, b) \in Seq(X)
        /\ Len(SubSeq(samples, a + 1, b)) = IF a + 1 <= b THEN b - (a + 1) + 1 ELSE 0
        /\ \A i \in 1 .. b - (a + 1) + 1 : SubSeq(samples, a + 1, b)[i] = samples[(a + 1) + i - 1]
    BY <2>1, <2>4, SubSeqProperties
  <2>6. \A i \in 1 .. size : SubSeq(samples, a + 1, b)[i] = samples[a + i]
    BY <2>1, <2>5
  <2> DEFINE gen == SubSeq(samples, a + 1, b)
  <2>7. gen \in Seq(X) /\ Len(gen) = size
        /\ \A i \in 1 .. size : a + i \in 1 .. L /\ gen[i] = samples[a + i]
    <3>1. Len(gen) = size
      BY <2>1, <2>5
    <3> QED BY <2>3, <2>5, <2>6, <3>1
  <2> HIDE DEF gen
  <2> QED BY <2>2, <2>7 DEF a, gen
<1> QED BY <1>2, <1>4, <1>5 DEF N, L, Blocks

\* What is selected of a generation is no worse than the rest of it (cmaes.rs:434-436).
LEMMA SelectionIsBest ==
    ASSUME NEW dir, NEW h, NEW X, NEW gen \in Seq(X), NEW n, DefaultPopsize(n) \in Nat,
           \A i \in DOMAIN gen : h[gen[i]].value \in Int,
           NEW s \in Selected(dir, h, gen, n), NEW r \in ToSet(gen) \ Selected(dir, h, gen, n)
    PROVE  ~IsBetter(dir, h[r].value, h[s].value)
<1> DEFINE loss(i)      == Loss(dir, h[gen[i]].value)
           before(i, j) == loss(i) < loss(j) \/ (loss(i) = loss(j) /\ i < j)
           Ahead(k)     == {j \in DOMAIN gen : before(j, k)}
           mu           == DefaultPopsize(n) \div 2
<1>1. Selected(dir, h, gen, n) = {gen[i] : i \in {k \in DOMAIN gen : Cardinality(Ahead(k)) < mu}}
  BY DEF Selected
<1>2. mu \in Nat /\ DOMAIN gen \subseteq Nat /\ IsFiniteSet(DOMAIN gen)
  <2>1. DOMAIN gen = 1 .. Len(gen) /\ Len(gen) \in Nat
    OBVIOUS
  <2>2. IsFiniteSet(1 .. Len(gen))
    <3>1. 1 \in Int /\ Len(gen) \in Int
      BY <2>1
    <3> QED BY <3>1, FS_Interval, Zenon
  <2>3. mu \in Nat
    OBVIOUS
  <2> QED BY <2>1, <2>2, <2>3
<1>3. \A i \in DOMAIN gen : loss(i) \in Int
  BY DEF Loss
<1> HIDE DEF mu
<1>4. PICK i \in DOMAIN gen : s = gen[i] /\ Cardinality(Ahead(i)) < mu
  BY <1>1
<1>5. PICK k \in DOMAIN gen : r = gen[k]
  BY DEF ToSet
<1>6. ~(Cardinality(Ahead(k)) < mu)
  BY <1>1, <1>5
<1> SUFFICES ASSUME IsBetter(dir, h[r].value, h[s].value) PROVE FALSE
  OBVIOUS
<1>7. loss(k) < loss(i)
  BY <1>4, <1>5 DEF IsBetter, Loss
<1>8. Ahead(k) \subseteq Ahead(i)
  <2> HIDE DEF loss
  <2> QED BY <1>2, <1>3, <1>7
<1> DEFINE A == Ahead(k)
           B == Ahead(i)
<1>9. A \subseteq B /\ B \subseteq DOMAIN gen
  BY <1>8
<1> HIDE DEF A, B
<1>10. /\ Cardinality(A) <= Cardinality(B) /\ Cardinality(A) \in Nat /\ Cardinality(B) \in Nat
  BY <1>2, <1>9, FS_Subset, FS_CardinalityType
<1> QED BY <1>2, <1>4, <1>6, <1>10 DEF A, B

\* Whatever the engine recombines is as good as what it drops of the same generation
\* (cmaes.rs:200-203, 434-436): in every vector's engine, however the trials completed.
THEOREM SelectionIsBetter == Spec => []SelectedAreBetter
<1>1. ASSUME Inv PROVE SelectedAreBetter
  <2> SUFFICES ASSUME NEW m \in DOMAIN cache, NEW g \in ToSet(cache[m].engine),
                      NEW s \in g.selected, NEW r \in ToSet(g.told) \ g.selected
               PROVE  ~IsBetter(setup.dir, trials[r].value, trials[s].value)
    BY DEF SelectedAreBetter
  <2>1. PICK S \in SUBSET Ended : cache[m].engine = Engine(S)
    BY <1>1 DEF Inv, CacheSound
  <2> DEFINE h == View(S)
             n == Cardinality(DOMAIN SearchSpace(h))
             told == Told(setup, h)
  <2>2. Engine(S) = [j \in DOMAIN told |->
                       [told |-> told[j], selected |-> Selected(setup.dir, h, told[j], n)]]
    BY DEF Engine, Replayed
  <2>3. PICK j \in DOMAIN told : g.told = told[j]
                                 /\ g.selected = Selected(setup.dir, h, told[j], n)
    BY <2>1, <2>2 DEF ToSet
  <2>4. S \subseteq DOMAIN trials /\ TrialsTyped /\ setup \in Setups
    BY <1>1 DEF Inv, TrialsTyped, Ended
  <2>5. told[j] \in Seq(PointTrials(h))
    <3>1. told = Generations(Samples(h), Popsize(setup, n))
      BY <2>3 DEF Told
    <3>2. Samples(h) \in Seq(PointTrials(h))
      BY <2>4, SamplesAre
    <3>3. Popsize(setup, n) \in Nat \ {0}
      BY <2>4, PopsizeType
    <3> HIDE DEF n, h
    <3> QED BY <2>3, <3>1, <3>2, <3>3, GenerationIs DEF Blocks
  <2>6. \A i \in PointTrials(h) : h[i] = trials[i] /\ h[i].value \in Int
    <3>1. PointTrials(h) \subseteq CompletedTrials(h)
      BY DEF PointTrials
    <3>2. \A i \in CompletedTrials(h) : h[i] = trials[i] /\ trials[i].value \in Int
      BY <2>4, CompletedAre
    <3> QED BY <3>1, <3>2
  <2>7. DefaultPopsize(n) \in Nat
    BY <2>4, PopsizeType
  <2> DEFINE gen == told[j]
             P == PointTrials(h)
  <2>8. gen \in Seq(P) /\ s \in Selected(setup.dir, h, gen, n)
        /\ r \in ToSet(gen) \ Selected(setup.dir, h, gen, n)
    BY <2>3, <2>5
  <2>9. s \in P /\ r \in P
    <3> HIDE DEF gen, P, h, n
    <3>1. s \in ToSet(gen)
      BY <2>8 DEF Selected, ToSet
    <3> QED BY <2>8, <3>1 DEF ToSet
  <2> HIDE DEF gen, P, h, n, told
  <2>10. \A i \in DOMAIN gen : h[gen[i]].value \in Int
    BY <2>6, <2>8 DEF P
  <2>11. ~IsBetter(setup.dir, h[r].value, h[s].value)
    BY <2>7, <2>8, <2>10, SelectionIsBest
  <2> QED BY <2>6, <2>9, <2>11 DEF P
<1> QED BY <1>1, SampledInvariant, PTL

-----------------------------------------------------------------------------
(* What is told again.                                                      *)

LEMMA SeqWidens ==
    ASSUME NEW X, NEW Y, X \subseteq Y, NEW s \in Seq(X)
    PROVE  s \in Seq(Y)
<1>1. DOMAIN s = 1 .. Len(s) /\ Len(s) \in Nat /\ \A i \in 1 .. Len(s) : s[i] \in Y
  OBVIOUS
<1>2. s = [i \in 1 .. Len(s) |-> s[i]]
  OBVIOUS
<1>3. s \in [1 .. Len(s) -> Y]
  BY <1>1, <1>2
<1> QED BY <1>1, <1>3

\* A number added behind some members leaves their places as they are.
LEMMA InOrderGrows ==
    ASSUME NEW S, S \subseteq Nat, IsFiniteSet(S), NEW n \in Nat, n \notin S,
           NEW i \in 1 .. Cardinality(S), InOrder(S)[i] < n
    PROVE  i \in 1 .. Cardinality(S \cup {n}) /\ InOrder(S \cup {n})[i] = InOrder(S)[i]
<1> DEFINE T == S \cup {n}
           m == InOrder(S)[i]
           k == InOrder(T)[i]
<1>1. /\ T \subseteq Nat /\ IsFiniteSet(T) /\ Cardinality(S) \in Nat
      /\ Cardinality(T) = Cardinality(S) + 1
  BY FS_AddElement, FS_CardinalityType
<1>2. i \in 1 .. Cardinality(T)
  <2> HIDE DEF T
  <2> QED BY <1>1
<1>3. m \in S /\ Rank(S, m) = i - 1
  BY InOrderIs
<1> HIDE DEF T, m
<1>4. k \in T /\ Rank(T, k) = i - 1
  BY <1>1, <1>2, InOrderIs
<1> HIDE DEF k
<1>5. m \in Nat /\ k \in Nat /\ m \in T /\ m < n
  BY <1>1, <1>3, <1>4 DEF T, m
<1>6. Rank(T, m) = Rank(S, m)
  <2>1. ~(n < m)
    BY <1>5
  <2>2. Below(T, m) = Below(S, m)
    BY <2>1, Zenon DEF Below, T
  <2> QED BY <2>2 DEF Rank
<1>7. k = m
  <2>1. Rank(T, m) \in Nat /\ Rank(T, k) \in Nat /\ Rank(T, m) = Rank(T, k)
    BY <1>1, <1>3, <1>4, <1>5, <1>6, RankGrows
  <2>2. (m < k => Rank(T, m) < Rank(T, k)) /\ (k < m => Rank(T, k) < Rank(T, m))
    BY <1>1, <1>4, <1>5, RankGrows
  <2> QED BY <1>5, <2>1, <2>2
<1> QED BY <1>2, <1>7 DEF T, m, k

\* A generation whose block is the same in a longer list is a generation of it.
LEMMA GenerationsGrow ==
    ASSUME NEW X, NEW s \in Seq(X), NEW t \in Seq(X), NEW size \in Nat \ {0}, Len(s) <= Len(t),
           NEW g \in DOMAIN Generations(s, size),
           \A i \in 1 .. size :
              (g - 1) * size + i \in 1 .. Len(s) =>
                 t[(g - 1) * size + i] = s[(g - 1) * size + i]
    PROVE  g \in DOMAIN Generations(t, size) /\ Generations(t, size)[g] = Generations(s, size)[g]
<1> DEFINE L == Len(s)
           M == Len(t)
<1>1. L \in Nat /\ M \in Nat /\ L <= M
  OBVIOUS
<1>2. Blocks(X, s, size) /\ Blocks(X, t, size)
  BY GenerationIs
<1> DEFINE a == Generations(s, size)[g]
           b == Generations(t, size)[g]
           at(i) == (g - 1) * size + i
<1>3. \A i \in 1 .. size : at(i) \in 1 .. L => t[at(i)] = s[at(i)]
  OBVIOUS
<1> HIDE DEF L, M
<1>4. g \in 1 .. M \div size
  <2>1. L \div size <= M \div size
    <3> DEFINE p == L \div size
               q == M \div size
    <3>1. p \in Nat /\ q \in Nat /\ p * size <= L /\ M < q * size + size
      BY <1>1
    <3> HIDE DEF p, q
    <3>2. ASSUME q < p PROVE FALSE
      <4>1. p - (q + 1) \in Nat
        BY <3>1, <3>2
      <4>2. (p - (q + 1)) * size \in Nat
        BY <4>1
      <4>3. p * size = (p - (q + 1)) * size + (q * size + size)
        BY <3>1
      <4>4. p * size \in Nat /\ q * size \in Nat
        BY <3>1
      <4> QED BY <1>1, <3>1, <4>2, <4>3, <4>4
    <3>3. p <= q
      BY <3>1, <3>2
    <3> QED BY <3>3 DEF p, q
  <2>2. L \div size \in Nat /\ M \div size \in Nat
    BY <1>1
  <2> QED BY <1>2, <2>1, <2>2 DEF L, Blocks
<1>5. a \in Seq(X) /\ Len(a) = size /\ \A i \in 1 .. size : at(i) \in 1 .. L /\ a[i] = s[at(i)]
  BY <1>2 DEF L, Blocks
<1>6. b \in Seq(X) /\ Len(b) = size /\ \A i \in 1 .. size : b[i] = t[at(i)]
  BY <1>2, <1>4 DEF M, Blocks
<1> HIDE DEF a, b, at
<1>7. \A i \in 1 .. size : a[i] = b[i]
  BY <1>3, <1>5, <1>6
<1>8. a = b
  <2>1. /\ DOMAIN a = 1 .. size /\ DOMAIN b = 1 .. size
        /\ a = [i \in DOMAIN a |-> a[i]] /\ b = [i \in DOMAIN b |-> b[i]]
    BY <1>5, <1>6
  <2> QED BY <1>7, <2>1
<1> QED BY <1>2, <1>4, <1>8 DEF a, b, M, Blocks

\* While the late trial n leaves the space alone, the generations wholly below its number
\* are replayed as before (cmaes.rs:23-25, 36-38).
THEOREM ReplayOnlyGrows == Spec => []ReplayGrows
<1>1. ASSUME Inv PROVE ReplayGrows
  <2> SUFFICES ASSUME NEW n \in CompletedTrials(History),
                      SearchSpace(View(Ended \ {n})) = SearchSpace(History),
                      NEW g \in DOMAIN Told(setup, View(Ended \ {n})),
                      \A m \in ToSet(Told(setup, View(Ended \ {n}))[g]) : m < n
               PROVE  /\ g \in DOMAIN Told(setup, History)
                      /\ Told(setup, History)[g] = Told(setup, View(Ended \ {n}))[g]
    BY DEF ReplayGrows
  <2> DEFINE E == Ended
             R == Ended \ {n}
             space == SearchSpace(History)
             P == PointTrials(View(E))
             Q == PointTrials(View(R))
             N == Cardinality(DOMAIN space)
             size == Popsize(setup, N)
             old == Samples(View(R))
             new == Samples(View(E))
  <2>1. /\ E \subseteq DOMAIN trials /\ R \subseteq DOMAIN trials
        /\ TrialsTyped /\ setup \in Setups /\ n \in E
    BY <1>1 DEF Inv, TrialsTyped, Ended, History, View, CompletedTrials
  <2>2. /\ N # 0
        /\ Told(setup, View(R)) = Generations(old, size)
        /\ Told(setup, History) = Generations(new, size)
    BY DEF Told, History
  <2>3. size \in Nat \ {0}
    BY <2>1, PopsizeType
  <2>4. Q = P \ {n}
    <3>1. /\ CompletedTrials(View(R)) =
                {m \in R : trials[m].state = "Complete" /\ trials[m].value # None}
          /\ CompletedTrials(View(E)) =
                {m \in E : trials[m].state = "Complete" /\ trials[m].value # None}
      BY <2>1, CompletedAre
    <3>2. CompletedTrials(View(R)) = CompletedTrials(View(E)) \ {n}
      BY <3>1
    <3>3. \A m \in R : View(R)[m] = trials[m] /\ View(E)[m] = trials[m]
      BY DEF View
    <3>4. SearchSpace(View(R)) = space /\ SearchSpace(View(E)) = space
      BY DEF History
    <3>5. Q = {m \in CompletedTrials(View(R)) :
                 \A x \in DOMAIN space : Encodable(space[x], RecordOf(trials[m], x).value)}
      <4>1. \A m \in CompletedTrials(View(R)) : View(R)[m] = trials[m]
        BY <3>1, <3>3
      <4> QED BY <3>4, <4>1 DEF PointTrials
    <3>6. P = {m \in CompletedTrials(View(E)) :
                 \A x \in DOMAIN space : Encodable(space[x], RecordOf(trials[m], x).value)}
      <4>1. \A m \in E : View(E)[m] = trials[m]
        BY DEF View
      <4>2. \A m \in CompletedTrials(View(E)) : View(E)[m] = trials[m]
        BY <3>1, <4>1
      <4> QED BY <3>4, <4>2 DEF PointTrials
    <3> HIDE DEF P, Q, space
    <3> QED BY <3>2, <3>5, <3>6
  <2>5. /\ Q \subseteq Nat /\ IsFiniteSet(Q) /\ old = InOrder(Q)
        /\ old \in Seq(Q) /\ Len(old) = Cardinality(Q)
    BY <2>1, SamplesAre
  <2>6. /\ P \subseteq Nat /\ IsFiniteSet(P) /\ new = InOrder(P)
        /\ new \in Seq(P) /\ Len(new) = Cardinality(P)
    BY <2>1, SamplesAre
  <2> DEFINE gen == Generations(old, size)[g]
  <2>7. g \in DOMAIN Generations(old, size) /\ \A m \in ToSet(gen) : m < n
    BY <2>2
  <2> HIDE DEF gen, P, Q, space, size, old, new, N, E, R
  <2>8. CASE n \notin P
    <3>1. P = Q
      BY <2>4, <2>8
    <3> QED BY <2>2, <2>5, <2>6, <2>7, <3>1 DEF R, E
  <2>9. CASE n \in P
    <3>1. P = Q \cup {n} /\ n \notin Q /\ n \in Nat
      BY <2>4, <2>6, <2>9
    <3>2. old \in Seq(Nat) /\ new \in Seq(Nat)
      BY <2>5, <2>6, SeqWidens
    <3>3. Len(old) <= Len(new)
      BY <2>5, <2>6, <3>1, FS_Subset
    <3>4. ASSUME NEW i \in 1 .. size, (g - 1) * size + i \in 1 .. Len(old)
          PROVE  new[(g - 1) * size + i] = old[(g - 1) * size + i]
      <4> DEFINE j == (g - 1) * size + i
      <4>1. old[j] \in ToSet(gen)
        <5>1. Blocks(Nat, old, size)
          BY <2>3, <3>2, GenerationIs
        <5>2. gen \in Seq(Nat) /\ Len(gen) = size /\ gen[i] = old[j]
          BY <2>7, <5>1 DEF gen, Blocks
        <5>3. i \in DOMAIN gen
          BY <5>2
        <5> QED BY <5>2, <5>3 DEF ToSet
      <4> HIDE DEF j
      <4>2. j \in 1 .. Cardinality(Q) /\ InOrder(Q)[j] < n
        BY <2>5, <2>7, <3>4, <4>1 DEF j
      <4>3. InOrder(Q \cup {n})[j] = InOrder(Q)[j]
        BY <2>5, <3>1, <4>2, InOrderGrows
      <4> QED BY <2>5, <2>6, <3>1, <4>3 DEF j
    <3>5. /\ g \in DOMAIN Generations(new, size)
          /\ Generations(new, size)[g] = Generations(old, size)[g]
      BY <2>3, <2>7, <3>2, <3>3, <3>4, GenerationsGrow
    <3> QED BY <2>2, <3>5 DEF R, E
  <2> QED BY <2>8, <2>9
<1> QED BY <1>1, SampledInvariant, PTL

-----------------------------------------------------------------------------
(* An odometer: numbers and their digits in a mixed radix.                  *)

LEMMA DivisionIs ==
    ASSUME NEW a \in Nat, NEW b \in Nat \ {0}, NEW q \in Nat, NEW r \in Nat, r < b, a = q * b + r
    PROVE  a \div b = q /\ a % b = r
<1> DEFINE d == a \div b
           m == a % b
<1>1. d \in Nat /\ m \in Nat /\ m < b /\ a = b * d + m
  OBVIOUS
<1> HIDE DEF d, m
<1>2. ASSUME NEW x \in Nat, NEW y \in Nat, x < y PROVE x * b + b <= y * b
  <2>1. y - x - 1 \in Nat
    BY <1>2
  <2>2. (y - x - 1) * b \in Nat
    BY <2>1
  <2>3. y * b = (y - x - 1) * b + (x * b + b)
    OBVIOUS
  <2>4. x * b \in Nat /\ y * b \in Nat
    OBVIOUS
  <2> QED BY <2>2, <2>3, <2>4
<1>3. q * b \in Nat /\ d * b \in Nat /\ d * b = b * d
  BY <1>1
<1>4. ~(q < d)
  <2>1. q < d => q * b + b <= d * b
    BY <1>1, <1>2
  <2> QED BY <1>1, <1>3, <2>1
<1>5. ~(d < q)
  <2>1. d < q => d * b + b <= q * b
    BY <1>1, <1>2
  <2> QED BY <1>1, <1>3, <2>1
<1>6. d = q
  BY <1>1, <1>4, <1>5
<1>7. m = r
  BY <1>1, <1>3, <1>6
<1> QED BY <1>6, <1>7 DEF d, m

\* The digit of weight w, in the radix r.
DigitOf(k, w, r) == (k \div w) % r

Above(k, a, w) == \E c \in Nat : k = a + c * w

\* Digits below are blind to multiples of a higher weight.
LEMMA DigitsBelow ==
    ASSUME NEW a \in Nat, NEW b \in Nat \ {0}, NEW r \in Nat \ {0},
           NEW k, Above(k, a, r * b)
    PROVE  DigitOf(k, b, r) = DigitOf(a, b, r)
<1>1. PICK c \in Nat : k = a + c * (r * b)
  BY DEF Above
<1> DEFINE d == a \div b
           m == a % b
           x == c * r
           e == d \div r
           f == d % r
<1>2. d \in Nat /\ m \in Nat /\ m < b /\ a = d * b + m
  OBVIOUS
<1>3. x \in Nat /\ c * (r * b) = x * b
  OBVIOUS
<1> HIDE DEF d, m
<1>4. e \in Nat /\ f \in Nat /\ f < r /\ d = e * r + f
  BY <1>2
<1> HIDE DEF x
<1>5. /\ d + x \in Nat /\ a + x * b \in Nat /\ a + x * b = (d + x) * b + m
  BY <1>2, <1>3
<1>6. (a + x * b) \div b = d + x
  BY <1>2, <1>5, DivisionIs
<1> HIDE DEF e, f
<1>7. e + c \in Nat /\ d + x = (e + c) * r + f
  BY <1>4 DEF x
<1>8. (d + x) % r = f
  BY <1>4, <1>5, <1>7, DivisionIs
<1> QED BY <1>1, <1>3, <1>6, <1>8 DEF d, f, DigitOf

\* t[j] is the product of the first j radices.
Weights(N, r, t) ==
    /\ r \in [1 .. N -> Nat \ {0}] /\ t \in [0 .. N -> Nat \ {0}] /\ t[0] = 1
    /\ \A j \in 1 .. N : t[j] = t[j - 1] * r[j]

Digit(r, t, k, j) == DigitOf(k, t[j - 1], r[j])

\* The first j digits of k are those of e.
Shows(r, t, k, j, e) == \A i \in 1 .. j : Digit(r, t, k, i) = e[i]

\* A weight divides the higher ones.
LEMMA WeightsDivide ==
    ASSUME NEW N \in Nat, NEW r, NEW t, Weights(N, r, t), NEW i \in 1 .. N
    PROVE  \A j \in i .. N : \E c \in Nat : t[j] = c * (r[i] * t[i - 1])
<1> DEFINE S == {j \in Nat : j < i \/ \E c \in Nat : t[j] = c * (r[i] * t[i - 1])}
<1>1. r[i] \in Nat \ {0} /\ t[i - 1] \in Nat \ {0} /\ t[i] = t[i - 1] * r[i]
  BY DEF Weights
<1>2. i \in S
  <2>1. t[i] = 1 * (r[i] * t[i - 1])
    BY <1>1
  <2> QED BY <2>1
<1>3. ASSUME NEW j \in 1 .. N, j - 1 \in S PROVE j \in S
  <2>1. CASE j <= i
    BY <1>2, <2>1
  <2>2. CASE i < j
    <3>1. PICK c \in Nat : t[j - 1] = c * (r[i] * t[i - 1])
      BY <1>3, <2>2
    <3>2. t[j] = t[j - 1] * r[j] /\ r[j] \in Nat
      BY DEF Weights
    <3>3. c * r[j] \in Nat /\ t[j] = (c * r[j]) * (r[i] * t[i - 1])
      BY <1>1, <3>1, <3>2
    <3> QED BY <3>3
  <2> QED BY <2>1, <2>2
<1>4. 0 \in S
  OBVIOUS
<1> HIDE DEF S
<1>5. \A j \in 0 .. N : j \in S
  BY <1>3, <1>4, StepByStep
<1> QED BY <1>5 DEF S

\* A number put together from a lower part and a digit: its digits are those of both.
LEMMA OdometerSplit ==
    ASSUME NEW N \in Nat, NEW r, NEW t, Weights(N, r, t), NEW j \in 1 .. N,
           NEW a \in Nat, a < t[j - 1], NEW q \in Nat, q < r[j]
    PROVE  /\ q * t[j - 1] + a \in Nat /\ q * t[j - 1] + a < t[j]
           /\ Digit(r, t, q * t[j - 1] + a, j) = q
           /\ \A i \in 1 .. j - 1 : Digit(r, t, q * t[j - 1] + a, i) = Digit(r, t, a, i)
<1> DEFINE b == t[j - 1]
           k == q * b + a
<1>1. b \in Nat \ {0} /\ r[j] \in Nat \ {0} /\ t[j] = b * r[j]
  BY DEF Weights
<1> HIDE DEF b
<1>2. k \in Nat /\ k < t[j]
  <2>1. r[j] - q - 1 \in Nat
    BY <1>1
  <2>2. (r[j] - q - 1) * b \in Nat /\ q * b \in Nat
    BY <1>1, <2>1
  <2>3. t[j] = (r[j] - q - 1) * b + (q * b + b)
    BY <1>1
  <2> QED BY <1>1, <2>2, <2>3 DEF b
<1>3. Digit(r, t, k, j) = q
  <2>1. k \div b = q
    BY <1>1, <1>2, DivisionIs DEF b
  <2>2. q = 0 * r[j] + q /\ 0 \in Nat
    BY <1>1
  <2>3. q % r[j] = q
    BY <1>1, <2>2, DivisionIs
  <2> QED BY <2>1, <2>3 DEF Digit, DigitOf, b
<1>4. ASSUME NEW i \in 1 .. j - 1 PROVE Digit(r, t, k, i) = Digit(r, t, a, i)
  <2>1. i \in 1 .. N /\ j - 1 \in i .. N
    OBVIOUS
  <2>2. PICK c \in Nat : b = c * (r[i] * t[i - 1])
    BY <2>1, WeightsDivide DEF b
  <2>3. r[i] \in Nat \ {0} /\ t[i - 1] \in Nat \ {0}
    <3>1. i \in 1 .. N /\ i - 1 \in 0 .. N
      BY <2>1
    <3>2. r \in [1 .. N -> Nat \ {0}] /\ t \in [0 .. N -> Nat \ {0}]
      BY DEF Weights
    <3> QED BY <3>1, <3>2
  <2> DEFINE x == r[i]
             y == t[i - 1]
             p == q * c
  <2>4. x \in Nat \ {0} /\ y \in Nat \ {0} /\ b = c * (x * y)
    BY <2>2, <2>3
  <2> HIDE DEF x, y
  <2>5. p \in Nat /\ k = a + p * (x * y)
    BY <2>4
  <2> HIDE DEF p, k
  <2>6. Above(k, a, x * y)
    BY <2>5 DEF Above
  <2>7. DigitOf(k, y, x) = DigitOf(a, y, x)
    BY <2>4, <2>6, DigitsBelow
  <2> QED BY <2>7 DEF Digit, x, y, k
<1> QED BY <1>2, <1>3, <1>4 DEF b

\* Any digits are those of one number, and of no other.
LEMMA OdometerShows ==
    ASSUME NEW N \in Nat, NEW r, NEW t, Weights(N, r, t), NEW e, \A j \in 1 .. N : e[j] \in 0 .. r[j] - 1
    PROVE  \E k \in 0 .. t[N] - 1 :
              /\ Shows(r, t, k, N, e)
              /\ \A l \in 0 .. t[N] - 1 : Shows(r, t, l, N, e) => l = k
<1> DEFINE S == {j \in 0 .. N :
                   \E k \in Nat :
                      /\ k < t[j] /\ Shows(r, t, k, j, e)
                      /\ \A l \in Nat : l < t[j] /\ Shows(r, t, l, j, e) => l = k}
<1>1. t \in [0 .. N -> Nat \ {0}] /\ t[0] = 1
  BY DEF Weights
<1>2. 0 \in S
  <2>1. 0 < t[0] /\ Shows(r, t, 0, 0, e) /\ \A l \in Nat : l < t[0] => l = 0
    BY <1>1 DEF Shows
  <2> QED BY <2>1
<1>3. ASSUME NEW j \in 1 .. N, j - 1 \in S PROVE j \in S
  <2> DEFINE b == t[j - 1]
  <2>1. j - 1 \in 0 .. N /\ j \in 0 .. N
    OBVIOUS
  <2>2. b \in Nat \ {0} /\ r[j] \in Nat \ {0} /\ t[j] = b * r[j]
    BY <2>1 DEF Weights
  <2>3. PICK a \in Nat :
          /\ a < b /\ Shows(r, t, a, j - 1, e)
          /\ \A l \in Nat : l < b /\ Shows(r, t, l, j - 1, e) => l = a
    BY <1>3
  <2>4. e[j] \in Nat /\ e[j] < r[j]
    BY <2>2
  <2> DEFINE k == e[j] * b + a
  <2>5. /\ k \in Nat /\ k < t[j] /\ Digit(r, t, k, j) = e[j]
        /\ \A i \in 1 .. j - 1 : Digit(r, t, k, i) = Digit(r, t, a, i)
    BY <2>3, <2>4, OdometerSplit
  <2> HIDE DEF k
  <2>6. Shows(r, t, k, j, e)
    <3>1. \A i \in 1 .. j : i = j \/ i \in 1 .. j - 1
      OBVIOUS
    <3> QED BY <2>3, <2>5, <3>1 DEF Shows
  <2>7. ASSUME NEW l \in Nat, l < t[j], Shows(r, t, l, j, e) PROVE l = k
    <3> DEFINE q == l \div b
               m == l % b
    <3> HIDE DEF b
    <3>1. q \in Nat /\ m \in Nat /\ m < b /\ l = q * b + m
      BY <2>2
    <3> HIDE DEF q, m
    <3>2. q < r[j]
      <4>1. ASSUME ~(q < r[j]) PROVE FALSE
        <5>1. q - r[j] \in Nat
          BY <2>2, <3>1, <4>1
        <5>2. (q - r[j]) * b \in Nat /\ q * b = (q - r[j]) * b + b * r[j]
          BY <2>2, <3>1, <5>1
        <5>3. b * r[j] \in Nat
          BY <2>2
        <5> QED BY <2>2, <2>7, <3>1, <5>2, <5>3
      <4> QED BY <4>1
    <3>3. /\ Digit(r, t, l, j) = q
          /\ \A i \in 1 .. j - 1 : Digit(r, t, l, i) = Digit(r, t, m, i)
      BY <3>1, <3>2, OdometerSplit DEF b
    <3>4. q = e[j] /\ Shows(r, t, m, j - 1, e)
      <4>1. j \in 1 .. j /\ \A i \in 1 .. j - 1 : i \in 1 .. j
        OBVIOUS
      <4> QED BY <2>7, <3>3, <4>1 DEF Shows
    <3>5. m = a
      BY <2>3, <3>1, <3>4
    <3> QED BY <3>1, <3>4, <3>5 DEF k
  <2> QED BY <2>1, <2>5, <2>6, <2>7
<1> HIDE DEF S
<1>4. N \in S
  <2>1. N \in 0 .. N /\ \A j \in 1 .. N : j - 1 \in S => j \in S
    BY <1>3
  <2> QED BY <1>2, <2>1, StepByStep
<1>5. PICK k \in Nat :
        /\ k < t[N] /\ Shows(r, t, k, N, e)
        /\ \A l \in Nat : l < t[N] /\ Shows(r, t, l, N, e) => l = k
  BY <1>4 DEF S
<1>6. N \in 0 .. N /\ t[N] \in Nat
  BY <1>1
<1>7. k \in 0 .. t[N] - 1 /\ \A l \in 0 .. t[N] - 1 : l \in Nat /\ l < t[N]
  BY <1>5, <1>6
<1> QED BY <1>5, <1>7

\* G numbers in a row leave every remainder once.
LEMMA LapOnce ==
    ASSUME NEW f \in Nat, NEW G \in Nat \ {0}, NEW k \in 0 .. G - 1
    PROVE  \E n \in f .. f + G - 1 :
              n % G = k /\ \A m \in f .. f + G - 1 : m % G = k => m = n
<1> DEFINE q == f \div G
           a == f % G
           n == IF a <= k THEN q * G + k ELSE (q + 1) * G + k
<1>1. q \in Nat /\ a \in Nat /\ a < G /\ f = q * G + a
  OBVIOUS
<1> HIDE DEF q, a
<1>2. (q + 1) * G = q * G + G /\ q * G \in Nat
  BY <1>1
<1>3. n \in f .. f + G - 1
  BY <1>1, <1>2
<1>4. n % G = k
  <2>1. q \in Nat /\ q + 1 \in Nat /\ k \in Nat /\ k < G /\ n \in Nat
    BY <1>1, <1>3
  <2>2. n = q * G + k \/ n = (q + 1) * G + k
    OBVIOUS
  <2> HIDE DEF n
  <2>3. CASE n = q * G + k
    BY <2>1, <2>3, DivisionIs
  <2>4. CASE n = (q + 1) * G + k
    <3> DEFINE p == q + 1
    <3>1. p \in Nat /\ n = p * G + k
      BY <2>1, <2>4
    <3> HIDE DEF p
    <3> QED BY <2>1, <3>1, DivisionIs
  <2> QED BY <2>2, <2>3, <2>4
<1> HIDE DEF n
<1>5. ASSUME NEW m \in f .. f + G - 1, m % G = k PROVE m = n
  <2> DEFINE c == m \div G
             d == n \div G
  <2>1. m \in Nat /\ n \in Nat
    BY <1>3
  <2>2. c \in Nat /\ d \in Nat /\ m = c * G + k /\ n = d * G + k
    BY <1>4, <1>5, <2>1
  <2> HIDE DEF c, d
  <2>3. m < n + G /\ n < m + G
    BY <1>3
  <2>4. ASSUME NEW x \in Nat, NEW y \in Nat, x < y, y * G + k < x * G + k + G PROVE FALSE
    <3>1. y - x - 1 \in Nat
      BY <2>4
    <3>2. (y - x - 1) * G \in Nat /\ y * G = (y - x - 1) * G + (x * G + G)
      BY <3>1
    <3>3. x * G \in Nat /\ y * G \in Nat
      OBVIOUS
    <3> QED BY <2>4, <3>2, <3>3
  <2>5. ~(c < d) /\ ~(d < c)
    <3>1. d * G + k < c * G + k + G /\ c * G + k < d * G + k + G
      BY <2>2, <2>3
    <3> QED BY <2>2, <2>4, <3>1
  <2> QED BY <2>2, <2>5
<1> QED BY <1>3, <1>4, <1>5

\* A grid whose size no usize overflows: its weights are the products of the radices of its
\* last axes, and its size is the last of them.
LEMMA GridWeights ==
    ASSUME NEW axes \in Seq(AxisType), TailProduct(axes, Len(axes)) < USize - 1
    PROVE  LET N == Len(axes)
           IN  \E r, t : /\ Weights(N, r, t)
                         /\ \A j \in 1 .. N : r[j] = Radix(axes[N + 1 - j])
                         /\ \A j \in 0 .. N : TailProduct(axes, j) = t[j]
                         /\ GridSize(axes) = t[N]
<1> DEFINE N == Len(axes)
           r == [j \in 1 .. N |-> Radix(axes[N + 1 - j])]
<1>1. N \in Nat /\ DOMAIN axes = 1 .. N
  OBVIOUS
<1>2. PICK t : /\ TailProducts(axes, t) /\ t \in [0 .. Len(axes) -> Nat \ {0}]
               /\ \A k \in 0 .. Len(axes) : TailProduct(axes, k) = t[k]
  BY TailProductIs
<1> HIDE DEF N
<1>3. /\ t \in [0 .. N -> Nat \ {0}] /\ \A k \in 0 .. N : TailProduct(axes, k) = t[k]
      /\ t[N] < USize - 1
  BY <1>1, <1>2 DEF N
<1>4. r \in [1 .. N -> Nat \ {0}] /\ \A j \in 1 .. N : r[j] = Radix(axes[N + 1 - j])
  <2>1. ASSUME NEW j \in 1 .. N PROVE Radix(axes[N + 1 - j]) \in Nat \ {0}
    <3>1. N + 1 - j \in DOMAIN axes
      BY <1>1
    <3> QED BY <3>1, RadixType
  <2> QED BY <2>1
<1> HIDE DEF r
<1>5. t[0] = 1 /\ \A j \in 1 .. N : t[j] = Min({t[j - 1] * r[j], USize - 1})
  <2>1. /\ t[0] = 1
        /\ \A j \in 1 .. N : t[j] = Min({t[j - 1] * Radix(axes[N + 1 - j]), USize - 1})
    <3>1. t = [k \in 0 .. N |-> IF k = 0 THEN 1
                               ELSE Min({t[k - 1] * Radix(axes[N + 1 - k]), USize - 1})]
      BY <1>2 DEF TailProducts, N
    <3>2. 0 \in 0 .. N /\ \A j \in 1 .. N : j \in 0 .. N /\ j # 0
      BY <1>1
    <3> HIDE DEF N
    <3>3. t[0] = 1
      BY <3>1, <3>2
    <3>4. ASSUME NEW j \in 1 .. N
          PROVE  t[j] = Min({t[j - 1] * Radix(axes[N + 1 - j]), USize - 1})
      BY <3>1, <3>2
    <3> QED BY <3>3, <3>4
  <2> QED BY <1>4, <2>1
<1>6. ASSUME NEW j \in 1 .. N
      PROVE  /\ t[j - 1] \in Nat \ {0} /\ t[j] \in Nat \ {0} /\ r[j] \in Nat \ {0}
             /\ t[j - 1] * r[j] \in Nat
  <2>1. j - 1 \in 0 .. N /\ j \in 0 .. N
    BY <1>1
  <2> QED BY <1>3, <1>4, <2>1
<1>7. ASSUME NEW j \in 1 .. N
      PROVE  /\ t[j] <= t[j - 1] * r[j] /\ t[j] <= USize - 1
             /\ t[j] = t[j - 1] * r[j] \/ t[j] = USize - 1
  <2> DEFINE x == t[j - 1] * r[j]
             y == USize - 1
  <2>1. x \in Int /\ y \in Int /\ t[j] = Min({x, y})
    BY <1>5, <1>6, USizeAssumption
  <2> HIDE DEF x, y
  <2>2. Min({x, y}) \in {x, y} /\ Min({x, y}) <= x /\ Min({x, y}) <= y
    BY <2>1, MinOfTwo, Zenon
  <2>3. t[j] \in {x, y} /\ t[j] <= x /\ t[j] <= y
    BY <2>1, <2>2
  <2> QED BY <2>3 DEF x, y
<1>8. \A j \in 0 .. N : t[N - j] < USize - 1
  <2> DEFINE S == {j \in Nat : j <= N => t[N - j] < USize - 1}
  <2>1. 0 \in S
    BY <1>1, <1>3
  <2>2. ASSUME NEW j \in 1 .. N, j - 1 \in S PROVE j \in S
    <3> DEFINE i == N - (j - 1)
    <3>1. i \in 1 .. N /\ i - 1 = N - j /\ t[i] < USize - 1
      BY <1>1, <2>2
    <3> HIDE DEF i
    <3>2. /\ t[i - 1] \in Nat \ {0} /\ t[i] \in Nat \ {0} /\ r[i] \in Nat \ {0}
          /\ t[i] = t[i - 1] * r[i]
      BY <1>6, <1>7, <3>1, USizeAssumption
    <3>3. t[i - 1] <= t[i]
      <4> DEFINE x == t[i - 1]
                 y == r[i]
      <4>1. x \in Nat \ {0} /\ y \in Nat \ {0}
        BY <3>2
      <4> HIDE DEF x, y
      <4>2. y - 1 \in Nat
        BY <4>1
      <4>3. x * (y - 1) \in Nat /\ x * y = x * (y - 1) + x
        BY <4>1, <4>2
      <4>4. x <= x * y
        BY <4>1, <4>3
      <4> QED BY <3>2, <4>4 DEF x, y
    <3> QED BY <3>1, <3>2, <3>3, USizeAssumption
  <2> HIDE DEF S
  <2>3. \A j \in 0 .. N : j \in S
    BY <1>1, <2>1, <2>2, StepByStep
  <2> QED BY <2>3 DEF S
<1>9. ASSUME NEW j \in 0 .. N PROVE t[j] < USize - 1
  <2>1. N - j \in 0 .. N /\ N - (N - j) = j
    BY <1>1
  <2> QED BY <1>8, <2>1
<1>10. \A j \in 1 .. N : t[j] = t[j - 1] * r[j]
  <2>1. ASSUME NEW j \in 1 .. N PROVE t[j] = t[j - 1] * r[j]
    <3>1. j \in 0 .. N
      OBVIOUS
    <3>2. t[j] < USize - 1 /\ t[j] \in Nat
      BY <1>6, <1>9, <3>1
    <3> QED BY <1>7, <3>2, USizeAssumption
  <2> QED BY <2>1
<1>11. Weights(N, r, t)
  BY <1>3, <1>4, <1>5, <1>10 DEF Weights
<1>12. GridSize(axes) = t[N]
  <2>1. PICK p : /\ Products(axes, p) /\ p \in [0 .. Len(axes) -> Nat]
                 /\ GridSize(axes) = Max({1, p[Len(axes)]})
    BY GridSizeIs
  <2>2. /\ p \in [0 .. N -> Nat] /\ p[0] = 1 /\ GridSize(axes) = Max({1, p[N]})
        /\ \A k \in 1 .. N : p[k] = (p[k - 1] * Radix(axes[k])) % USize
    <3>1. /\ p \in [0 .. N -> Nat] /\ GridSize(axes) = Max({1, p[N]})
          /\ p = [k \in 0 .. N |->
                     IF k = 0 THEN 1 ELSE (p[k - 1] * Radix(axes[k])) % USize]
      BY <2>1 DEF Products, N
    <3>2. 0 \in 0 .. N /\ \A k \in 1 .. N : k \in 0 .. N /\ k # 0
      BY <1>1
    <3>3. p[0] = 1
      BY <3>1, <3>2
    <3>4. ASSUME NEW k \in 1 .. N PROVE p[k] = (p[k - 1] * Radix(axes[k])) % USize
      BY <3>1, <3>2
    <3> QED BY <3>1, <3>3, <3>4
  <2> DEFINE S == {k \in Nat : k <= N => p[k] * t[N - k] = t[N] /\ p[k] # 0}
  <2>3. 0 \in S
    BY <1>1, <1>3, <2>2
  <2>4. ASSUME NEW k \in 1 .. N, k - 1 \in S PROVE k \in S
    <3> DEFINE i == N + 1 - k
               x == p[k - 1]
               y == r[i]
               z == t[i - 1]
    <3>1. i \in 1 .. N /\ N + 1 - i = k /\ N - (k - 1) = i /\ N - k = i - 1
          /\ k - 1 \in 0 .. N /\ k \in 0 .. N
      BY <1>1
    <3> HIDE DEF i
    <3>2. /\ x \in Nat \ {0} /\ y \in Nat \ {0} /\ z \in Nat \ {0} /\ x * t[i] = t[N]
          /\ t[i] = z * y /\ p[k] = (x * y) % USize
      <4>1. y = Radix(axes[k])
        BY <1>4, <3>1
      <4>2. x * t[i] = t[N] /\ x # 0
        BY <2>4, <3>1
      <4>3. p[k] = (x * Radix(axes[k])) % USize
        BY <2>2
      <4> QED BY <1>6, <1>10, <2>2, <3>1, <4>1, <4>2, <4>3
    <3> HIDE DEF x, y, z
    <3>3. x * y \in Nat \ {0} /\ (x * y) * z = t[N]
      BY <3>2
    <3>4. x * y < USize
      <4> DEFINE w == x * y
      <4>1. w \in Nat \ {0} /\ w * z = t[N]
        BY <3>3
      <4> HIDE DEF w
      <4>2. z - 1 \in Nat
        BY <3>2
      <4>3. w * (z - 1) \in Nat /\ w * z = w * (z - 1) + w
        BY <3>2, <4>1, <4>2
      <4>4. w <= t[N] /\ t[N] < USize
        BY <1>3, <4>1, <4>3, USizeAssumption
      <4>5. N \in 0 .. N /\ t[N] \in Nat
        BY <1>1, <1>3
      <4>6. w < USize
        BY <4>1, <4>4, <4>5, USizeAssumption
      <4> QED BY <4>6 DEF w
    <3>5. p[k] = x * y
      <4> DEFINE w == x * y
      <4>1. w \in Nat /\ w < USize /\ 0 \in Nat /\ w = 0 * USize + w
        BY <3>3, <3>4, USizeAssumption
      <4> HIDE DEF w
      <4>2. w % USize = w
        BY <4>1, USizeAssumption, DivisionIs
      <4> QED BY <3>2, <4>2 DEF w
    <3> QED BY <3>1, <3>3, <3>5 DEF z
  <2> HIDE DEF S
  <2>5. N \in S
    <3>1. N \in 0 .. N /\ \A k \in 1 .. N : k - 1 \in S => k \in S
      BY <1>1, <2>4
    <3> QED BY <1>1, <2>3, <3>1, StepByStep
  <2>6. p[N] = t[N] /\ p[N] \in Nat \ {0}
    <3>1. p[N] * t[N - N] = t[N] /\ p[N] # 0
      BY <1>1, <2>5 DEF S
    <3>2. N \in 0 .. N /\ N - N = 0
      BY <1>1
    <3>3. p[N] \in Nat
      BY <2>2, <3>2
    <3> QED BY <1>5, <3>1, <3>2, <3>3
  <2> DEFINE q == p[N]
  <2>7. q \in Int /\ 1 \in Int /\ q \in Nat \ {0}
    BY <2>6
  <2> HIDE DEF q
  <2>8. Max({1, q}) \in {1, q} /\ 1 <= Max({1, q}) /\ q <= Max({1, q})
    BY <2>7, MaxOfTwo, Zenon
  <2>9. Max({1, q}) = q
    BY <2>7, <2>8
  <2> QED BY <2>2, <2>6, <2>9 DEF q
<1> QED BY <1>3, <1>4, <1>11, <1>12 DEF N

-----------------------------------------------------------------------------
(* The grid is covered.                                                     *)

\* The trials a study holds at first failed, and stay.
HeldFailed == \A n \in 0 .. setup.first - 1 : n \in Ended /\ trials[n].state = "Failed"

\* The names with an axis that every program asks for.
Wanted ==
    {x \in {setup.axes[i].name : i \in DOMAIN setup.axes} :
        \A p \in setup.programs : \E j \in DOMAIN p : p[j].name = x}

\* A trial has a name, or will come to it, or does not complete.
Asks(n, x) ==
    \/ x \in Keys(trials[n].params)
    \/ n \in DOMAIN live /\ \E j \in DOMAIN live[n].todo : live[n].todo[j].name = x
    \/ n \notin DOMAIN live /\ trials[n].state # "Complete"

WantedAsked == \A n \in DOMAIN trials : \A x \in Wanted : Asks(n, x)

LEMMA HeldFailedStep ==
    ASSUME Inv, HeldFailed, [Next]_vars
    PROVE  HeldFailed'
<1>1. /\ setup' = setup /\ Ended \subseteq Ended'
      /\ \A m \in Ended : trials'[m] = trials[m]
  BY EndedKept
<1> QED BY <1>1 DEF HeldFailed

LEMMA WantedAskedStep ==
    ASSUME Inv, WantedAsked, [Next]_vars
    PROVE  WantedAsked'
<1>1. setup' = setup /\ Wanted' = Wanted
  BY EndedKept DEF Wanted
<1>2. ASSUME NEW m, m \in DOMAIN trials, trials'[m] = trials[m], m \in DOMAIN live' <=> m \in DOMAIN live,
             m \in DOMAIN live => live'[m].todo = live[m].todo, NEW x \in Wanted
      PROVE  Asks(m, x)'
  BY <1>2 DEF WantedAsked, Asks
<1> SUFFICES ASSUME NEW m \in DOMAIN trials', NEW x \in Wanted PROVE Asks(m, x)'
  BY <1>1 DEF WantedAsked
<1>3. CASE UNCHANGED vars
  BY <1>2, <1>3 DEF vars
<1>4. ASSUME NEW program \in setup.programs, Begin(program) PROVE Asks(m, x)'
  <2>1. /\ Count \notin DOMAIN trials /\ DOMAIN trials' = DOMAIN trials \cup {Count}
        /\ \A k \in DOMAIN trials : trials'[k] = trials[k]
        /\ DOMAIN live' = DOMAIN live \cup {Count}
        /\ \A k \in DOMAIN live : live'[k] = live[k]
        /\ live'[Count] = [todo |-> program, loaded |-> Solo,
                           seen |-> IF Solo THEN Ended ELSE {}]
    BY <1>4, BeginEffect DEF Inv
  <2>2. CASE m = Count
    <3>1. live'[m].todo = program /\ m \in DOMAIN live'
      BY <2>1, <2>2
    <3>2. \E j \in DOMAIN program : program[j].name = x
      BY DEF Wanted
    <3> QED BY <3>1, <3>2 DEF Asks
  <2>3. CASE m # Count
    BY <1>2, <2>1, <2>3
  <2> QED BY <2>2, <2>3
<1>5. ASSUME NEW n \in DOMAIN live, LoadHistory(n) PROVE Asks(m, x)'
  <2>1. /\ trials' = trials /\ DOMAIN live' = DOMAIN live
        /\ \A k \in DOMAIN live \ {n} : live'[k] = live[k]
        /\ live'[n].todo = live[n].todo
    BY <1>5, LoadEffect DEF Inv, LiveTyped
  <2> QED BY <1>2, <2>1
<1>6. ASSUME NEW n \in DOMAIN live, Suggest(n) PROVE Asks(m, x)'
  <2> DEFINE todo == live[n].todo
             c == Head(todo)
  <2>1. /\ DOMAIN trials' = DOMAIN trials /\ DOMAIN live' = DOMAIN live
        /\ \A k \in DOMAIN trials \ {n} : trials'[k] = trials[k]
        /\ \A k \in DOMAIN live \ {n} : live'[k] = live[k]
        /\ live'[n].todo = Tail(todo) /\ todo \in Seq(Call) /\ todo # <<>> /\ c \in Call
        /\ \E r \in ParamRecord : trials'[n] = Record(trials[n], c.name, r)
    <3>1. /\ DOMAIN trials' = DOMAIN trials /\ DOMAIN live' = DOMAIN live
          /\ \A k \in DOMAIN trials \ {n} : trials'[k] = trials[k]
          /\ \A k \in DOMAIN live \ {n} : live'[k] = live[k]
          /\ live'[n] = [todo |-> Tail(todo), loaded |-> ~setup.remote,
                         seen |-> IF setup.remote THEN {} ELSE live[n].seen]
          /\ todo \in Seq(Call) /\ todo # <<>> /\ c \in Call
          /\ \E a \in Answers(View(live[n].seen), trials[n], c.name, c.dist) :
                 /\ trials'[n] = Record(trials[n], c.name, Sampled(c.dist, a.value))
                 /\ Sampled(c.dist, a.value) \in ParamRecord
      BY <1>6, SuggestEffect DEF Inv
    <3>2. live'[n].todo = Tail(todo)
      BY <3>1
    <3>3. \E r \in ParamRecord : trials'[n] = Record(trials[n], c.name, r)
      BY <3>1
    <3> QED BY <3>1, <3>2, <3>3
  <2>2. CASE m # n
    BY <1>2, <2>1, <2>2
  <2>3. CASE m = n
    <3>1. PICK r \in ParamRecord : trials'[n] = Record(trials[n], c.name, r)
      BY <2>1
    <3>2. trials[n] \in SampledTrial /\ DistinctKeys(trials[n].params) /\ c.name \in STRING
      BY <2>1 DEF Inv, TrialsTyped, LiveTyped, TrialTyped, Call
    <3> DEFINE t == trials[n]
               name == c.name
    <3>3. Keys(trials'[n].params) = Keys(trials[n].params) \cup {c.name}
      <4>1. t \in SampledTrial /\ DistinctKeys(t.params) /\ name \in STRING
        BY <3>2
      <4>2. trials'[n] = Record(t, name, r)
        BY <3>1
      <4> HIDE DEF t, name
      <4>3. Keys(Record(t, name, r).params) = Keys(t.params) \cup {name}
        BY <4>1, RecordTyped
      <4> QED BY <4>2, <4>3 DEF t, name
    <3>4. ASSUME NEW j \in DOMAIN todo
          PROVE  todo[j] = c \/ \E k \in DOMAIN Tail(todo) : Tail(todo)[k] = todo[j]
      <4> HIDE DEF todo
      <4>1. CASE j = 1
        BY <2>1, <4>1
      <4>2. CASE j # 1
        <5>1. j - 1 \in DOMAIN Tail(todo) /\ Tail(todo)[j - 1] = todo[j]
          BY <2>1, <4>2
        <5> QED BY <5>1
      <4> QED BY <4>1, <4>2
    <3>5. Asks(n, x)
      BY DEF WantedAsked, Inv, LiveTyped
    <3>6. x \in Keys(trials[n].params) \/ \E j \in DOMAIN todo : todo[j].name = x
      BY <3>5 DEF Asks
    <3> HIDE DEF todo, c
    <3>7. CASE x \in Keys(trials[n].params) \/ x = c.name
      <4>1. x \in Keys(trials'[n].params)
        BY <3>3, <3>7
      <4> QED BY <2>3, <4>1 DEF Asks
    <3>8. CASE \E k \in DOMAIN Tail(todo) : Tail(todo)[k].name = x
      <4>1. n \in DOMAIN live' /\ live'[n].todo = Tail(todo)
        BY <2>1
      <4> QED BY <2>3, <3>8, <4>1 DEF Asks
    <3> QED BY <3>4, <3>6, <3>7, <3>8
  <2> QED BY <2>2, <2>3
<1>7. ASSUME NEW n \in DOMAIN live, Lost(n) PROVE Asks(m, x)'
  <2>1. /\ DOMAIN trials' = DOMAIN trials \ {n} /\ DOMAIN live' = DOMAIN live \ {n}
        /\ \A k \in DOMAIN trials' : trials'[k] = trials[k]
        /\ \A k \in DOMAIN live' : live'[k] = live[k]
    BY <1>7, LostEffect DEF Inv
  <2> QED BY <1>2, <2>1
<1>8. ASSUME NEW n \in DOMAIN live, NEW o \in Outcome(setup.values), Finish(n, o) PROVE Asks(m, x)'
  <2>1. /\ DOMAIN trials' = DOMAIN trials
        /\ \A k \in DOMAIN trials \ {n} : trials'[k] = trials[k]
        /\ trials'[n] = FinishTrial(trials[n], o)
        /\ DOMAIN live' = DOMAIN live \ {n}
        /\ \A k \in DOMAIN live \ {n} : live'[k] = live[k]
    BY <1>8, FinishEffect DEF Inv
  <2>2. CASE m # n
    BY <1>2, <2>1, <2>2
  <2>3. CASE m = n
    <3>1. n \in DOMAIN trials /\ trials[n] \in SampledTrial
      BY DEF Inv, TrialsTyped, TrialTyped, LiveTyped
    <3>2. trials'[n].params = trials[n].params
      BY <2>1, <3>1 DEF FinishTrial, SampledTrial
    <3>3. CASE o.kind = "Failed"
      <4>1. trials'[n].state = "Failed"
        BY <2>1, <3>1, <3>3 DEF FinishTrial, SampledTrial
      <4> QED BY <2>1, <2>3, <4>1 DEF Asks
    <3>4. CASE live[n].todo = <<>>
      <4>1. Asks(n, x) /\ DOMAIN live[n].todo = {}
        BY <3>1, <3>4 DEF WantedAsked
      <4> QED BY <2>3, <3>2, <4>1 DEF Asks
    <3> QED BY <1>8, <3>3, <3>4 DEF Finish
  <2> QED BY <2>2, <2>3
<1> QED BY <1>3, <1>4, <1>5, <1>6, <1>7, <1>8, StepIs

LEMMA GridInvariant == Spec => [](HeldFailed /\ WantedAsked)
<1>1. Init => HeldFailed /\ WantedAsked
  <2> SUFFICES ASSUME Init PROVE HeldFailed /\ WantedAsked
    OBVIOUS
  <2>1. /\ setup.first \in Nat /\ Ended = DOMAIN trials /\ DOMAIN live = {}
        /\ trials = [n \in 0 .. setup.first - 1 |->
                        FinishTrial(NewTrial(n), [kind |-> "Failed", value |-> None])]
    <3>1. Ended = DOMAIN trials
      BY InitTyped
    <3> QED BY <3>1, SetupsAssumption DEF Init
  <2>2. \A n \in DOMAIN trials : trials[n].state = "Failed" /\ n \in 0 .. setup.first - 1
    BY <2>1 DEF FinishTrial, NewTrial
  <2>3. HeldFailed
    <3>1. \A n \in 0 .. setup.first - 1 : n \in DOMAIN trials
      BY <2>1
    <3> QED BY <2>1, <2>2, <3>1 DEF HeldFailed
  <2>4. WantedAsked
    BY <2>1, <2>2 DEF WantedAsked, Asks
  <2> QED BY <2>3, <2>4
<1>2. Inv /\ HeldFailed /\ WantedAsked /\ [Next]_vars => HeldFailed' /\ WantedAsked'
  BY HeldFailedStep, WantedAskedStep
<1> QED BY <1>1, <1>2, SampledInvariant, PTL DEF Spec

\* An axis of the grid that has values: its name is registered once, and the index of
\* trial n on it is a digit of the trial's point.
LEMMA AxisIs ==
    ASSUME NEW axes \in Seq(AxisType), NEW i \in DOMAIN axes, axes[i].values # <<>>,
           \A j \in DOMAIN axes : axes[i].name = axes[j].name => i = j, NEW n \in Nat
    PROVE  /\ HasGrid(axes, axes[i].name) /\ GridValues(axes, axes[i].name) = axes[i].values
           /\ IndexFor(axes, axes[i].name, n) =
                 DigitOf(n % GridSize(axes), TailProduct(axes, Len(axes) - i), Radix(axes[i]))
<1> DEFINE x == axes[i].name
           R == Registered(axes, x)
<1>1. R = {i} /\ R \subseteq Nat
  BY DEF Registered
<1> HIDE DEF R
<1>2. Min(R) = i
  BY <1>1, MinOfSet
<1>3. GridValues(axes, x) = axes[i].values
  BY <1>2 DEF GridValues, R
<1>4. HasGrid(axes, x)
  BY <1>1, <1>3 DEF HasGrid, R
<1>5. Radix(axes[i]) = Len(axes[i].values)
  BY RadixType
<1> QED BY <1>2, <1>3, <1>4, <1>5 DEF IndexFor, SuffixProduct, DigitOf, R

\* The names of the points of a grid are those of the axes that have values.
LEMMA PointIs ==
    ASSUME NEW axes \in Seq(AxisType), NEW p \in Points(axes),
           \A i, j \in DOMAIN axes : axes[i].name = axes[j].name => i = j
    PROVE  /\ \A i \in DOMAIN axes : axes[i].values # <<>> =>
                 axes[i].name \in DOMAIN p /\ p[axes[i].name] \in ToSet(axes[i].values)
           /\ \A x \in DOMAIN p : \E i \in DOMAIN axes : axes[i].name = x /\ axes[i].values # <<>>
<1> DEFINE names == {x \in {axes[i].name : i \in DOMAIN axes} : HasGrid(axes, x)}
<1>1. DOMAIN p = names /\ \A x \in names : p[x] \in ToSet(GridValues(axes, x))
  BY DEF Points
<1>2. ASSUME NEW i \in DOMAIN axes, axes[i].values # <<>>
      PROVE  axes[i].name \in DOMAIN p /\ p[axes[i].name] \in ToSet(axes[i].values)
  <2>1. 0 \in Nat /\ HasGrid(axes, axes[i].name) /\ GridValues(axes, axes[i].name) = axes[i].values
    BY <1>2, AxisIs
  <2>2. axes[i].name \in names
    BY <2>1
  <2> HIDE DEF names
  <2> QED BY <1>1, <2>1, <2>2
<1>3. ASSUME NEW x \in names
      PROVE  \E i \in DOMAIN axes : axes[i].name = x /\ axes[i].values # <<>>
  <2> DEFINE i == Min(Registered(axes, x))
  <2>1. i \in DOMAIN axes /\ axes[i].name = x /\ GridValues(axes, x) = axes[i].values
    <3>1. HasGrid(axes, x) /\ 0 \in Nat
      OBVIOUS
    <3>2. i \in DOMAIN axes /\ axes[i].name = x
      BY <3>1, IndexInRange
    <3> QED BY <3>2 DEF GridValues
  <2> HIDE DEF i
  <2> QED BY <2>1 DEF HasGrid
<1> QED BY <1>1, <1>2, <1>3

\* A point of the grid by the digits of its place in the odometer: axis i has digit
\* N + 1 - i, and p's value for it stands there among its values.
Spells(axes, r, p, e) ==
    \A i \in DOMAIN axes :
        /\ e[Len(axes) + 1 - i] \in 0 .. r[Len(axes) + 1 - i] - 1
        /\ axes[i].values # <<>> => axes[i].values[e[Len(axes) + 1 - i] + 1] = p[axes[i].name]

LEMMA PointSpelt ==
    ASSUME NEW axes \in Seq(AxisType), NEW p \in Points(axes),
           \A i, j \in DOMAIN axes : axes[i].name = axes[j].name => i = j,
           NEW r, \A j \in 1 .. Len(axes) : r[j] = Radix(axes[Len(axes) + 1 - j])
    PROVE  \E e : Spells(axes, r, p, e) /\ \A j \in 1 .. Len(axes) : e[j] \in 0 .. r[j] - 1
<1> DEFINE N == Len(axes)
           Q(i, k) == /\ k \in 0 .. Radix(axes[i]) - 1
                      /\ axes[i].values # <<>> => axes[i].values[k + 1] = p[axes[i].name]
           e == [j \in 1 .. N |-> CHOOSE k : Q(N + 1 - j, k)]
<1>1. N \in Nat /\ DOMAIN axes = 1 .. N
  OBVIOUS
<1>2. ASSUME NEW i \in DOMAIN axes PROVE \E k : Q(i, k)
  <2>1. CASE axes[i].values = <<>>
    <3>1. 0 \in 0 .. Radix(axes[i]) - 1
      BY RadixType
    <3> QED BY <2>1, <3>1
  <2>2. CASE axes[i].values # <<>>
    <3>1. p[axes[i].name] \in ToSet(axes[i].values)
      BY <2>2, PointIs
    <3>2. PICK k \in DOMAIN axes[i].values : axes[i].values[k] = p[axes[i].name]
      BY <3>1 DEF ToSet
    <3>3. axes[i].values \in Seq(Value) /\ Radix(axes[i]) = Len(axes[i].values)
      BY <2>2, RadixType
    <3>4. k - 1 \in 0 .. Radix(axes[i]) - 1 /\ (k - 1) + 1 = k
      BY <3>2, <3>3
    <3> QED BY <3>2, <3>4
  <2> QED BY <2>1, <2>2
<1>3. ASSUME NEW i \in DOMAIN axes PROVE Q(i, e[N + 1 - i]) /\ r[N + 1 - i] = Radix(axes[i])
  <2>1. N + 1 - i \in 1 .. N /\ N + 1 - (N + 1 - i) = i
    BY <1>1
  <2> HIDE DEF Q
  <2>2. e[N + 1 - i] = CHOOSE k : Q(i, k)
    BY <2>1
  <2>3. r[N + 1 - i] = Radix(axes[i])
    BY <2>1
  <2> QED BY <1>2, <2>2, <2>3
<1> HIDE DEF e
<1>4. Spells(axes, r, p, e)
  BY <1>3 DEF Spells
<1>5. ASSUME NEW j \in 1 .. N PROVE e[j] \in 0 .. r[j] - 1
  <2>1. N + 1 - j \in DOMAIN axes /\ N + 1 - (N + 1 - j) = j
    BY <1>1
  <2> QED BY <1>4, <2>1 DEF Spells
<1> QED BY <1>4, <1>5

\* A completed trial holds, for an axis with values, the value its digit there points to.
LEMMA TrialHolds ==
    ASSUME Inv, RecordsApt, WantedAsked, setup.sampler = "grid", WholeGrid(setup),
           NEW n \in CompletedTrials(trials), NEW i \in DOMAIN setup.axes,
           setup.axes[i].values # <<>>
    PROVE  RecordOf(trials[n], setup.axes[i].name).value =
             setup.axes[i].values[DigitOf(n % GridSize(setup.axes),
                 TailProduct(setup.axes, Len(setup.axes) - i), Radix(setup.axes[i])) + 1]
<1> DEFINE axes == setup.axes
           x == axes[i].name
           s == trials[n].params
           d == DigitOf(n % GridSize(axes), TailProduct(axes, Len(axes) - i), Radix(axes[i]))
<1>1. n \in DOMAIN trials /\ n \in Nat /\ trials[n].state = "Complete"
  BY DEF CompletedTrials, Inv, TrialsTyped
<1>2. /\ axes \in Seq(AxisType) /\ x \in {axes[j].name : j \in DOMAIN axes}
      /\ \A j \in DOMAIN axes : axes[i].name = axes[j].name => i = j
      /\ \A q \in setup.programs : \E j \in DOMAIN q : q[j].name = x
  BY SetupsAssumption DEF Inv, TrialsTyped, AxisType, WholeGrid
<1>3. x \in Keys(s)
  <2>1. x \in Wanted
    BY <1>2 DEF Wanted
  <2>2. n \notin DOMAIN live
    BY <1>1 DEF Inv, LiveTyped
  <2> QED BY <1>1, <2>1, <2>2 DEF WantedAsked, Asks
<1>4. PICK k \in DOMAIN s : s[k].key = x
  BY <1>3 DEF Keys
<1>5. RecordOf(trials[n], x) = s[k].val
  <2>1. s \in Seq(Entry(STRING, ParamRecord)) /\ DistinctKeys(s)
    BY <1>1 DEF Inv, TrialsTyped, TrialTyped, SampledTrial
  <2> QED BY <1>4, <2>1, RecordOfSlot
<1>6. /\ HasGrid(axes, x) /\ GridValues(axes, x) = axes[i].values /\ IndexFor(axes, x, n) = d
  <2> HIDE DEF axes
  <2> QED BY <1>1, <1>2, AxisIs DEF axes
<1>7. s[k].val.value \in GridAnswers(axes, n, x, s[k].val.dist)
  BY <1>1, <1>4, <1>6 DEF RecordsApt
<1>8. s[k].val.value = GridValues(axes, x)[IndexFor(axes, x, n) + 1]
  BY <1>6, <1>7 DEF GridAnswers
<1> QED BY <1>5, <1>6, <1>8

\* It holds the point p whenever its number, within a lap, shows p's digits.
LEMMA HoldsPoint ==
    ASSUME Inv, RecordsApt, WantedAsked, setup.sampler = "grid", WholeGrid(setup),
           NEW n \in CompletedTrials(trials), NEW p \in Points(setup.axes),
           NEW r, NEW t, NEW e, Spells(setup.axes, r, p, e), Weights(Len(setup.axes), r, t),
           \A j \in 1 .. Len(setup.axes) :
              r[j] = Radix(setup.axes[Len(setup.axes) + 1 - j]),
           \A j \in 0 .. Len(setup.axes) : TailProduct(setup.axes, j) = t[j],
           GridSize(setup.axes) = t[Len(setup.axes)]
    PROVE  (\A x \in DOMAIN p : RecordOf(trials[n], x).value = p[x]) <=>
              Shows(r, t, n % t[Len(setup.axes)], Len(setup.axes), e)
<1> DEFINE axes == setup.axes
           N == Len(axes)
           k == n % t[N]
<1>1. axes \in Seq(AxisType) /\ \A i, j \in DOMAIN axes : axes[i].name = axes[j].name => i = j
  BY SetupsAssumption DEF Inv, TrialsTyped, AxisType, WholeGrid
<1>2. N \in Nat /\ DOMAIN axes = 1 .. N /\ n \in Nat
  <2>1. n \in Nat
    BY DEF CompletedTrials, Inv, TrialsTyped
  <2> QED BY <1>1, <2>1
<1>3. ASSUME NEW i \in DOMAIN axes
      PROVE  /\ N + 1 - i \in 1 .. N /\ e[N + 1 - i] \in 0 .. r[N + 1 - i] - 1
             /\ Digit(r, t, k, N + 1 - i) = DigitOf(n % GridSize(axes), TailProduct(axes, N - i), Radix(axes[i]))
             /\ r[N + 1 - i] = Radix(axes[i])
  <2>1. N + 1 - i \in 1 .. N /\ N + 1 - (N + 1 - i) = i /\ (N + 1 - i) - 1 = N - i /\ N - i \in 0 .. N
    <3>1. i \in 1 .. N /\ N \in Nat
      BY <1>2
    <3> HIDE DEF N
    <3> QED BY <3>1
  <2>2. r[N + 1 - i] = Radix(axes[i]) /\ TailProduct(axes, N - i) = t[N - i]
    BY <2>1
  <2>3. Digit(r, t, k, N + 1 - i) = DigitOf(k, t[N - i], r[N + 1 - i])
    BY <2>1 DEF Digit
  <2> QED BY <2>1, <2>2, <2>3 DEF Spells
<1>4. ASSUME NEW i \in DOMAIN axes, axes[i].values # <<>>
      PROVE  RecordOf(trials[n], axes[i].name).value = p[axes[i].name]
                <=> Digit(r, t, k, N + 1 - i) = e[N + 1 - i]
  <2> DEFINE d == Digit(r, t, k, N + 1 - i)
             f == e[N + 1 - i]
             values == axes[i].values
  <2>1. RecordOf(trials[n], axes[i].name).value = values[d + 1]
    BY <1>3, <1>4, TrialHolds
  <2>2. values[f + 1] = p[axes[i].name]
    BY <1>4 DEF Spells
  <2>3. values \in Seq(Value) /\ r[N + 1 - i] = Len(values) /\ Len(values) \in Nat \ {0}
    BY <1>1, <1>3, <1>4, RadixType
  <2>4. d \in 0 .. Len(values) - 1 /\ f \in 0 .. Len(values) - 1
    <3>1. f \in 0 .. Len(values) - 1
      BY <1>3, <2>3
    <3>2. d = IndexFor(axes, axes[i].name, n) /\ GridValues(axes, axes[i].name) = values
          /\ HasGrid(axes, axes[i].name)
      <4>1. d = DigitOf(n % GridSize(axes), TailProduct(axes, Len(axes) - i), Radix(axes[i]))
        BY <1>3
      <4>2. /\ axes \in Seq(AxisType) /\ i \in DOMAIN axes /\ axes[i].values # <<>> /\ n \in Nat
            /\ \A j \in DOMAIN axes : axes[i].name = axes[j].name => i = j
        BY <1>1, <1>2, <1>4
      <4> HIDE DEF axes, d
      <4>3. /\ HasGrid(axes, axes[i].name) /\ GridValues(axes, axes[i].name) = axes[i].values
            /\ IndexFor(axes, axes[i].name, n) =
                  DigitOf(n % GridSize(axes), TailProduct(axes, Len(axes) - i), Radix(axes[i]))
        BY <4>2, AxisIs
      <4> QED BY <4>1, <4>3
    <3>3. IndexFor(axes, axes[i].name, n) \in 0 .. Len(GridValues(axes, axes[i].name)) - 1
      <4> DEFINE x == axes[i].name
      <4>1. HasGrid(axes, x) /\ axes \in Seq(AxisType) /\ n \in Nat
        BY <1>1, <1>2, <3>2
      <4> HIDE DEF axes, x
      <4>2. IndexFor(axes, x, n) \in 0 .. Len(GridValues(axes, x)) - 1
        BY <4>1, IndexInRange
      <4> QED BY <4>2 DEF axes, x
    <3> QED BY <3>1, <3>2, <3>3
  <2>5. IsInjective(values)
    BY DEF WholeGrid
  <2> HIDE DEF d, f, values
  <2>6. d + 1 \in DOMAIN values /\ f + 1 \in DOMAIN values
    BY <2>3, <2>4
  <2>7. values[d + 1] = values[f + 1] => d = f
    BY <2>4, <2>5, <2>6 DEF IsInjective
  <2> DEFINE v == RecordOf(trials[n], axes[i].name).value
             q == p[axes[i].name]
  <2>8. v = values[d + 1] /\ values[f + 1] = q
    BY <2>1, <2>2
  <2> HIDE DEF v, q
  <2>9. v = q <=> d = f
    BY <2>7, <2>8
  <2> QED BY <2>9 DEF d, f, v, q
<1>5. ASSUME NEW i \in DOMAIN axes, axes[i].values = <<>>
      PROVE  Digit(r, t, k, N + 1 - i) = e[N + 1 - i]
  <2>1. Radix(axes[i]) = 1
    <3>1. Len(axes[i].values) = 0
      BY <1>5
    <3>2. 0 \in Int /\ 1 \in Int
      OBVIOUS
    <3>3. Max({0, 1}) \in {0, 1} /\ 1 <= Max({0, 1})
      BY <3>2, MaxOfTwo, Zenon
    <3>4. Max({0, 1}) = 1
      BY <3>3
    <3> QED BY <3>1, <3>4 DEF Radix
  <2>2. r[N + 1 - i] = 1 /\ e[N + 1 - i] = 0
    BY <1>3, <2>1
  <2> DEFINE q == k \div t[(N + 1 - i) - 1]
  <2>3. q \in Int
    <3>1. (N + 1 - i) - 1 \in 0 .. N /\ N \in 0 .. N
      BY <1>2
    <3>2. t[(N + 1 - i) - 1] \in Nat \ {0} /\ t[N] \in Nat \ {0}
      BY <3>1 DEF Weights
    <3> DEFINE w == t[(N + 1 - i) - 1]
    <3>3. k \in Nat /\ w \in Nat \ {0}
      BY <1>2, <3>2
    <3> HIDE DEF k, w
    <3>4. k \div w \in Nat
      BY <3>3
    <3> QED BY <3>4 DEF w
  <2> HIDE DEF q
  <2>4. q % 1 = 0
    BY <2>3
  <2> QED BY <2>2, <2>4 DEF Digit, DigitOf, q
<1> DEFINE R(i) == Digit(r, t, k, N + 1 - i) = e[N + 1 - i]
<1>6. Shows(r, t, k, N, e) <=> \A i \in DOMAIN axes : R(i)
  <2>1. \A i \in DOMAIN axes : N + 1 - i \in 1 .. N
    BY <1>3
  <2>2. ASSUME NEW j \in 1 .. N PROVE \E i \in DOMAIN axes : j = N + 1 - i
    <3>1. N + 1 - j \in DOMAIN axes /\ j = N + 1 - (N + 1 - j)
      BY <1>2
    <3> QED BY <3>1
  <2> HIDE DEF N, k
  <2> QED BY <2>1, <2>2 DEF Shows
<1>7. (\A x \in DOMAIN p : RecordOf(trials[n], x).value = p[x])
         <=> \A i \in DOMAIN axes : axes[i].values # <<>> =>
                RecordOf(trials[n], axes[i].name).value = p[axes[i].name]
  <2> HIDE DEF axes
  <2>1. /\ \A i \in DOMAIN axes : axes[i].values # <<>> => axes[i].name \in DOMAIN p
        /\ \A x \in DOMAIN p : \E i \in DOMAIN axes : axes[i].name = x /\ axes[i].values # <<>>
    BY <1>1, PointIs DEF axes
  <2> QED BY <2>1
<1> HIDE DEF k, N, axes
<1> QED BY <1>4, <1>5, <1>6, <1>7 DEF k, N, axes

\* grid_size() trials in a row cover the whole grid exactly once, from whatever number the
\* study starts (grid.rs:65-66): the trials that complete within a lap of the odometer,
\* when they are as many as the grid is large, try each of its points in one of them.  The
\* hypothesis is about the study: a grid within a usize, all of which the objective asks for.
THEOREM GridIsCovered ==
    ASSUME \A s \in Setups : s.sampler = "grid" => WholeGrid(s)
    PROVE  Spec => []CoversOnce
<1>1. ASSUME Inv, RecordsApt, HeldFailed, WantedAsked PROVE CoversOnce
  <2> DEFINE axes == setup.axes
             N == Len(axes)
             G == GridSize(axes)
             first == setup.first
             lap == {n \in CompletedTrials(trials) : n < first + G}
             Tries(p) == {n \in lap : \A x \in DOMAIN p : RecordOf(trials[n], x).value = p[x]}
  <2> SUFFICES ASSUME setup.sampler = "grid", Cardinality(lap) = G, NEW p \in Points(axes)
               PROVE  Cardinality(Tries(p)) = 1
    BY DEF CoversOnce
  <2>1. /\ setup \in Setups /\ axes \in Seq(AxisType) /\ WholeGrid(setup) /\ first \in Nat
        /\ N \in Nat /\ TailProduct(axes, N) < USize - 1
    <3>1. setup \in Setups
      BY <1>1 DEF Inv, TrialsTyped
    <3>2. axes \in Seq(AxisType) /\ first \in Nat
      BY <3>1, SetupsAssumption DEF AxisType
    <3>3. WholeGrid(setup) /\ TailProduct(axes, N) < USize - 1
      BY <3>1 DEF WholeGrid
    <3>4. N \in Nat
      <4> HIDE DEF axes
      <4> QED BY <3>2
    <3> QED BY <3>1, <3>2, <3>3, <3>4
  <2>2. PICK r, t : /\ Weights(N, r, t)
                    /\ \A j \in 1 .. N : r[j] = Radix(axes[N + 1 - j])
                    /\ \A j \in 0 .. N : TailProduct(axes, j) = t[j]
                    /\ G = t[N]
    <3> HIDE DEF axes
    <3> QED BY <2>1, GridWeights
  <2>3. G \in Nat \ {0}
    <3>1. N \in 0 .. N /\ t \in [0 .. N -> Nat \ {0}]
      BY <2>1, <2>2 DEF Weights
    <3> QED BY <2>2, <3>1
  <2>4. lap = first .. first + G - 1
    <3>1. \A n \in lap : n \in Nat /\ n \in DOMAIN trials /\ n < first + G /\ trials[n].state = "Complete"
      BY <1>1 DEF CompletedTrials, Inv, TrialsTyped
    <3>2. \A n \in lap : n \notin 0 .. first - 1
      BY <1>1, <3>1 DEF HeldFailed
    <3> HIDE DEF lap, G, first
    <3>3. lap \in SUBSET (first .. first + G - 1)
      BY <2>1, <2>3, <3>1, <3>2
    <3>4. IsFiniteSet(first .. first + G - 1) /\ Cardinality(first .. first + G - 1) = G
      <4> DEFINE b == first + G - 1
      <4>1. first \in Int /\ b \in Int /\ first <= b /\ b - first + 1 = G
        BY <2>1, <2>3
      <4> HIDE DEF b
      <4>2. IsFiniteSet(first .. b) /\ Cardinality(first .. b) = b - first + 1
        BY <4>1, FS_Interval
      <4> QED BY <4>1, <4>2 DEF b
    <3> QED BY <3>3, <3>4, FS_Subset
  <2>5. PICK e : Spells(axes, r, p, e) /\ \A j \in 1 .. N : e[j] \in 0 .. r[j] - 1
    <3>1. \A i, j \in DOMAIN axes : axes[i].name = axes[j].name => i = j
      BY <2>1 DEF WholeGrid
    <3> HIDE DEF axes
    <3> QED BY <2>1, <2>2, <3>1, PointSpelt
  <2>6. PICK k \in 0 .. G - 1 :
           /\ Shows(r, t, k, N, e)
           /\ \A l \in 0 .. G - 1 : Shows(r, t, l, N, e) => l = k
    <3> HIDE DEF N
    <3>1. \E k \in 0 .. t[N] - 1 :
             /\ Shows(r, t, k, N, e)
             /\ \A l \in 0 .. t[N] - 1 : Shows(r, t, l, N, e) => l = k
      BY <2>1, <2>2, <2>5, OdometerShows
    <3> QED BY <2>2, <3>1
  <2>7. PICK n \in first .. first + G - 1 :
           n % G = k /\ \A m \in first .. first + G - 1 : m % G = k => m = n
    <3> HIDE DEF G, first
    <3> QED BY <2>1, <2>3, LapOnce
  <2>8. ASSUME NEW m \in lap
        PROVE  (\A x \in DOMAIN p : RecordOf(trials[m], x).value = p[x]) <=> m = n
    <3>1. (\A x \in DOMAIN p : RecordOf(trials[m], x).value = p[x]) <=> Shows(r, t, m % G, N, e)
      <4>1. m \in CompletedTrials(trials)
        BY DEF lap
      <4> QED BY <1>1, <2>1, <2>2, <2>5, <4>1, HoldsPoint
    <3>2. m \in first .. first + G - 1
      BY <2>4
    <3> HIDE DEF G, first
    <3>3. m % G \in 0 .. G - 1
      BY <2>1, <2>3, <3>2
    <3>4. Shows(r, t, m % G, N, e) <=> m % G = k
      BY <2>6, <3>3
    <3>5. m % G = k <=> m = n
      BY <2>7, <3>2
    <3> QED BY <3>1, <3>4, <3>5
  <2>9. Tries(p) = {n}
    <3>1. n \in lap
      BY <2>4, <2>7
    <3> DEFINE Q(m) == \A x \in DOMAIN p : RecordOf(trials[m], x).value = p[x]
    <3>2. Tries(p) = {m \in lap : Q(m)} /\ \A m \in lap : Q(m) <=> m = n
      BY <2>8
    <3> HIDE DEF lap, Q
    <3> QED BY <3>1, <3>2
  <2> QED BY <2>9, FS_Singleton
<1> QED BY <1>1, SampledInvariant, RecordsInvariant, GridInvariant, PTL
=============================================================================
