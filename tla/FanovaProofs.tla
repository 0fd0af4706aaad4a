----------------------------- MODULE FanovaProofs -----------------------------
(***************************************************************************)
(* Whatever the study, the bootstrap, the options and the splits chosen:   *)
(* the nodes and leaves of a fANOVA tree tile the domain; a tree of all    *)
(* the rows splits first where the best stump does; the variances walked   *)
(* off the leaves are those of the prediction, cell by cell; and the       *)
(* effects of two parameters share the total.  Sums are finite folds, so   *)
(* their laws come first.                                                  *)
(***************************************************************************)
EXTENDS Fanova, TrialsProofs

-----------------------------------------------------------------------------
(* Sums and products over finite sets *)

\* Induction over the subsets of a finite set.
LEMMA Subsetwise ==
    ASSUME NEW S, IsFiniteSet(S), NEW P,
           \A T \in SUBSET S : (\A U \in SUBSET T : U # T => U \in P) => T \in P
    PROVE  \A T \in SUBSET S : T \in P
<1> DEFINE Off   == {T \in SUBSET S : T \notin P}
           sizes == {Cardinality(T) : T \in Off}
<1> SUFFICES ASSUME Off # {} PROVE FALSE
  OBVIOUS
<1>1. \A T \in SUBSET S : IsFiniteSet(T) /\ Cardinality(T) \in Nat
  BY FS_Subset, FS_CardinalityType
<1>2. sizes \subseteq Nat /\ sizes # {}
  BY <1>1
<1> HIDE DEF sizes
<1>3. PICK k \in sizes : \A j \in sizes : k <= j
  BY <1>2, LeastNatural
<1>4. PICK T \in Off : k = Cardinality(T)
  BY DEF sizes
<1>5. ASSUME NEW U \in SUBSET T, U # T PROVE U \in P
  <2>1. Cardinality(U) \in Nat /\ Cardinality(T) \in Nat /\ Cardinality(U) < Cardinality(T)
    BY <1>1, <1>5, FS_Subset
  <2>2. Cardinality(U) \notin sizes
    BY <1>3, <1>4, <2>1
  <2> QED
    BY <2>2 DEF sizes
<1> QED
  BY <1>4, <1>5

Pick(s) == CHOOSE x \in s : TRUE

\* g folds o, from e, over the subsets of S.
Folds(o, e, f, S, g) ==
    g = [s \in SUBSET S |-> IF s = {} THEN e ELSE o[<<f[Pick(s)], g[s \ {Pick(s)}]>>]]

LEMMA PickIsIn == ASSUME NEW s, s # {} PROVE Pick(s) \in s
BY DEF Pick

LEMMA FoldExists ==
    ASSUME NEW o \in [Int \X Int -> Int], NEW e \in Int, NEW S, IsFiniteSet(S),
           NEW f \in [S -> Int]
    PROVE  \E g \in [SUBSET S -> Int] : Folds(o, e, f, S, g)
<1> DEFINE X == [SUBSET S -> Int]
           G(g) == [s \in SUBSET S |->
                       IF s = {} THEN e ELSE o[<<f[Pick(s)], g[s \ {Pick(s)}]>>]]
           F == [p \in Nat \X X |-> G(p[2])]
           a == [s \in SUBSET S |-> e]
<1>1. \A g \in X : G(g) \in X
  <2> SUFFICES ASSUME NEW g \in X, NEW s \in SUBSET S, s # {}
               PROVE  o[<<f[Pick(s)], g[s \ {Pick(s)}]>>] \in Int
    OBVIOUS
  <2>1. Pick(s) \in S /\ s \ {Pick(s)} \in SUBSET S
    BY PickIsIn
  <2> QED
    BY <2>1
<1>2. a \in X
  OBVIOUS
<1> HIDE DEF X, G
<1>3. \A p \in Nat \X X : p[2] \in X
  OBVIOUS
<1>4. \A p \in Nat \X X : G(p[2]) \in X
  BY <1>1, <1>3
<1>5. F \in [Nat \X X -> X]
  BY <1>4
<1>6. \A k \in Nat, g \in X : F[<<k, g>>] = G(g)
  OBVIOUS
<1> HIDE DEF F, a
<1>7. PICK u : Unfolds(X, a, F, u)
  BY <1>2, <1>5, Recursion
<1>8. /\ u \in [Nat -> X] /\ u[0] = a
       /\ \A k \in Nat : k # 0 => u[k] = F[<<k - 1, u[k - 1]>>]
  BY <1>2, <1>7, <1>5 DEF Unfolds
<1>9. \A k \in Nat : u[k + 1] = F[<<k, u[k]>>]
  <2> SUFFICES ASSUME NEW k \in Nat PROVE u[k + 1] = F[<<k, u[k]>>]
    OBVIOUS
  <2>1. k + 1 \in Nat /\ k + 1 # 0 /\ k + 1 - 1 = k
    OBVIOUS
  <2> QED
    BY <1>8, <2>1
<1>10. /\ u[0] = a /\ \A k \in Nat : u[k] \in X /\ u[k + 1] = G(u[k])
  BY <1>6, <1>8, <1>9
<1> DEFINE N == Cardinality(S)
           P == {k \in Nat : \A s \in SUBSET S : Cardinality(s) <= k => u[k + 1][s] = u[k][s]}
<1>11. \A T \in SUBSET S : IsFiniteSet(T) /\ Cardinality(T) \in Nat /\ Cardinality(T) <= N
  BY FS_Subset, FS_CardinalityType
<1>12. 0 \in P
  <2> SUFFICES ASSUME NEW s \in SUBSET S, Cardinality(s) <= 0
               PROVE  u[1][s] = u[0][s]
    OBVIOUS
  <2>1. s = {}
    BY <1>11, FS_EmptySet
  <2>2. u[1] = G(u[0])
    BY <1>10
  <2> QED
    BY <1>10, <2>1, <2>2 DEF G, a
<1>13. ASSUME NEW k \in 1 .. N, k - 1 \in P PROVE k \in P
  <2>1. k \in Nat /\ k - 1 \in Nat /\ k - 1 + 1 = k /\ N \in Nat
    BY <1>11
  <2> SUFFICES ASSUME NEW s \in SUBSET S, Cardinality(s) <= k
               PROVE  u[k + 1][s] = u[k][s]
    BY <2>1
  <2>2. u[k + 1] = G(u[k]) /\ u[k] = G(u[k - 1])
    BY <1>10, <2>1
  <2>3. CASE s = {}
    BY <2>2, <2>3 DEF G
  <2>4. CASE s # {}
    <3>1. Pick(s) \in s
      BY <2>4, PickIsIn
    <3>2. s \ {Pick(s)} \in SUBSET S /\ Cardinality(s \ {Pick(s)}) = Cardinality(s) - 1
      BY <1>11, <3>1, FS_RemoveElement
    <3>3. Cardinality(s \ {Pick(s)}) <= k - 1
      BY <1>11, <2>1, <3>2
    <3>4. u[k][s \ {Pick(s)}] = u[k - 1][s \ {Pick(s)}]
      BY <1>13, <2>1, <3>2, <3>3
    <3>5. \A g \in X : G(g)[s] = o[<<f[Pick(s)], g[s \ {Pick(s)}]>>]
      BY <2>4 DEF G
    <3>6. u[k] \in X /\ u[k - 1] \in X
      BY <1>10, <2>1
    <3>7. /\ u[k + 1][s] = o[<<f[Pick(s)], u[k][s \ {Pick(s)}]>>]
          /\ u[k][s] = o[<<f[Pick(s)], u[k - 1][s \ {Pick(s)}]>>]
      BY <2>2, <3>5, <3>6
    <3> QED
      BY <3>4, <3>7
  <2> QED
    BY <2>3, <2>4
<1>14. N \in Nat
  BY FS_CardinalityType
<1>15. N \in P
  <2> HIDE DEF P
  <2>1. \A k \in 1 .. N : k - 1 \in P => k \in P
    BY <1>13
  <2>2. \A k \in 0 .. N : k \in P
    BY <1>12, <1>14, <2>1, StepByStep
  <2> QED
    BY <1>14, <2>2
<1>16. u[N + 1] = G(u[N]) /\ u[N] \in X /\ u[N + 1] \in X
  BY <1>10, <1>14
<1>17. u[N + 1] = u[N]
  <2>1. \A s \in SUBSET S : u[N + 1][s] = u[N][s]
    BY <1>11, <1>15
  <2> QED
    BY <1>16, <2>1 DEF X
<1> QED
  BY <1>16, <1>17 DEF Folds, G, X

\* Two functions that fold the same values agree where both are defined.
LEMMA FoldsAgree ==
    ASSUME NEW o, NEW e, NEW S, NEW T \in SUBSET S, IsFiniteSet(T), NEW f, NEW h,
           \A x \in T : f[x] = h[x], NEW g, Folds(o, e, f, S, g), NEW k, Folds(o, e, h, T, k)
    PROVE  \A s \in SUBSET T : g[s] = k[s]
<1> DEFINE P == {s \in SUBSET T : g[s] = k[s]}
<1>1. ASSUME NEW s \in SUBSET T, \A u \in SUBSET s : u # s => u \in P PROVE s \in P
  <2>1. /\ g[s] = IF s = {} THEN e ELSE o[<<f[Pick(s)], g[s \ {Pick(s)}]>>]
        /\ k[s] = IF s = {} THEN e ELSE o[<<h[Pick(s)], k[s \ {Pick(s)}]>>]
    BY DEF Folds
  <2>2. CASE s # {}
    <3>1. Pick(s) \in s
      BY <2>2, PickIsIn
    <3>2. f[Pick(s)] = h[Pick(s)] /\ g[s \ {Pick(s)}] = k[s \ {Pick(s)}]
      BY <1>1, <3>1
    <3> QED
      BY <2>1, <2>2, <3>2
  <2> QED
    BY <2>1, <2>2
<1> HIDE DEF P
<1>2. \A s \in SUBSET T : s \in P
  BY <1>1, Subsetwise
<1> QED
  BY <1>2 DEF P

LeftCommutes(o) == \A a, b, c \in Int : o[<<a, o[<<b, c>>]>>] = o[<<b, o[<<a, c>>]>>]

\* It does not matter which element is taken first.
AnyFirst(o, f, S, g) == \A s \in SUBSET S : \A x \in s : g[s] = o[<<f[x], g[s \ {x}]>>]

LEMMA FoldAnyFirst ==
    ASSUME NEW o, NEW e, NEW f, NEW S, NEW g, Folds(o, e, f, S, g), LeftCommutes(o),
           IsFiniteSet(S), f \in [S -> Int], g \in [SUBSET S -> Int]
    PROVE  AnyFirst(o, f, S, g)
<1> DEFINE P == {s \in SUBSET S : \A x \in s : g[s] = o[<<f[x], g[s \ {x}]>>]}
<1>1. \A s \in SUBSET S : s # {} => g[s] = o[<<f[Pick(s)], g[s \ {Pick(s)}]>>]
  BY DEF Folds
<1>2. ASSUME NEW s \in SUBSET S, \A u \in SUBSET s : u # s => u \in P PROVE s \in P
  <2> SUFFICES ASSUME NEW x \in s PROVE g[s] = o[<<f[x], g[s \ {x}]>>]
    OBVIOUS
  <2> DEFINE p == Pick(s)
  <2>1. p \in s
    BY PickIsIn
  <2>2. g[s] = o[<<f[p], g[s \ {p}]>>]
    BY <1>1
  <2> HIDE DEF p
  <2>3. CASE p # x
    <3>1. s \ {p} \in P /\ x \in s \ {p} /\ s \ {x} \in P /\ p \in s \ {x}
      BY <1>2, <2>1, <2>3
    <3>2. g[s \ {p}] = o[<<f[x], g[(s \ {p}) \ {x}]>>]
      BY <3>1
    <3>3. g[s \ {x}] = o[<<f[p], g[(s \ {x}) \ {p}]>>]
      BY <3>1
    <3>4. (s \ {x}) \ {p} = (s \ {p}) \ {x}
      OBVIOUS
    <3>5. f[x] \in Int /\ f[p] \in Int /\ g[(s \ {p}) \ {x}] \in Int
      BY <2>1
    <3>6. o[<<f[p], o[<<f[x], g[(s \ {p}) \ {x}]>>]>>] = o[<<f[x], o[<<f[p], g[(s \ {p}) \ {x}]>>]>>]
      BY <3>5 DEF LeftCommutes
    <3> QED
      BY <2>2, <3>2, <3>3, <3>4, <3>6
  <2> QED
    BY <2>2, <2>3
<1> HIDE DEF P
<1>3. \A s \in SUBSET S : s \in P
  BY <1>2, Subsetwise
<1> QED
  BY <1>3 DEF P, AnyFirst

(* SumFunction *)
Plus == [p \in Int \X Int |-> p[1] + p[2]]

Sums(f, S, g) ==
    g = [s \in SUBSET S |-> IF s = {} THEN 0 ELSE f[Pick(s)] + g[s \ {Pick(s)}]]

LEMMA SumIsFold ==
    ASSUME NEW S, IsFiniteSet(S), NEW f \in [S -> Int]
    PROVE  \E g \in [SUBSET S -> Int] : Folds(Plus, 0, f, S, g) /\ SumFunction(f) = g[S]
<1>1. Plus \in [Int \X Int -> Int] /\ 0 \in Int
  BY DEF Plus
<1>2. PICK g \in [SUBSET S -> Int] : Folds(Plus, 0, f, S, g)
  BY <1>1, FoldExists
<1>3. Sums(f, S, g)
  <2>1. \A s \in SUBSET S : s # {} =>
           Plus[<<f[Pick(s)], g[s \ {Pick(s)}]>>] = f[Pick(s)] + g[s \ {Pick(s)}]
    BY PickIsIn DEF Plus
  <2> DEFINE v(s) == Plus[<<f[Pick(s)], g[s \ {Pick(s)}]>>]
             w(s) == f[Pick(s)] + g[s \ {Pick(s)}]
  <2> HIDE DEF v, w
  <2>2. \A s \in SUBSET S : s # {} => v(s) = w(s)
    BY <2>1 DEF v, w
  <2>3. [s \in SUBSET S |-> IF s = {} THEN 0 ELSE v(s)] = [s \in SUBSET S |-> IF s = {} THEN 0 ELSE w(s)]
    BY <2>2
  <2> QED
    BY <1>2, <2>3 DEF Folds, Sums, v, w
<1> DEFINE c == CHOOSE k : Sums(f, S, k)
<1>4. Sums(f, S, c)
  BY <1>3
<1>5. SumFunction(f) = c[S]
  BY DEF SumFunction, SumFunctionOnSet, FoldFunctionOnSet, MapThenFoldSet, Sums, Pick
<1> HIDE DEF c
<1> DEFINE P == {s \in SUBSET S : c[s] = g[s]}
<1>6. ASSUME NEW s \in SUBSET S, \A u \in SUBSET s : u # s => u \in P PROVE s \in P
  <2>1. /\ c[s] = IF s = {} THEN 0 ELSE f[Pick(s)] + c[s \ {Pick(s)}]
        /\ g[s] = IF s = {} THEN 0 ELSE f[Pick(s)] + g[s \ {Pick(s)}]
    BY <1>3, <1>4 DEF Sums
  <2>2. s # {} => c[s \ {Pick(s)}] = g[s \ {Pick(s)}]
    BY <1>6, PickIsIn
  <2> QED
    BY <2>1, <2>2
<1> HIDE DEF P
<1>7. \A T \in SUBSET S : T \in P
  BY <1>6, Subsetwise
<1> QED
  BY <1>2, <1>5, <1>7 DEF P

\* A sum is a number, and any term may be taken out of it.
LEMMA SumStep ==
    ASSUME NEW S, IsFiniteSet(S), NEW f \in [S -> Int]
    PROVE  /\ SumFunction(f) \in Int
           /\ S = {} => SumFunction(f) = 0
           /\ \A x \in S : SumFunction(f) = f[x] + SumFunction([y \in S \ {x} |-> f[y]])
<1>1. PICK g \in [SUBSET S -> Int] : Folds(Plus, 0, f, S, g) /\ SumFunction(f) = g[S]
  BY SumIsFold
<1>2. g[S] \in Int /\ (S = {} => g[S] = 0)
  BY <1>1 DEF Folds
<1>3. ASSUME NEW x \in S PROVE SumFunction(f) = f[x] + SumFunction([y \in S \ {x} |-> f[y]])
  <2> DEFINE T == S \ {x}
             h == [y \in T |-> f[y]]
  <2>1. IsFiniteSet(T) /\ h \in [T -> Int]
    BY FS_RemoveElement
  <2>2. PICK k \in [SUBSET T -> Int] : Folds(Plus, 0, h, T, k) /\ SumFunction(h) = k[T]
    BY <2>1, SumIsFold
  <2>3. \A y \in T : f[y] = h[y]
    OBVIOUS
  <2> HIDE DEF h
  <2>4. g[T] = k[T]
    BY <1>1, <2>1, <2>2, <2>3, FoldsAgree
  <2>5. LeftCommutes(Plus) /\ Plus \in [Int \X Int -> Int] /\ 0 \in Int /\ S \in SUBSET S
    BY DEF LeftCommutes, Plus
  <2>6. g[S] = Plus[<<f[x], g[T]>>]
    <3>1. AnyFirst(Plus, f, S, g)
      BY <1>1, <2>5, FoldAnyFirst
    <3> QED
      BY <2>5, <3>1 DEF AnyFirst
  <2>7. Plus[<<f[x], g[T]>>] = f[x] + g[T]
    BY DEF Plus
  <2> QED
    BY <1>1, <2>2, <2>4, <2>6, <2>7 DEF h
<1> QED
  BY <1>1, <1>2, <1>3

\* A sum of ones counts.
LEMMA SumOfOnes ==
    ASSUME NEW S, IsFiniteSet(S)
    PROVE  SumFunction([x \in S |-> 1]) = Cardinality(S)
<1> DEFINE P == {T \in SUBSET S : SumFunction([x \in T |-> 1]) = Cardinality(T)}
<1>1. ASSUME NEW T \in SUBSET S, \A U \in SUBSET T : U # T => U \in P PROVE T \in P
  <2> DEFINE f == [x \in T |-> 1]
  <2>1. IsFiniteSet(T) /\ f \in [T -> Int] /\ Cardinality(T) \in Nat
    BY FS_Subset, FS_CardinalityType
  <2>2. CASE T = {}
    BY <2>1, <2>2, SumStep, FS_EmptySet
  <2>3. CASE T # {}
    <3>1. PICK x \in T : TRUE
      BY <2>3
    <3>2. [y \in T \ {x} |-> f[y]] = [y \in T \ {x} |-> 1]
      OBVIOUS
    <3>3. SumFunction(f) = f[x] + SumFunction([y \in T \ {x} |-> f[y]])
      BY <2>1, SumStep
    <3>4. T \ {x} \in P /\ Cardinality(T \ {x}) = Cardinality(T) - 1
      BY <1>1, <2>1, FS_RemoveElement
    <3> QED
      BY <2>1, <3>2, <3>3, <3>4
  <2> QED
    BY <2>2, <2>3
<1> HIDE DEF P
<1>2. \A T \in SUBSET S : T \in P
  BY <1>1, Subsetwise
<1> QED
  BY <1>2 DEF P

\* The sum of f over T.
SumOver(f, T) == SumFunction([t \in T |-> f[t]])

LEMMA SumOverStep ==
    ASSUME NEW T, IsFiniteSet(T), NEW f, \A t \in T : f[t] \in Int
    PROVE  /\ SumOver(f, T) \in Int
           /\ T = {} => SumOver(f, T) = 0
           /\ \A x \in T : /\ SumOver(f, T) = f[x] + SumOver(f, T \ {x})
                           /\ SumOver(f, T \ {x}) \in Int
<1> DEFINE g == [t \in T |-> f[t]]
<1>1. g \in [T -> Int]
  OBVIOUS
<1>2. SumOver(f, T) = SumFunction(g)
  BY DEF SumOver
<1>3. ASSUME NEW x \in T
      PROVE  /\ SumFunction([y \in T \ {x} |-> g[y]]) = SumOver(f, T \ {x})
             /\ g[x] = f[x]
             /\ SumOver(f, T \ {x}) \in Int
  <2>1. [y \in T \ {x} |-> g[y]] = [y \in T \ {x} |-> f[y]]
    OBVIOUS
  <2>2. IsFiniteSet(T \ {x}) /\ [y \in T \ {x} |-> f[y]] \in [T \ {x} -> Int]
    BY FS_RemoveElement
  <2>3. SumFunction([y \in T \ {x} |-> f[y]]) \in Int
    BY <2>2, SumStep
  <2> QED
    BY <2>1, <2>3 DEF SumOver
<1> HIDE DEF g
<1>4. /\ SumFunction(g) \in Int /\ (T = {} => SumFunction(g) = 0)
      /\ \A x \in T : SumFunction(g) = g[x] + SumFunction([y \in T \ {x} |-> g[y]])
  BY <1>1, SumStep
<1> QED
  BY <1>2, <1>3, <1>4

LEMMA SumOverSame ==
    ASSUME NEW T, NEW f, NEW g, \A t \in T : f[t] = g[t]
    PROVE  SumOver(f, T) = SumOver(g, T)
<1>1. [t \in T |-> f[t]] = [t \in T |-> g[t]]
  OBVIOUS
<1> QED
  BY <1>1 DEF SumOver

\* Equal terms.
LEMMA SumOfEquals ==
    ASSUME NEW S, IsFiniteSet(S), NEW e \in Int, NEW f, \A x \in S : f[x] = e
    PROVE  SumOver(f, S) = Cardinality(S) * e
<1> DEFINE P == {T \in SUBSET S : SumOver(f, T) = Cardinality(T) * e}
<1>1. ASSUME NEW T \in SUBSET S, \A U \in SUBSET T : U # T => U \in P PROVE T \in P
  <2>1. IsFiniteSet(T) /\ Cardinality(T) \in Nat /\ \A t \in T : f[t] \in Int /\ f[t] = e
    BY FS_Subset, FS_CardinalityType
  <2>2. CASE T = {}
    <3>1. SumOver(f, T) = 0 /\ Cardinality(T) = 0
      BY <2>1, <2>2, SumOverStep, FS_EmptySet
    <3> QED
      BY <3>1
  <2>3. CASE T # {}
    <3>1. PICK x \in T : TRUE
      BY <2>3
    <3>2. SumOver(f, T) = e + SumOver(f, T \ {x})
      BY <2>1, SumOverStep
    <3>3. T \ {x} \in P /\ Cardinality(T \ {x}) = Cardinality(T) - 1
      BY <1>1, <2>1, FS_RemoveElement
    <3>4. \A n \in Nat : e + (n - 1) * e = n * e
      OBVIOUS
    <3> QED
      BY <2>1, <3>2, <3>3, <3>4
  <2> QED
    BY <2>2, <2>3
<1> HIDE DEF P
<1>2. \A T \in SUBSET S : T \in P
  BY <1>1, Subsetwise
<1> QED
  BY <1>2 DEF P

\* Sums of sums, multiples and products with one of the terms.
Linear(h, a, f, b, g, S) ==
    \A x \in S : f[x] \in Int /\ g[x] \in Int /\ h[x] = a * f[x] + b * g[x]

LEMMA SumLinear ==
    ASSUME NEW S, IsFiniteSet(S), NEW f, NEW g, NEW h, NEW a \in Int, NEW b \in Int,
           Linear(h, a, f, b, g, S)
    PROVE  SumOver(h, S) = a * SumOver(f, S) + b * SumOver(g, S)
<1> DEFINE P == {T \in SUBSET S : SumOver(h, T) = a * SumOver(f, T) + b * SumOver(g, T)}
<1>1. \A x \in S : f[x] \in Int /\ g[x] \in Int /\ h[x] = a * f[x] + b * g[x]
  BY DEF Linear
<1>2. \A x \in S : h[x] \in Int
  <2>1. \A u, v \in Int : a * u + b * v \in Int
    OBVIOUS
  <2> QED
    BY <1>1, <2>1
<1>3. ASSUME NEW T \in SUBSET S, \A U \in SUBSET T : U # T => U \in P PROVE T \in P
  <2>1. IsFiniteSet(T) /\ \A t \in T : f[t] \in Int /\ g[t] \in Int /\ h[t] \in Int
    BY <1>2, <1>1, FS_Subset
  <2>2. CASE T = {}
    <3>1. SumOver(f, T) = 0 /\ SumOver(g, T) = 0 /\ SumOver(h, T) = 0
      BY <2>1, <2>2, SumOverStep
    <3> QED
      BY <3>1
  <2>3. CASE T # {}
    <3>1. PICK x \in T : TRUE
      BY <2>3
    <3>2. /\ SumOver(f, T) = f[x] + SumOver(f, T \ {x}) /\ SumOver(f, T \ {x}) \in Int
          /\ SumOver(g, T) = g[x] + SumOver(g, T \ {x}) /\ SumOver(g, T \ {x}) \in Int
          /\ SumOver(h, T) = h[x] + SumOver(h, T \ {x})
      BY <2>1, SumOverStep
    <3>3. T \ {x} \in P
      BY <1>3
    <3>4. \A u, v, m, n \in Int : (a * u + b * v) + (a * m + b * n) = a * (u + m) + b * (v + n)
      OBVIOUS
    <3> QED
      BY <1>1, <2>1, <3>2, <3>3, <3>4
  <2> QED
    BY <2>2, <2>3
<1> HIDE DEF P
<1>4. \A T \in SUBSET S : T \in P
  BY <1>3, Subsetwise
<1> QED
  BY <1>4 DEF P

LEMMA SumNotNegative ==
    ASSUME NEW S, IsFiniteSet(S), NEW f, \A x \in S : f[x] \in Nat
    PROVE  SumOver(f, S) \in Nat
<1> DEFINE P == {T \in SUBSET S : SumOver(f, T) \in Nat}
<1>1. ASSUME NEW T \in SUBSET S, \A U \in SUBSET T : U # T => U \in P PROVE T \in P
  <2>1. IsFiniteSet(T) /\ \A t \in T : f[t] \in Int /\ f[t] \in Nat
    BY FS_Subset
  <2>2. CASE T = {}
    BY <2>1, <2>2, SumOverStep
  <2>3. CASE T # {}
    <3>1. PICK x \in T : TRUE
      BY <2>3
    <3>2. SumOver(f, T) = f[x] + SumOver(f, T \ {x})
      BY <2>1, SumOverStep
    <3>3. T \ {x} \in P
      BY <1>1
    <3> QED
      BY <2>1, <3>2, <3>3
  <2> QED
    BY <2>2, <2>3
<1> HIDE DEF P
<1>2. \A T \in SUBSET S : T \in P
  BY <1>1, Subsetwise
<1> QED
  BY <1>2 DEF P

\* A sum by parts: k says to which part a term belongs.
PartOf(f, S, k, c) == SumOver(f, {x \in S : k[x] = c})

LEMMA SumByParts ==
    ASSUME NEW S, IsFiniteSet(S), NEW C, IsFiniteSet(C), NEW f, \A x \in S : f[x] \in Int,
           NEW k \in [S -> C], NEW g, \A c \in C : g[c] = PartOf(f, S, k, c)
    PROVE  SumOver(f, S) = SumOver(g, C)
<1> DEFINE part(T, c) == {x \in T : k[x] = c}
           G(T) == [c \in C |-> SumOver(f, part(T, c))]
           P == {T \in SUBSET S : SumOver(f, T) = SumOver(G(T), C)}
<1>1. \A T \in SUBSET S, c \in C : /\ G(T)[c] = SumOver(f, part(T, c))
                                   /\ SumOver(f, part(T, c)) \in Int
  <2> SUFFICES ASSUME NEW T \in SUBSET S, NEW c \in C
               PROVE  SumOver(f, part(T, c)) \in Int
    OBVIOUS
  <2>1. IsFiniteSet(part(T, c)) /\ \A x \in part(T, c) : f[x] \in Int
    BY FS_Subset
  <2> HIDE DEF part
  <2> QED
    BY <2>1, SumOverStep
<1>2. ASSUME NEW T \in SUBSET S, \A U \in SUBSET T : U # T => U \in P PROVE T \in P
  <2>1. IsFiniteSet(T) /\ \A t \in T : f[t] \in Int
    BY FS_Subset
  <2>2. CASE T = {}
    <3>1. \A c \in C : part(T, c) = {}
      BY <2>2
    <3>2. SumOver(f, T) = 0
      BY <2>1, <2>2, SumOverStep
    <3> HIDE DEF part
    <3>3. \A c \in C : G(T)[c] = 0
      BY <2>2, <3>1, <3>2
    <3> HIDE DEF G
    <3>4. SumOver(G(T), C) = Cardinality(C) * 0
      BY <3>3, SumOfEquals
    <3>5. Cardinality(C) \in Nat
      BY FS_CardinalityType
    <3> QED
      BY <3>2, <3>4, <3>5
  <2>3. CASE T # {}
    <3>1. PICK x \in T : TRUE
      BY <2>3
    <3> DEFINE U == T \ {x}  d == k[x]
    <3>2. SumOver(f, T) = f[x] + SumOver(f, U) /\ SumOver(f, U) \in Int
      BY <2>1, SumOverStep
    <3>3. U \in P /\ U \in SUBSET S /\ d \in C
      BY <1>2
    <3>4. \A c \in C : c # d => part(T, c) = part(U, c)
      OBVIOUS
    <3>5. part(U, d) = part(T, d) \ {x} /\ x \in part(T, d)
      OBVIOUS
    <3>6. IsFiniteSet(part(T, d)) /\ \A y \in part(T, d) : f[y] \in Int
      BY <2>1, FS_Subset
    <3> HIDE DEF part, U, d
    <3>7. SumOver(f, part(T, d)) = f[x] + SumOver(f, part(U, d))
      <4> DEFINE W == part(T, d)
      <4>1. IsFiniteSet(W) /\ (\A y \in W : f[y] \in Int) /\ x \in W
        BY <3>5, <3>6
      <4> HIDE DEF W
      <4>2. SumOver(f, W) = f[x] + SumOver(f, W \ {x})
        BY <4>1, SumOverStep
      <4> QED
        BY <3>5, <4>2 DEF W
    <3>8. \A c \in C : c # d => G(T)[c] = G(U)[c]
      BY <3>4
    <3>9. G(T)[d] = f[x] + G(U)[d]
      BY <3>3, <3>7
    <3>10. U \in SUBSET S
      BY <3>3
    <3>11. \A V \in SUBSET S : \A c \in C : G(V)[c] \in Int
      BY <1>1
    <3> HIDE DEF G
    <3>12. \A c \in C : G(T)[c] \in Int /\ G(U)[c] \in Int
      BY <3>10, <3>11
    <3>13. /\ SumOver(G(T), C) = G(T)[d] + SumOver(G(T), C \ {d})
           /\ SumOver(G(U), C) = G(U)[d] + SumOver(G(U), C \ {d})
           /\ SumOver(G(U), C \ {d}) \in Int
      BY <3>3, <3>12, SumOverStep
    <3>14. SumOver(G(T), C \ {d}) = SumOver(G(U), C \ {d})
      BY <3>8, SumOverSame
    <3> QED
      BY <2>1, <3>1, <3>2, <3>3, <3>9, <3>12, <3>13, <3>14
  <2> QED
    BY <2>2, <2>3
<1> HIDE DEF P
<1>3. \A T \in SUBSET S : T \in P
  BY <1>2, Subsetwise
<1>4. SumOver(f, S) = SumOver(G(S), C)
  BY <1>3 DEF P
<1>5. \A c \in C : G(S)[c] = g[c]
  BY DEF PartOf
<1> QED
  BY <1>4, <1>5, SumOverSame

\* Terms may be renamed.
LEMMA SumRenamed ==
    ASSUME NEW S, IsFiniteSet(S), NEW T, NEW b \in Bijection(S, T), NEW f, NEW g,
           \A x \in S : g[x] = f[b[x]] /\ g[x] \in Int
    PROVE  SumOver(f, T) = SumOver(g, S)
<1>1. /\ b \in [S -> T] /\ (\A x, y \in S : b[x] = b[y] => x = y)
      /\ \A t \in T : \E x \in S : b[x] = t
  BY DEF Bijection, Injection, Surjection, IsInjective
<1>2. IsFiniteSet(T)
  BY FS_Bijection DEF ExistsBijection
<1>3. ASSUME NEW t \in T PROVE f[t] \in Int
  BY <1>1
<1>4. ASSUME NEW x \in S PROVE g[x] = SumOver(f, {t \in T : b[x] = t})
  <2>1. {t \in T : b[x] = t} = {b[x]}
    BY <1>1
  <2>2. IsFiniteSet({b[x]}) /\ Cardinality({b[x]}) = 1
    BY FS_Singleton
  <2>3. f[b[x]] \in Int /\ \A t \in {b[x]} : f[t] = f[b[x]]
    BY <1>1, <1>3
  <2>4. SumOver(f, {b[x]}) = Cardinality({b[x]}) * f[b[x]]
    BY <2>2, <2>3, SumOfEquals
  <2> DEFINE z == f[b[x]]
  <2>5. g[x] = z /\ SumOver(f, {b[x]}) = 1 * z /\ z \in Int
    BY <2>2, <2>3, <2>4
  <2>6. SumOver(f, {b[x]}) = g[x]
    <3> HIDE DEF z
    <3> QED
      BY <2>5
  <2> QED
    BY <2>1, <2>6
<1> DEFINE k == [t \in T |-> CHOOSE x \in S : b[x] = t]
<1>5. k \in [T -> S] /\ \A t \in T : \A x \in S : k[t] = x <=> b[x] = t
  BY <1>1
<1>6. \A x \in S : {t \in T : b[x] = t} = {t \in T : k[t] = x}
  BY <1>5
<1> HIDE DEF k
<1>7. \A x \in S : g[x] = PartOf(f, T, k, x)
  BY <1>4, <1>6 DEF PartOf
<1> QED
  BY <1>2, <1>3, <1>5, <1>7, SumByParts

-----------------------------------------------------------------------------
(* A box of the domain; what a node is, and that nodes and leaves are told apart. *)
Nested(b) ==
    \A x \in Features : /\ data.bounds[x].lo <= b[x].lo /\ b[x].lo <= b[x].hi
                        /\ b[x].hi <= data.bounds[x].hi

Nodes ==
    /\ \A p \in Pieces : p.box \in Boxes /\ Nested(p.box)
    /\ \A node \in open : /\ node.rows \subseteq Rows
                          /\ DOMAIN node = {"box", "rows", "depth"}
                          /\ \A n \in node.rows : InBox(n, node.box)
    /\ \A l \in leaves : DOMAIN l = {"box", "value"}

Tiled ==
    \A c \in UnitCells(Breadth) :
        \E p \in Pieces : /\ Holds(p.box, c, Breadth)
                          /\ \A q \in Pieces : Holds(q.box, c, Breadth) => q = p

Started == draw # <<>>

TreeInv ==
    /\ Rows # {}
    /\ ~Started => open = {} /\ leaves = {}
    /\ InDomain => Nodes
    /\ InDomain /\ Started => Tiled

-----------------------------------------------------------------------------
\* While the data stay, so does all that is made of them.
LEMMA DataFrame ==
    ASSUME data' = data
    PROVE  /\ Features' = Features /\ Rows' = Rows /\ Breadth' = Breadth /\ Boxes' = Boxes
           /\ InDomain' <=> InDomain
           /\ UnitCells(Breadth)' = UnitCells(Breadth)
           /\ \A b : Nested(b)' <=> Nested(b)
           /\ \A n, b : InBox(n, b)' <=> InBox(n, b)
<1>1. Features' = Features /\ Rows' = Rows
  BY DEF Features, Rows
<1>2. Breadth' = Breadth /\ Boxes' = Boxes
  BY <1>1 DEF Breadth, HasWidth, Boxes
<1>3. InDomain' <=> InDomain
  BY <1>1, <1>2 DEF InDomain, InBox
<1>4. UnitCells(Breadth)' = UnitCells(Breadth)
  BY <1>2 DEF UnitCells, Holds
<1>5. (\A b : Nested(b)' <=> Nested(b)) /\ \A n, b : InBox(n, b)' <=> InBox(n, b)
  BY <1>1 DEF Nested, InBox
<1> QED
  BY <1>1, <1>2, <1>3, <1>4, <1>5

\* A threshold lies in the box of its node, and leaves room to its right.
LEMMA ThresholdInside ==
    ASSUME InDomain, Nodes, NEW node \in open, NEW F \in SUBSET Features,
           NEW s \in Best(node.rows, F)
    PROVE  /\ s.feature \in Features /\ s.feature \in Breadth /\ s.threshold \in Int
           /\ node.box[s.feature].lo <= s.threshold
           /\ s.threshold < node.box[s.feature].hi
<1>1. s \in Splits(node.rows, F)
  BY DEF Best
<1>2. PICK t \in node.rows \X node.rows \X F :
         /\ Neighbours(node.rows, t[1], t[2], t[3])
         /\ s = [feature   |-> t[3], last |-> data.x[t[1]][t[3]],
                 threshold |-> (data.x[t[1]][t[3]] + data.x[t[2]][t[3]]) \div 2]
  BY <1>1 DEF Splits
<1> DEFINE a == t[1]  b == t[2]  x == t[3]
<1>3. a \in node.rows /\ b \in node.rows /\ x \in F
  BY <1>2
<1>4. x \in Features /\ a \in Rows /\ b \in Rows
  BY <1>3 DEF Nodes
<1>5. data.x[a][x] \in Int /\ data.x[b][x] \in Int /\ data.x[a][x] < data.x[b][x]
  BY <1>2, <1>4 DEF InDomain, Neighbours
<1>6. /\ node.box[x].lo \in Int /\ node.box[x].hi \in Int
      /\ node.box[x].lo <= data.x[a][x] /\ data.x[b][x] <= node.box[x].hi
  BY <1>3, <1>4 DEF Nodes, Pieces, Boxes, InBox
<1>7. x \in Breadth
  <2>1. /\ data.bounds[x].lo \in Int /\ data.bounds[x].hi \in Int
        /\ data.bounds[x].lo <= node.box[x].lo /\ node.box[x].hi <= data.bounds[x].hi
    BY <1>4 DEF Nodes, Pieces, Nested, InDomain, Boxes
  <2> QED
    BY <1>4, <1>5, <1>6, <2>1 DEF Breadth, HasWidth, Extent
<1>8. s.feature = x /\ s.threshold = (data.x[a][x] + data.x[b][x]) \div 2
  BY <1>2
<1> HIDE DEF a, b, x
<1> QED
  BY <1>4, <1>5, <1>6, <1>8, <1>7

\* What a split does to a box.
LEMMA ChildBox ==
    ASSUME NEW node, node.box \in Boxes, NEW s, s.feature \in Features, s.threshold \in Int,
           NEW left \in BOOLEAN
    PROVE  /\ Child(node, s, left).box \in Boxes
           /\ \A x \in Features :
                 /\ Child(node, s, left).box[x].lo =
                        IF x = s.feature /\ ~left THEN s.threshold ELSE node.box[x].lo
                 /\ Child(node, s, left).box[x].hi =
                        IF x = s.feature /\ left THEN s.threshold ELSE node.box[x].hi
<1>1. CASE left
  BY <1>1 DEF Child, Boxes
<1>2. CASE ~left
  BY <1>2 DEF Child, Boxes
<1> QED
  BY <1>1, <1>2

\* Either side is a box of the domain.
LEMMA ChildNested ==
    ASSUME InDomain, Nodes, NEW node \in open, NEW F \in SUBSET Features,
           NEW s \in Best(node.rows, F), NEW left \in BOOLEAN
    PROVE  Child(node, s, left).box \in Boxes /\ Nested(Child(node, s, left).box)
<1> DEFINE kid == Child(node, s, left)
<1>1. node.box \in Boxes /\ Nested(node.box)
  BY DEF Nodes, Pieces
<1>2. /\ s.feature \in Features /\ s.threshold \in Int
      /\ node.box[s.feature].lo <= s.threshold /\ s.threshold < node.box[s.feature].hi
  BY ThresholdInside
<1>3. kid.box \in Boxes
  BY <1>1, <1>2, ChildBox
<1>4. ASSUME NEW x \in Features
      PROVE  /\ data.bounds[x].lo <= kid.box[x].lo /\ kid.box[x].lo <= kid.box[x].hi
             /\ kid.box[x].hi <= data.bounds[x].hi
  <2>1. /\ kid.box[x].lo = IF x = s.feature /\ ~left THEN s.threshold ELSE node.box[x].lo
        /\ kid.box[x].hi = IF x = s.feature /\ left THEN s.threshold ELSE node.box[x].hi
    BY <1>1, <1>2, ChildBox
  <2>2. /\ data.bounds[x].lo \in Int /\ data.bounds[x].hi \in Int
        /\ node.box[x].lo \in Int /\ node.box[x].hi \in Int
    BY <1>1 DEF InDomain, Boxes
  <2>3. /\ data.bounds[x].lo <= node.box[x].lo /\ node.box[x].lo <= node.box[x].hi
        /\ node.box[x].hi <= data.bounds[x].hi
    BY <1>1 DEF Nested
  <2> HIDE DEF kid
  <2> QED
    BY <1>2, <2>1, <2>2, <2>3
<1> QED
  BY <1>3, <1>4 DEF Nested

\* The rows of either side lie in its box.
LEMMA ChildRows ==
    ASSUME InDomain, Nodes, NEW node \in open, NEW F \in SUBSET Features,
           NEW s \in Best(node.rows, F), NEW left \in BOOLEAN
    PROVE  /\ Child(node, s, left).rows \subseteq Rows
           /\ \A n \in Child(node, s, left).rows : InBox(n, Child(node, s, left).box)
<1> DEFINE kid == Child(node, s, left)
<1>1. node.box \in Boxes /\ node.rows \subseteq Rows /\ \A n \in node.rows : InBox(n, node.box)
  BY DEF Nodes, Pieces
<1>2. s.feature \in Features /\ s.threshold \in Int
  BY ThresholdInside
<1>3. kid.rows = IF left THEN Below(node.rows, s) ELSE node.rows \ Below(node.rows, s)
  BY DEF Child
<1>4. kid.rows \subseteq node.rows
  BY <1>3 DEF Below
<1>5. SUFFICES ASSUME NEW n \in kid.rows, NEW x \in Features
               PROVE  kid.box[x].lo <= data.x[n][x] /\ data.x[n][x] <= kid.box[x].hi
  BY <1>1, <1>4 DEF InBox
<1>6. /\ kid.box[x].lo = IF x = s.feature /\ ~left THEN s.threshold ELSE node.box[x].lo
      /\ kid.box[x].hi = IF x = s.feature /\ left THEN s.threshold ELSE node.box[x].hi
  BY <1>1, <1>2, ChildBox
<1>7. data.x[n][x] \in Int /\ data.x[n][s.feature] \in Int
  BY <1>1, <1>2, <1>4 DEF InDomain
<1>8. node.box[x].lo <= data.x[n][x] /\ data.x[n][x] <= node.box[x].hi
  BY <1>1, <1>4 DEF InBox
<1>9. IF left THEN data.x[n][s.feature] <= s.threshold ELSE s.threshold < data.x[n][s.feature]
  BY <1>2, <1>3, <1>4, <1>7 DEF Below
<1> QED
  BY <1>2, <1>6, <1>7, <1>8, <1>9

\* A cell of a node's box falls to exactly one side, and no other cell to either.
LEMMA SidesPart ==
    ASSUME InDomain, Nodes, NEW node \in open, NEW F \in SUBSET Features,
           NEW s \in Best(node.rows, F), NEW c \in UnitCells(Breadth)
    PROVE  LET low  == Child(node, s, TRUE)
               high == Child(node, s, FALSE)
           IN  /\ Holds(node.box, c, Breadth) =>
                       Holds(low.box, c, Breadth) \/ Holds(high.box, c, Breadth)
               /\ Holds(low.box, c, Breadth) \/ Holds(high.box, c, Breadth) =>
                       Holds(node.box, c, Breadth)
               /\ ~(Holds(low.box, c, Breadth) /\ Holds(high.box, c, Breadth))
<1> DEFINE low == Child(node, s, TRUE)  high == Child(node, s, FALSE)
           f == s.feature  t == s.threshold
<1>1. /\ f \in Features /\ f \in Breadth /\ t \in Int
      /\ node.box[f].lo <= t /\ t < node.box[f].hi
  BY ThresholdInside
<1>2. node.box \in Boxes
  BY DEF Nodes, Pieces
<1>3. \A x \in Breadth : /\ x \in Features /\ c[x] \in Int
                         /\ node.box[x].lo \in Int /\ node.box[x].hi \in Int
  <2>1. \A x \in Breadth : /\ x \in Features
                           /\ data.bounds[x].lo \in Int /\ data.bounds[x].hi \in Int
    BY DEF InDomain, Boxes, Breadth
  <2>2. \A x \in Breadth : c[x] \in UNION {data.bounds[y].lo .. data.bounds[y].hi - 1 : y \in Breadth}
    BY DEF UnitCells
  <2> QED
    BY <1>2, <2>1, <2>2 DEF Boxes
<1>4. \A x \in Features : /\ low.box[x].lo = node.box[x].lo
                          /\ low.box[x].hi = IF x = f THEN t ELSE node.box[x].hi
  BY <1>1, <1>2 DEF Child, Boxes
<1>5. \A x \in Features : /\ high.box[x].lo = IF x = f THEN t ELSE node.box[x].lo
                          /\ high.box[x].hi = node.box[x].hi
  BY <1>1, <1>2 DEF Child, Boxes
<1> HIDE DEF low, high, f, t
<1>6. Holds(node.box, c, Breadth) => Holds(low.box, c, Breadth) \/ Holds(high.box, c, Breadth)
  BY <1>1, <1>3, <1>4, <1>5 DEF Holds
<1>7. Holds(low.box, c, Breadth) => Holds(node.box, c, Breadth)
  BY <1>1, <1>3, <1>4 DEF Holds
<1>8. Holds(high.box, c, Breadth) => Holds(node.box, c, Breadth)
  BY <1>1, <1>3, <1>5 DEF Holds
<1>9. ~(Holds(low.box, c, Breadth) /\ Holds(high.box, c, Breadth))
  BY <1>1, <1>3, <1>4, <1>5 DEF Holds
<1> QED
  BY <1>6, <1>7, <1>8, <1>9 DEF low, high

-----------------------------------------------------------------------------
LEMMA InitTree == Init => TreeInv
<1> SUFFICES ASSUME Init PROVE TreeInv
  OBVIOUS
<1>1. Rows = RowsOf(study)
  BY DEF Init, Rows, DatasetOf
<1>2. Cardinality(RowsOf(study)) # 0
  BY DEF Init, Usable
<1>3. Rows # {}
  BY <1>1, <1>2, FS_EmptySet
<1> QED
  BY <1>3 DEF Init, TreeInv, Started, Nodes, Pieces

\* The domain stays, so the cells to be covered are the same afterwards.
LEMMA TiledAfter ==
    ASSUME data' = data,
           \A c \in UnitCells(Breadth) :
               \E p \in Pieces' : /\ Holds(p.box, c, Breadth)
                                  /\ \A q \in Pieces' : Holds(q.box, c, Breadth) => q = p
    PROVE  Tiled'
<1>1. Breadth' = Breadth /\ UnitCells(Breadth)' = UnitCells(Breadth)
  BY DataFrame
<1>2. \A p, c : Holds(p.box, c, Breadth)' <=> Holds(p.box, c, Breadth)
  BY <1>1 DEF Holds
<1> QED
  BY <1>1, <1>2 DEF Tiled

\* The root holds every row and every cell of the domain.
LEMMA FitTree ==
    ASSUME TreeInv, NEW b \in Bootstraps, Fit(b)
    PROVE  TreeInv'
<1> DEFINE root == [box |-> data.bounds, rows |-> {n \in Rows : b[n] > 0}, depth |-> 0]
<1>1. /\ open' = {root} /\ leaves' = {} /\ data' = data /\ draw' = b
  BY DEF Fit, TreeInv, Started
<1>2. Rows # {} /\ Rows' # {} /\ (InDomain' <=> InDomain)
  BY <1>1, DataFrame DEF TreeInv
<1>3. Started'
  BY <1>1, <1>2 DEF Started, Bootstraps
<1>4. ASSUME InDomain PROVE Nodes'
  <2>1. /\ Pieces' = {root} /\ Features' = Features /\ Rows' = Rows /\ Boxes' = Boxes
        /\ \A e : Nested(e)' <=> Nested(e)
        /\ \A n, e : InBox(n, e)' <=> InBox(n, e)
    BY <1>1, DataFrame DEF Pieces
  <2>2. data.bounds \in Boxes /\ \A n \in Rows : InBox(n, data.bounds)
    BY <1>4 DEF InDomain
  <2>3. Nested(data.bounds)
    <3>1. PICK n \in Rows : TRUE
      BY <1>2
    <3>2. \A x \in Features : /\ data.bounds[x].lo <= data.x[n][x]
                              /\ data.x[n][x] <= data.bounds[x].hi
      BY <2>2 DEF InBox
    <3>3. \A x \in Features : /\ data.bounds[x].lo \in Int /\ data.bounds[x].hi \in Int
                              /\ data.x[n][x] \in Int
      BY <1>4 DEF InDomain, Boxes
    <3> QED
      BY <3>2, <3>3 DEF Nested
  <2>4. root.box = data.bounds /\ root.rows \subseteq Rows /\ DOMAIN root = {"box", "rows", "depth"}
    OBVIOUS
  <2> HIDE DEF root
  <2> QED
    BY <1>1, <2>1, <2>2, <2>3, <2>4 DEF Nodes
<1>5. ASSUME InDomain PROVE Tiled'
  <2>1. Pieces' = {root}
    BY <1>1 DEF Pieces
  <2>2. Breadth' = Breadth /\ UnitCells(Breadth)' = UnitCells(Breadth)
    BY <1>1, DataFrame
  <2>3. \A c \in UnitCells(Breadth) : Holds(root.box, c, Breadth)
    BY DEF UnitCells
  <2>4. SUFFICES ASSUME NEW c \in UnitCells(Breadth)
                 PROVE  \E p \in Pieces' : /\ Holds(p.box, c, Breadth)
                                           /\ \A q \in Pieces' : Holds(q.box, c, Breadth) => q = p
    BY <1>1, TiledAfter
  <2> HIDE DEF root
  <2> QED
    BY <2>1, <2>3
<1> QED
  BY <1>2, <1>3, <1>4, <1>5 DEF TreeInv

\* Only Fit changes anything but the nodes and leaves.
LEMMA GrowFrame ==
    ASSUME TreeInv, NEW node \in open, MakeLeaf(node) \/ Split(node)
    PROVE  /\ Started /\ Started'
           /\ data' = data /\ Features' = Features /\ Rows' = Rows
           /\ InDomain' <=> InDomain
           /\ UnitCells(Breadth)' = UnitCells(Breadth)
<1>1. data' = data /\ draw' = draw
  BY DEF MakeLeaf, Split
<1>2. Started
  BY DEF TreeInv
<1> QED
  BY <1>1, <1>2, DataFrame DEF Started

\* A leaf takes the place of its node.
LEMMA LeafTree ==
    ASSUME TreeInv, NEW node \in open, MakeLeaf(node)
    PROVE  TreeInv'
<1> DEFINE leaf == [box |-> node.box, value |-> Mean(node.rows)]
<1>1. open' = open \ {node} /\ leaves' = leaves \cup {leaf}
  BY DEF MakeLeaf
<1>2. /\ Started /\ Started' /\ data' = data /\ Features' = Features /\ Rows' = Rows
      /\ InDomain' <=> InDomain /\ UnitCells(Breadth)' = UnitCells(Breadth)
  BY GrowFrame
<1>3. leaf.box = node.box /\ DOMAIN leaf = {"box", "value"}
  OBVIOUS
<1> HIDE DEF leaf
<1>4. ASSUME InDomain PROVE Nodes'
  <2>1. /\ Boxes' = Boxes /\ \A b : Nested(b)' <=> Nested(b)
        /\ \A n, b : InBox(n, b)' <=> InBox(n, b)
    BY <1>2, DataFrame
  <2>2. Nodes /\ node \in Pieces
    BY <1>4 DEF TreeInv, Pieces
  <2>3. Pieces' \subseteq Pieces \cup {leaf}
    BY <1>1 DEF Pieces
  <2> QED
    BY <1>1, <1>2, <1>3, <2>1, <2>2, <2>3 DEF Nodes
<1>5. ASSUME InDomain PROVE Tiled'
  <2>1. Tiled
    BY <1>2, <1>5 DEF TreeInv
  <2>2. SUFFICES ASSUME NEW c \in UnitCells(Breadth)
                 PROVE  \E p \in Pieces' : /\ Holds(p.box, c, Breadth)
                                           /\ \A q \in Pieces' : Holds(q.box, c, Breadth) => q = p
    BY <1>2, TiledAfter
  <2>3. PICK p \in Pieces : /\ Holds(p.box, c, Breadth)
                            /\ \A q \in Pieces : Holds(q.box, c, Breadth) => q = p
    BY <2>1 DEF Tiled
  <2>4. \A q \in Pieces' : q \in Pieces \/ q = leaf
    BY <1>1 DEF Pieces
  <2>5. Nodes
    BY <1>5 DEF TreeInv
  <2>6. node \notin leaves
    BY <2>5 DEF Nodes
  <2>7. CASE p = node
    <3>1. leaf \in Pieces'
      BY <1>1 DEF Pieces
    <3>2. node \notin Pieces'
      BY <1>1, <1>3, <2>5, <2>6 DEF Pieces, Nodes
    <3> QED
      BY <1>3, <2>3, <2>4, <2>7, <3>1, <3>2
  <2>8. CASE p # node
    <3>1. p \in Pieces'
      BY <1>1, <2>8 DEF Pieces
    <3>2. ~Holds(node.box, c, Breadth)
      BY <2>3, <2>8 DEF Pieces
    <3> QED
      BY <1>3, <2>3, <2>4, <3>1, <3>2
  <2> QED
    BY <2>7, <2>8
<1> QED
  BY <1>2, <1>4, <1>5 DEF TreeInv

\* The sides of a split take the place of their node.
LEMMA SplitTree ==
    ASSUME TreeInv, NEW node \in open, Split(node)
    PROVE  TreeInv'
<1>1. PICK F \in FeatureChoices : \E s \in Best(node.rows, F) :
         open' = (open \ {node}) \cup {Child(node, s, TRUE), Child(node, s, FALSE)}
  BY DEF Split
<1>2. PICK s \in Best(node.rows, F) :
         open' = (open \ {node}) \cup {Child(node, s, TRUE), Child(node, s, FALSE)}
  BY <1>1
<1>3. F \in SUBSET Features
  BY DEF FeatureChoices
<1>4. leaves' = leaves
  BY DEF Split
<1>5. /\ Started /\ Started' /\ data' = data /\ Features' = Features /\ Rows' = Rows
      /\ InDomain' <=> InDomain /\ UnitCells(Breadth)' = UnitCells(Breadth)
  BY GrowFrame
<1> DEFINE low == Child(node, s, TRUE)  high == Child(node, s, FALSE)
<1>6. \A kid \in {low, high} : DOMAIN kid = {"box", "rows", "depth"}
  BY DEF Child
<1>7. ASSUME InDomain PROVE Nodes'
  <2>1. Nodes
    BY <1>7 DEF TreeInv
  <2>2. /\ Boxes' = Boxes /\ \A b : Nested(b)' <=> Nested(b)
        /\ \A n, b : InBox(n, b)' <=> InBox(n, b)
    BY <1>5, DataFrame
  <2>3. \A left \in BOOLEAN : Child(node, s, left).box \in Boxes /\ Nested(Child(node, s, left).box)
    BY <1>3, <1>7, <2>1, ChildNested
  <2>4. \A left \in BOOLEAN : /\ Child(node, s, left).rows \subseteq Rows
                              /\ \A n \in Child(node, s, left).rows :
                                    InBox(n, Child(node, s, left).box)
    BY <1>3, <1>7, <2>1, ChildRows
  <2> HIDE DEF low, high
  <2>5. \A kid \in {low, high} : /\ kid.box \in Boxes /\ Nested(kid.box)
                                 /\ kid.rows \subseteq Rows
                                 /\ \A n \in kid.rows : InBox(n, kid.box)
    BY <2>3, <2>4 DEF low, high
  <2>6. \A kid \in open' : kid \in open \/ kid \in {low, high}
    BY <1>2 DEF low, high
  <2>7. \A p \in Pieces' : p \in Pieces \/ p \in {low, high}
    BY <1>4, <2>6 DEF Pieces
  <2> QED
    BY <1>4, <1>5, <1>6, <2>1, <2>2, <2>5, <2>6, <2>7 DEF Nodes
<1>8. ASSUME InDomain PROVE Tiled'
  <2>1. Tiled /\ Nodes
    BY <1>5, <1>8 DEF TreeInv
  <2>2. SUFFICES ASSUME NEW c \in UnitCells(Breadth)
                 PROVE  \E p \in Pieces' : /\ Holds(p.box, c, Breadth)
                                           /\ \A q \in Pieces' : Holds(q.box, c, Breadth) => q = p
    BY <1>5, TiledAfter
  <2>3. PICK p \in Pieces : /\ Holds(p.box, c, Breadth)
                            /\ \A q \in Pieces : Holds(q.box, c, Breadth) => q = p
    BY <2>1 DEF Tiled
  <2>4. /\ Holds(node.box, c, Breadth) =>
               Holds(low.box, c, Breadth) \/ Holds(high.box, c, Breadth)
        /\ Holds(low.box, c, Breadth) \/ Holds(high.box, c, Breadth) =>
               Holds(node.box, c, Breadth)
        /\ ~(Holds(low.box, c, Breadth) /\ Holds(high.box, c, Breadth))
    BY <1>3, <1>8, <2>1, SidesPart
  <2> HIDE DEF low, high
  <2>5. /\ \A q \in Pieces' : q \in Pieces \/ q \in {low, high}
        /\ low \in Pieces' /\ high \in Pieces'
        /\ \A q \in Pieces : q # node => q \in Pieces'
    BY <1>2, <1>4 DEF Pieces, low, high
  <2>6. \A q \in Pieces' : q = node => q \in {low, high}
    BY <1>2, <1>4, <2>1 DEF Pieces, Nodes, low, high
  <2>7. CASE p = node
    BY <2>3, <2>4, <2>5, <2>6, <2>7
  <2>8. CASE p # node
    <3>1. ~Holds(node.box, c, Breadth)
      BY <2>3, <2>8 DEF Pieces
    <3> QED
      BY <2>3, <2>4, <2>5, <2>8, <3>1
  <2> QED
    BY <2>7, <2>8
<1> QED
  BY <1>5, <1>7, <1>8 DEF TreeInv

LEMMA StutterTree == TreeInv /\ UNCHANGED vars => TreeInv'
<1> SUFFICES ASSUME TreeInv, UNCHANGED vars PROVE TreeInv'
  OBVIOUS
<1>1. /\ data' = data /\ Started' = Started /\ open' = open /\ leaves' = leaves
      /\ Pieces' = Pieces
  BY DEF vars, Started, Pieces
<1>2. (InDomain' <=> InDomain) /\ Rows' = Rows
  BY <1>1, DataFrame
<1>3. Nodes' <=> Nodes
  BY <1>1, DataFrame DEF Nodes
<1>4. Tiled' <=> Tiled
  BY <1>1, DataFrame DEF Tiled, Holds
<1> QED
  BY <1>1, <1>2, <1>3, <1>4 DEF TreeInv

\* Whatever study, options, bootstrap and splits, the tree partitions the domain, so
\* every integral over its leaves is exact (fanova.rs:333-452).
THEOREM TreeTiles == Spec => []Tiles
<1>1. Init => TreeInv
  BY InitTree
<1>2. TreeInv /\ [Next]_vars => TreeInv'
  BY FitTree, LeafTree, SplitTree, StutterTree DEF Next
<1>3. TreeInv => Tiles
  BY DEF TreeInv, Started, Nodes, Tiled, Tiles
<1> QED
  BY <1>1, <1>2, <1>3, PTL DEF Spec

-----------------------------------------------------------------------------
(* The first split is that of the best stump *)

\* The values of a function with a finite domain are finitely many.
LEMMA ValuesFinite ==
    ASSUME NEW S, IsFiniteSet(S), NEW f, DOMAIN f = S, f = [x \in S |-> f[x]]
    PROVE  IsFiniteSet({f[x] : x \in S})
<1> DEFINE T == {f[x] : x \in S}
<1>1. f \in Surjection(S, T)
  BY DEF Surjection
<1> HIDE DEF T
<1>2. IsFiniteSet(T)
  BY <1>1, FS_Surjection
<1> QED
  BY <1>2 DEF T

\* A finite set of integers has a least one, and Min finds it.
LEMMA MinIsLeast ==
    ASSUME NEW S, S \subseteq Int, S # {}, IsFiniteSet(S)
    PROVE  Min(S) \in S /\ \A y \in S : Min(S) <= y
<1> DEFINE below(x) == {y \in S : y < x}
           sizes == {Cardinality(below(x)) : x \in S}
<1>1. \A x \in S : IsFiniteSet(below(x)) /\ Cardinality(below(x)) \in Nat
  BY FS_Subset, FS_CardinalityType
<1>2. sizes \subseteq Nat /\ sizes # {}
  BY <1>1
<1> HIDE DEF sizes
<1>3. PICK k \in sizes : \A j \in sizes : k <= j
  BY <1>2, LeastNatural
<1>4. PICK x \in S : k = Cardinality(below(x))
  BY DEF sizes
<1>5. ASSUME NEW y \in S, y < x PROVE FALSE
  <2>1. below(y) \subseteq below(x) /\ y \in below(x) /\ y \notin below(y)
    <3>1. x \in Int /\ y \in Int /\ \A z \in S : z \in Int
      OBVIOUS
    <3>2. \A z \in S : z < y => z < x
      BY <1>5, <3>1
    <3>3. y < x /\ ~(y < y)
      BY <1>5, <3>1
    <3> QED
      BY <3>2, <3>3, Zenon
  <2>2. Cardinality(below(y)) < Cardinality(below(x))
    <3> HIDE DEF below
    <3>1. Cardinality(below(y)) <= Cardinality(below(x))
      BY <1>1, <2>1, FS_Subset
    <3>2. Cardinality(below(y)) # Cardinality(below(x))
      BY <1>1, <2>1, FS_Subset
    <3> QED
      BY <1>1, <3>1, <3>2
  <2>3. Cardinality(below(y)) \in sizes
    BY DEF sizes
  <2> QED
    BY <1>1, <1>3, <1>4, <2>2, <2>3
<1>6. \E z \in S : \A y \in S : z <= y
  BY <1>5
<1> QED
  BY <1>6 DEF Min

LEMMA ExpUnfolds ==
    /\ Exp \in [Nat -> Nat \ {0}]
    /\ \A k \in Nat : Exp[k] < Exp[k + 1]
<1>1. Exp = PowersOf(2)
  BY DEF Exp, PowersOf, ArePowers
<1> DEFINE b == 2
<1>2. b \in Nat \ {0} /\ Exp = PowersOf(b)
  BY <1>1
<1> HIDE DEF b
<1>3. Exp \in [Nat -> Nat \ {0}] /\ \A k \in Nat : Exp[k + 1] = b * Exp[k]
  BY <1>2, PowersUnfold
<1> QED
  BY <1>3 DEF b

LEMMA ExpMonotone ==
    ASSUME NEW i \in Nat, NEW j \in Nat
    PROVE  i < j <=> Exp[i] < Exp[j]
<1>1. \A k, m \in Nat : k <= m => Exp[k] <= Exp[m]
  <2>1. Exp = PowersOf(2)
    BY DEF Exp, PowersOf, ArePowers
  <2> QED
    BY <2>1, PowersGrow
<1>2. \A k \in Nat : Exp[k] \in Nat /\ Exp[k] < Exp[k + 1]
  BY ExpUnfolds
<1>3. CASE i < j
  <2>1. Exp[i + 1] <= Exp[j]
    BY <1>1, <1>3
  <2> QED
    BY <1>2, <1>3, <2>1
<1>4. CASE j <= i
  BY <1>1, <1>2, <1>4
<1> QED
  BY <1>3, <1>4

\* The spread of trials with numbers for values is a number.
LEMMA SpreadIsInt ==
    ASSUME NEW h, NEW S, IsFiniteSet(S), \A n \in S : h[n].value \in Int
    PROVE  Spread(h, S) \in Int
<1> DEFINE f == [n \in S |-> h[n].value]
           q == [n \in S |-> h[n].value * h[n].value]
<1>1. f \in [S -> Int] /\ q \in [S -> Int]
  OBVIOUS
<1> HIDE DEF f, q
<1>2. SumFunction(f) \in Int /\ SumFunction(q) \in Int /\ Cardinality(S) \in Nat
  BY <1>1, SumStep, FS_CardinalityType
<1>3. \A n \in Nat, s, r \in Int : Errors(n, s, r) \in Int
  <2> SUFFICES ASSUME NEW n \in Nat, NEW s \in Int, NEW r \in Int
               PROVE  Errors(n, s, r) \in Int
    OBVIOUS
  <2> DEFINE u == Scale \div n
             w == n * r - s * s
  <2>1. CASE n = 0
    BY <2>1 DEF Errors
  <2>2. CASE n # 0
    <3>1. Errors(n, s, r) = u * w
      BY <2>2 DEF Errors
    <3>2. u \in Int
      BY <2>2, ScaleAssumption
    <3>3. n * r \in Int /\ s * s \in Int
      OBVIOUS
    <3>4. w \in Int
      BY <3>3
    <3> HIDE DEF u, w
    <3>5. \A a, c \in Int : a * c \in Int
      OBVIOUS
    <3> QED
      BY <3>1, <3>2, <3>4, <3>5
  <2> QED
    BY <2>1, <2>2
<1> QED
  BY <1>2, <1>3 DEF Spread, f, q

\* Where every row is drawn once, the error of the tree is the spread of the trials.
LEMMA ErrorIsSpread ==
    ASSUME draw = [n \in Rows |-> 1], NEW S \in SUBSET Rows, IsFiniteSet(S),
           \A n \in Rows : data.y[n] = study[n].value /\ data.y[n] \in Int
    PROVE  Error(S) = Spread(study, S)
<1>1. \A n \in S : draw[n] = 1
  OBVIOUS
<1>2. [n \in S |-> draw[n]] = [n \in S |-> 1]
  BY <1>1
<1>3. Drawn(S) = Cardinality(S)
  BY <1>2, SumOfOnes DEF Drawn
<1>4. \A n \in S : /\ draw[n] * data.y[n] = study[n].value
                   /\ draw[n] * (data.y[n] * data.y[n]) = study[n].value * study[n].value
  <2> SUFFICES ASSUME NEW n \in S
               PROVE  /\ 1 * data.y[n] = study[n].value
                      /\ 1 * (data.y[n] * data.y[n]) = study[n].value * study[n].value
    BY <1>1
  <2>1. data.y[n] \in Int /\ data.y[n] = study[n].value
    OBVIOUS
  <2>2. \A v \in Int : v * v \in Int
    OBVIOUS
  <2> QED
    BY <2>1, <2>2
<1>5. Total(S) = SumFunction([n \in S |-> study[n].value])
  <2>1. [n \in S |-> draw[n] * data.y[n]] = [n \in S |-> study[n].value]
    BY <1>4
  <2> QED
    BY <2>1 DEF Total
<1>6. Squares(S) = SumFunction([n \in S |-> study[n].value * study[n].value])
  <2>1. [n \in S |-> draw[n] * (data.y[n] * data.y[n])]
            = [n \in S |-> study[n].value * study[n].value]
    BY <1>4
  <2> QED
    BY <2>1 DEF Squares
<1> QED
  BY <1>3, <1>5, <1>6 DEF Error, Spread

\* What a part of a sum lacks of the whole is the sum of the rest.
LEMMA SumOfRest ==
    ASSUME NEW S, IsFiniteSet(S), NEW L \in SUBSET S, NEW f, \A x \in S : f[x] \in Int
    PROVE  SumOver(f, S) - SumOver(f, L) = SumOver(f, S \ L)
<1> DEFINE P == {T \in SUBSET S : SumOver(f, T) = SumOver(f, T \cap L) + SumOver(f, T \ L)}
<1>1. \A T \in SUBSET S : /\ SumOver(f, T) \in Int /\ (T = {} => SumOver(f, T) = 0)
                          /\ \A x \in T : SumOver(f, T) = f[x] + SumOver(f, T \ {x})
  <2> SUFFICES ASSUME NEW T \in SUBSET S
               PROVE  /\ SumOver(f, T) \in Int /\ (T = {} => SumOver(f, T) = 0)
                      /\ \A x \in T : SumOver(f, T) = f[x] + SumOver(f, T \ {x})
    OBVIOUS
  <2>1. IsFiniteSet(T) /\ \A x \in T : f[x] \in Int
    BY FS_Subset
  <2> QED
    BY <2>1, SumOverStep
<1>2. ASSUME NEW T \in SUBSET S, \A U \in SUBSET T : U # T => U \in P PROVE T \in P
  <2> SUFFICES SumOver(f, T) = SumOver(f, T \cap L) + SumOver(f, T \ L)
    OBVIOUS
  <2>1. CASE T = {}
    <3>1. T \cap L = {} /\ T \ L = {}
      BY <2>1
    <3> QED
      BY <1>1, <2>1, <3>1
  <2>2. CASE T # {}
    <3>1. PICK x \in T : TRUE
      BY <2>2
    <3> DEFINE U == T \ {x}
    <3>2. U \in SUBSET T /\ U # T /\ U \in SUBSET S
      BY <3>1
    <3>3. SumOver(f, U) = SumOver(f, U \cap L) + SumOver(f, U \ L)
      BY <1>2, <3>2
    <3>4. SumOver(f, T) = f[x] + SumOver(f, U)
      BY <1>1
    <3>5. /\ T \cap L \in SUBSET S /\ T \ L \in SUBSET S
          /\ U \cap L \in SUBSET S /\ U \ L \in SUBSET S
      OBVIOUS
    <3> DEFINE p == SumOver(f, U \cap L)  q == SumOver(f, U \ L)
    <3>6. /\ f[x] \in Int /\ p \in Int /\ q \in Int /\ SumOver(f, T) = f[x] + (p + q)
      BY <1>1, <3>3, <3>4, <3>5
    <3>7. CASE x \in L
      <4>1. U \cap L = (T \cap L) \ {x} /\ U \ L = T \ L /\ x \in T \cap L
        BY <3>7
      <4>2. SumOver(f, T \cap L) = f[x] + SumOver(f, (T \cap L) \ {x})
        BY <1>1, <3>5, <4>1
      <4> HIDE DEF U
      <4>3. SumOver(f, T \cap L) = f[x] + p /\ SumOver(f, T \ L) = q
        BY <4>1, <4>2
      <4> HIDE DEF p, q
      <4> QED
        BY <3>6, <4>3
    <3>8. CASE x \notin L
      <4>1. U \ L = (T \ L) \ {x} /\ U \cap L = T \cap L /\ x \in T \ L
        BY <3>8
      <4>2. SumOver(f, T \ L) = f[x] + SumOver(f, (T \ L) \ {x})
        BY <1>1, <3>5, <4>1
      <4> HIDE DEF U
      <4>3. SumOver(f, T \ L) = f[x] + q /\ SumOver(f, T \cap L) = p
        BY <4>1, <4>2
      <4> HIDE DEF p, q
      <4> QED
        BY <3>6, <4>3
    <3> QED
      BY <3>7, <3>8
  <2> QED
    BY <2>1, <2>2
<1>3. S \in P
  <2> HIDE DEF P
  <2> QED
    BY <1>2, Subsetwise
<1>4. SumOver(f, S) = SumOver(f, L) + SumOver(f, S \ L)
  <2>1. S \cap L = L
    OBVIOUS
  <2> QED
    BY <1>3, <2>1
<1>5. SumOver(f, L) \in Int /\ SumOver(f, S \ L) \in Int
  BY <1>1
<1> QED
  BY <1>4, <1>5

\* The cost of a split, by prefix sums, is the error of its two sides.
LEMMA CostOfSides ==
    ASSUME NEW S, IsFiniteSet(S), \A n \in S : draw[n] \in Int /\ data.y[n] \in Int, NEW s
    PROVE  Cost(S, s) = Error(Prefix(S, s)) + Error(S \ Prefix(S, s))
<1> DEFINE L == Prefix(S, s)
           d == [n \in S |-> draw[n]]
           y == [n \in S |-> draw[n] * data.y[n]]
           q == [n \in S |-> draw[n] * (data.y[n] * data.y[n])]
<1>1. L \in SUBSET S
  BY DEF Prefix
<1>2. \A n \in S : d[n] \in Int /\ y[n] \in Int /\ q[n] \in Int
  <2>1. \A u, v \in Int : u * v \in Int
    OBVIOUS
  <2>2. \A n \in S : draw[n] * data.y[n] \in Int /\ draw[n] * (data.y[n] * data.y[n]) \in Int
    BY <2>1
  <2> QED
    BY <2>2
<1>3. \A T \in SUBSET S : Drawn(T) = SumOver(d, T) /\ Total(T) = SumOver(y, T)
                            /\ Squares(T) = SumOver(q, T)
  <2> SUFFICES ASSUME NEW T \in SUBSET S
               PROVE  Drawn(T) = SumOver(d, T) /\ Total(T) = SumOver(y, T)
                      /\ Squares(T) = SumOver(q, T)
    OBVIOUS
  <2>1. /\ [n \in T |-> draw[n]] = [n \in T |-> d[n]]
        /\ [n \in T |-> draw[n] * data.y[n]] = [n \in T |-> y[n]]
        /\ [n \in T |-> draw[n] * (data.y[n] * data.y[n])] = [n \in T |-> q[n]]
    OBVIOUS
  <2> HIDE DEF d, y, q
  <2> QED
    BY <2>1 DEF Drawn, Total, Squares, SumOver
<1> HIDE DEF d, y, q
<1>4. /\ SumOver(d, S) - SumOver(d, L) = SumOver(d, S \ L)
      /\ SumOver(y, S) - SumOver(y, L) = SumOver(y, S \ L)
      /\ SumOver(q, S) - SumOver(q, L) = SumOver(q, S \ L)
  BY <1>1, <1>2, SumOfRest
<1>5. Cost(S, s) = Error(L) + Errors(Drawn(S) - Drawn(L), Total(S) - Total(L), Squares(S) - Squares(L))
  BY DEF Cost
<1> HIDE DEF L
<1>6. S \in SUBSET S /\ S \ L \in SUBSET S
  OBVIOUS
<1> QED
  BY <1>1, <1>3, <1>4, <1>5, <1>6 DEF Error, L

(* What is reported, and the coordinates made of it. *)
Charted == study \in Studies /\ Usable(study) /\ data = DatasetOf(study)

Numbers == \A n \in Rows, x \in Features : ~IsLabel(RecordOf(study[n], x).value)

NumOf(n, x) == RecordOf(study[n], x).value.num

LEMMA RowFacts ==
    ASSUME Charted
    PROVE  /\ Features = Names(study) /\ Rows # {}
           /\ Rows \subseteq CompletedTrials(study) /\ CompletedTrials(study) \subseteq Nat
           /\ IsFiniteSet(CompletedTrials(study)) /\ IsFiniteSet(Rows)
           /\ \A n \in Rows : data.y[n] = study[n].value
           /\ \A n \in Rows, x \in Features : /\ data.x[n][x] = CoordinateOf(study, n, x)
                                              /\ data.x[n][x] # None
<1>1. Features = Names(study) /\ Rows = RowsOf(study)
  BY DEF Charted, Features, Rows, DatasetOf
<1>2. DOMAIN study \subseteq Nat /\ IsFiniteSet(DOMAIN study)
  BY StudiesAssumption DEF Charted
<1>3. Rows \subseteq CompletedTrials(study) /\ CompletedTrials(study) \subseteq DOMAIN study
  BY <1>1 DEF RowsOf, CompletedTrials
<1>4. IsFiniteSet(CompletedTrials(study)) /\ IsFiniteSet(Rows)
  BY <1>2, <1>3, FS_Subset
<1>5. Rows # {}
  <2>1. Cardinality(RowsOf(study)) # 0
    BY DEF Charted, Usable
  <2> QED
    BY <1>1, <2>1, FS_EmptySet
<1>6. \A n \in Rows : data.y[n] = study[n].value
  BY <1>1 DEF Charted, DatasetOf
<1>7. \A n \in Rows, x \in Features : /\ data.x[n][x] = CoordinateOf(study, n, x)
                                      /\ data.x[n][x] # None
  BY <1>1 DEF Charted, DatasetOf, RowsOf
<1> QED
  BY <1>1, <1>2, <1>3, <1>4, <1>5, <1>6, <1>7

LEMMA RecordFacts ==
    ASSUME Charted, NEW n \in CompletedTrials(study), NEW x, RecordOf(study[n], x) # None
    PROVE  RecordOf(study[n], x) \in ParamRecord /\ x \in Keys(study[n].params)
<1>1. study[n].params \in Seq(Entry(STRING, ParamRecord))
  BY StudiesAssumption DEF Charted
<1>2. RecordOf(study[n], x) \in ParamRecord
  BY <1>1, LookupType DEF RecordOf
<1>3. Slots(study[n].params, x) # {}
  BY DEF RecordOf, Lookup
<1> QED
  BY <1>2, <1>3 DEF Slots, Keys

LEMMA DistFacts ==
    ASSUME Charted, NEW x, Having(study, x) # {}
    PROVE  DistOf(study, x) \in Distribution
<1>1. /\ Having(study, x) \subseteq CompletedTrials(study)
      /\ \A n \in Having(study, x) : RecordOf(study[n], x) # None
  BY DEF Having
<1>2. Having(study, x) \subseteq Int /\ IsFiniteSet(Having(study, x))
  BY <1>1, RowFacts, FS_Subset
<1>3. Min(Having(study, x)) \in Having(study, x)
  BY <1>2, MinIsLeast
<1>4. RecordOf(study[Min(Having(study, x))], x) \in ParamRecord
  BY <1>1, <1>3, RecordFacts
<1> QED
  BY <1>4 DEF ParamRecord, DistOf

\* The coordinate of a number: itself or its logarithm, doubled.
LEMMA CoordinateFacts ==
    ASSUME Charted, Numbers, NEW n \in Rows, NEW x \in Features
    PROVE  /\ RecordOf(study[n], x) # None
           /\ NumOf(n, x) \in Int
           /\ IF DistOf(study, x).kind = "LogUniform"
              THEN \E k \in Nat : NumOf(n, x) = Exp[k] /\ data.x[n][x] = 2 * k
              ELSE data.x[n][x] = 2 * NumOf(n, x)
<1> DEFINE d == DistOf(study, x)
           v == RecordOf(study[n], x).value
<1>1. n \in CompletedTrials(study)
  BY RowFacts
<1>2. data.x[n][x] = CoordinateOf(study, n, x) /\ CoordinateOf(study, n, x) # None
  BY RowFacts
<1>3. RecordOf(study[n], x) # None /\ data.x[n][x] = Coordinate(d, v) /\ data.x[n][x] # None
  BY <1>2 DEF CoordinateOf
<1>4. RecordOf(study[n], x) \in ParamRecord /\ x \in Keys(study[n].params)
  BY <1>1, <1>3, RecordFacts
<1>5. v \in Value /\ v.type # "Categorical"
  BY <1>4 DEF ParamRecord, Numbers, IsLabel
<1>6. d \in Distribution
  <2>1. n \in Having(study, x)
    BY <1>1, <1>3 DEF Having
  <2> QED
    BY <2>1, DistFacts
<1>7. DistOf(study, x).kind = "LogUniform" /\ v.type = "Float" /\ v.num > 0 =>
          \E k \in 0 .. v.num : Exp[k] = v.num
  BY <1>1, <1>4, StudiesAssumption DEF Charted
<1>8. NumOf(n, x) = v.num
  BY DEF NumOf
<1> HIDE DEF d, v
<1>9. v.num \in Int /\ v.type \in {"Float", "Int"}
  BY <1>5 DEF Value
<1>10. v.type = TypeOf(d)
  BY <1>3 DEF Coordinate, VariantMatches
<1>11. d.kind \in NumericKinds
  <2>1. d.kind \in NumericKinds \cup {"Categorical"}
    BY <1>6 DEF Distribution
  <2>2. d.kind # "Categorical"
    BY <1>9, <1>10 DEF TypeOf
  <2> QED
    BY <2>1, <2>2
<1>12. CASE d.kind = "LogUniform"
  <2>1. v.num > 0 /\ data.x[n][x] = 2 * Ln(v.num)
    BY <1>3, <1>12 DEF Coordinate
  <2>2. v.type = "Float"
    BY <1>10, <1>12 DEF TypeOf
  <2>3. \E k \in 0 .. v.num : Exp[k] = v.num
    BY <1>7, <1>12, <2>1, <2>2 DEF d
  <2>4. Ln(v.num) \in 0 .. v.num /\ Exp[Ln(v.num)] = v.num
    BY <2>3 DEF Ln
  <2>5. Ln(v.num) \in Nat
    BY <1>9, <2>1, <2>4
  <2> QED
    BY <1>3, <1>8, <1>9, <1>12, <2>1, <2>4, <2>5 DEF d
<1>13. CASE d.kind # "LogUniform"
  <2>1. data.x[n][x] = 2 * v.num
    BY <1>3, <1>11, <1>13 DEF Coordinate, NumericKinds
  <2> QED
    BY <1>3, <1>8, <1>9, <1>13, <2>1 DEF d
<1> QED
  BY <1>12, <1>13

\* Coordinates are even, and in the order of the values.
LEMMA CoordinatesOrder ==
    ASSUME Charted, Numbers, NEW m \in Rows, NEW n \in Rows, NEW x \in Features
    PROVE  /\ \E i, j \in Int : data.x[m][x] = 2 * i /\ data.x[n][x] = 2 * j
           /\ data.x[m][x] < data.x[n][x] <=> NumOf(m, x) < NumOf(n, x)
<1>1. CASE DistOf(study, x).kind = "LogUniform"
  <2>1. PICK i \in Nat : NumOf(m, x) = Exp[i] /\ data.x[m][x] = 2 * i
    BY <1>1, CoordinateFacts
  <2>2. PICK j \in Nat : NumOf(n, x) = Exp[j] /\ data.x[n][x] = 2 * j
    BY <1>1, CoordinateFacts
  <2>3. i < j <=> Exp[i] < Exp[j]
    BY ExpMonotone
  <2> QED
    BY <2>1, <2>2, <2>3
<1>2. CASE DistOf(study, x).kind # "LogUniform"
  <2>1. /\ data.x[m][x] = 2 * NumOf(m, x) /\ NumOf(m, x) \in Int
        /\ data.x[n][x] = 2 * NumOf(n, x) /\ NumOf(n, x) \in Int
    BY <1>2, CoordinateFacts
  <2> QED
    BY <2>1
<1> QED
  BY <1>1, <1>2

(* Splits of the root and cuts of the stump. *)
OnceEach == draw = [n \in Rows |-> 1]

LEMMA SplitIsCut ==
    ASSUME Charted, Numbers, Measured, OnceEach, NEW a \in Rows, NEW b \in Rows,
           NEW x \in Features, NEW s,
           s = [feature   |-> x, last |-> data.x[a][x],
                threshold |-> (data.x[a][x] + data.x[b][x]) \div 2]
    PROVE  Cost(Rows, s) = Cut(study, Rows, x, NumOf(a, x))
<1>1. s.feature = x /\ s.last = data.x[a][x]
  OBVIOUS
<1>2. ASSUME NEW n \in Rows
      PROVE  /\ data.x[n][x] <= s.last <=> NumOf(n, x) <= NumOf(a, x)
             /\ NumOf(n, x) <= NumOf(a, x) <=> ~(NumOf(n, x) > NumOf(a, x))
  <2>1. PICK k, l \in Int : data.x[n][x] = 2 * k /\ data.x[a][x] = 2 * l
    BY CoordinatesOrder
  <2>2. data.x[n][x] <= s.last <=> ~(data.x[a][x] < data.x[n][x])
    BY <1>1, <2>1
  <2>3. data.x[a][x] < data.x[n][x] <=> NumOf(a, x) < NumOf(n, x)
    BY CoordinatesOrder
  <2>4. NumOf(a, x) \in Int /\ NumOf(n, x) \in Int
    BY CoordinateFacts
  <2> QED
    BY <2>2, <2>3, <2>4
<1>3. Prefix(Rows, s) = {n \in Rows : RecordOf(study[n], x).value.num <= NumOf(a, x)}
  BY <1>1, <1>2 DEF Prefix, NumOf
<1>4. Rows \ Prefix(Rows, s) = {n \in Rows : RecordOf(study[n], x).value.num > NumOf(a, x)}
  BY <1>2, <1>3 DEF NumOf
<1>5. \A n \in Rows : data.y[n] = study[n].value /\ data.y[n] \in Int
  BY RowFacts DEF Measured
<1>6. \A S \in SUBSET Rows : Error(S) = Spread(study, S)
  <2>1. \A S \in SUBSET Rows : IsFiniteSet(S)
    BY RowFacts, FS_Subset
  <2> QED
    BY <1>5, <2>1, ErrorIsSpread DEF OnceEach
<1>7. Cost(Rows, s) = Spread(study, Prefix(Rows, s)) + Spread(study, Rows \ Prefix(Rows, s))
  <2>1. Prefix(Rows, s) \in SUBSET Rows /\ Rows \ Prefix(Rows, s) \in SUBSET Rows
    BY DEF Prefix
  <2>2. IsFiniteSet(Rows) /\ \A n \in Rows : draw[n] \in Int /\ data.y[n] \in Int
    BY <1>5, RowFacts DEF OnceEach
  <2>3. Cost(Rows, s) = Error(Prefix(Rows, s)) + Error(Rows \ Prefix(Rows, s))
    BY <2>2, CostOfSides
  <2> QED
    BY <1>6, <2>1, <2>3
<1> QED
  BY <1>3, <1>4, <1>7 DEF Cut

\* A row that is not the last in x has a neighbour.
LEMMA NextRow ==
    ASSUME Charted, Numbers, NEW a \in Rows, NEW x \in Features, NEW c \in Rows,
           NumOf(c, x) > NumOf(a, x)
    PROVE  \E b \in Rows : Neighbours(Rows, a, b, x)
<1> DEFINE above == {n \in Rows : data.x[a][x] < data.x[n][x]}
           xs == {data.x[n][x] : n \in above}
<1>1. data.x[a][x] < data.x[c][x]
  BY CoordinatesOrder, CoordinateFacts
<1>2. \A n \in Rows : data.x[n][x] \in Int
  BY CoordinatesOrder
<1>3. IsFiniteSet(above)
  BY RowFacts, FS_Subset
<1>4. c \in above /\ above \subseteq Rows
  BY <1>1
<1>5. IsFiniteSet(xs) /\ xs # {} /\ xs \subseteq Int
  <2> DEFINE f == [n \in above |-> data.x[n][x]]
  <2> HIDE DEF above
  <2>1. xs = {f[n] : n \in above}
    OBVIOUS
  <2>2. f = [n \in above |-> f[n]] /\ DOMAIN f = above
    OBVIOUS
  <2>3. IsFiniteSet(xs)
    <3> HIDE DEF f
    <3> QED
      BY <1>3, <2>1, <2>2, ValuesFinite
  <2> QED
    BY <1>2, <1>4, <2>3
<1> HIDE DEF xs
<1>6. Min(xs) \in xs /\ \A u \in xs : Min(xs) <= u
  BY <1>5, MinIsLeast
<1>7. PICK b \in above : Min(xs) = data.x[b][x]
  BY <1>6 DEF xs
<1>8. \A n \in above : data.x[b][x] <= data.x[n][x]
  BY <1>6, <1>7 DEF xs
<1> QED
  BY <1>2, <1>7, <1>8 DEF Neighbours

\* The costs of the stump's cuts on x.
Cuts(x) ==
    {Cut(study, Rows, x, NumOf(n, x)) :
        n \in {m \in Rows : \E k \in Rows : NumOf(k, x) > NumOf(m, x)}}

LEMMA CutsFinite ==
    ASSUME Charted, Numbers, Measured, NEW x \in Features
    PROVE  Cuts(x) \subseteq Int /\ IsFiniteSet(Cuts(x))
<1>1. \A S \in SUBSET Rows : Spread(study, S) \in Int
  <2>1. \A S \in SUBSET Rows : IsFiniteSet(S)
    BY RowFacts, FS_Subset
  <2>2. \A n \in Rows : study[n].value \in Int
    BY RowFacts DEF Measured
  <2> QED
    BY <2>1, <2>2, SpreadIsInt
<1>2. \A u : Cut(study, Rows, x, u) \in Int
  <2> SUFFICES ASSUME NEW u PROVE Cut(study, Rows, x, u) \in Int
    OBVIOUS
  <2> DEFINE low  == {n \in Rows : RecordOf(study[n], x).value.num <= u}
             high == {n \in Rows : RecordOf(study[n], x).value.num > u}
  <2>1. low \in SUBSET Rows /\ high \in SUBSET Rows
    OBVIOUS
  <2>2. Cut(study, Rows, x, u) = Spread(study, low) + Spread(study, high)
    BY DEF Cut
  <2> HIDE DEF low, high
  <2> QED
    BY <1>1, <2>1, <2>2
<1> DEFINE S == {m \in Rows : \E k \in Rows : NumOf(k, x) > NumOf(m, x)}
           f == [n \in S |-> Cut(study, Rows, x, NumOf(n, x))]
<1>3. IsFiniteSet(S)
  BY RowFacts, FS_Subset
<1>4. Cuts(x) = {f[n] : n \in S}
  BY DEF Cuts
<1>5. f = [n \in S |-> f[n]] /\ DOMAIN f = S
  OBVIOUS
<1>6. \A n \in S : f[n] \in Int
  BY <1>2
<1> HIDE DEF S, f
<1> QED
  BY <1>3, <1>4, <1>5, <1>6, ValuesFinite

LEMMA StumpForm ==
    ASSUME Charted, Numbers, Rows = CompletedTrials(study), NEW x \in Features
    PROVE  Stump(study, x).explained =
               IF Spread(study, Rows) = 0 THEN 0
               ELSE Spread(study, Rows) - Min({Spread(study, Rows)} \cup Cuts(x))
<1>1. Having(study, x) = Rows
  BY CoordinateFacts DEF Having
<1>2. \A n \in Rows : ~IsLabel(RecordOf(study[n], x).value)
  BY DEF Numbers
<1> DEFINE nums == {n \in Rows : ~IsLabel(RecordOf(study[n], x).value)}
<1>3. nums = Rows /\ Rows # {}
  BY <1>2, RowFacts
<1> DEFINE bare == {Cut(study, nums, x, RecordOf(study[n], x).value.num) :
               n \in {m \in nums : \E k \in nums : RecordOf(study[k], x).value.num
                                                       > RecordOf(study[m], x).value.num}}
<1>4. bare = Cuts(x)
  BY <1>3 DEF Cuts, NumOf
<1>5. Stump(study, x).explained =
          IF Spread(study, Rows) = 0 THEN 0
          ELSE Spread(study, Rows) - (IF nums = {} THEN Grouped(study, Rows, x)
                                      ELSE Min({Spread(study, Rows)} \cup bare))
  BY <1>1 DEF Stump
<1> HIDE DEF nums, bare
<1> QED
  BY <1>3, <1>4, <1>5

\* The feature of the cheapest split explains most.
LEMMA BestIsTop ==
    ASSUME Charted, Numbers, Measured, OnceEach, Rows = CompletedTrials(study),
           NEW s \in Best(Rows, Features), NEW y \in Features
    PROVE  /\ s.feature \in Features
           /\ Stump(study, y).explained <= Stump(study, s.feature).explained
<1>1. s \in Splits(Rows, Features) /\ \A r \in Splits(Rows, Features) : Cost(Rows, s) <= Cost(Rows, r)
  BY DEF Best
<1>2. PICK t \in Rows \X Rows \X Features :
         /\ Neighbours(Rows, t[1], t[2], t[3])
         /\ s = [feature   |-> t[3], last |-> data.x[t[1]][t[3]],
                 threshold |-> (data.x[t[1]][t[3]] + data.x[t[2]][t[3]]) \div 2]
  BY <1>1 DEF Splits
<1> DEFINE a == t[1]  b == t[2]  x == t[3]  total == Spread(study, Rows)
<1>3. a \in Rows /\ b \in Rows /\ x \in Features /\ s.feature = x
  BY <1>2
<1>4. Neighbours(Rows, a, b, x)
  BY <1>2
<1>5. s = [feature   |-> x, last |-> data.x[a][x],
           threshold |-> (data.x[a][x] + data.x[b][x]) \div 2]
  BY <1>2
<1> HIDE DEF a, b, x
<1>6. Cost(Rows, s) = Cut(study, Rows, x, NumOf(a, x))
  BY <1>3, <1>4, <1>5, SplitIsCut
<1>7. Cost(Rows, s) \in Cuts(x)
  <2>1. NumOf(b, x) > NumOf(a, x)
    BY <1>3, <1>4, CoordinatesOrder, CoordinateFacts DEF Neighbours
  <2> QED
    BY <1>3, <1>6, <2>1 DEF Cuts
<1>8. ASSUME NEW u \in Cuts(y) PROVE Cost(Rows, s) <= u
  <2>1. PICK n \in Rows : /\ \E k \in Rows : NumOf(k, y) > NumOf(n, y)
                          /\ u = Cut(study, Rows, y, NumOf(n, y))
    BY DEF Cuts
  <2>2. PICK c \in Rows : Neighbours(Rows, n, c, y)
    BY <2>1, NextRow
  <2> DEFINE r == [feature   |-> y, last |-> data.x[n][y],
                   threshold |-> (data.x[n][y] + data.x[c][y]) \div 2]
  <2>3. r \in Splits(Rows, Features)
    <3>1. <<n, c, y>> \in {w \in Rows \X Rows \X Features : Neighbours(Rows, w[1], w[2], w[3])}
      BY <2>2
    <3> QED
      BY <3>1 DEF Splits
  <2>4. Cost(Rows, r) = u
    BY <2>1, <2>2, SplitIsCut
  <2> QED
    BY <1>1, <2>3, <2>4
<1>9. total \in Int
  <2>1. \A n \in Rows : study[n].value \in Int
    BY RowFacts DEF Measured
  <2> QED
    BY <2>1, RowFacts, SpreadIsInt
<1>10. \A z \in Features : LET C == {total} \cup Cuts(z)
                           IN  Min(C) \in C /\ Min(C) \in Int /\ \A u \in C : Min(C) <= u
  <2> SUFFICES ASSUME NEW z \in Features, NEW C, C = {total} \cup Cuts(z)
               PROVE  Min(C) \in C /\ Min(C) \in Int /\ \A u \in C : Min(C) <= u
    OBVIOUS
  <2>1. Cuts(z) \subseteq Int /\ IsFiniteSet(Cuts(z))
    BY CutsFinite
  <2>2. IsFiniteSet(C)
    BY <2>1, FS_AddElement
  <2>3. C \subseteq Int /\ C # {}
    BY <1>9, <2>1
  <2> QED
    BY <2>2, <2>3, MinIsLeast
<1>11. Min({total} \cup Cuts(x)) <= Min({total} \cup Cuts(y))
  <2>1. Min({total} \cup Cuts(x)) <= total /\ Min({total} \cup Cuts(x)) <= Cost(Rows, s)
    BY <1>3, <1>7, <1>10
  <2>2. CASE Min({total} \cup Cuts(y)) = total
    BY <2>1, <2>2
  <2>3. CASE Min({total} \cup Cuts(y)) \in Cuts(y)
    <3>1. Cost(Rows, s) <= Min({total} \cup Cuts(y))
      BY <1>8, <2>3
    <3>2. Cost(Rows, s) \in Int
      BY <1>3, <1>7, CutsFinite
    <3> QED
      BY <1>3, <1>10, <2>1, <3>1, <3>2
  <2> QED
    BY <1>10, <2>2, <2>3
<1>12. \A z \in Features : Stump(study, z).explained =
                               IF total = 0 THEN 0 ELSE total - Min({total} \cup Cuts(z))
  BY StumpForm
<1>13. Min({total} \cup Cuts(x)) \in Int /\ Min({total} \cup Cuts(y)) \in Int
  BY <1>3, <1>10
<1> HIDE DEF total
<1> QED
  BY <1>3, <1>9, <1>11, <1>12, <1>13

-----------------------------------------------------------------------------
(* The tree of all the rows. *)

\* Boxes side by side in a dimension in which both have width.
Apart(b, c) ==
    \E x \in Features : /\ b[x].lo < b[x].hi /\ c[x].lo < c[x].hi
                        /\ b[x].hi <= c[x].lo \/ c[x].hi <= b[x].lo

Plain == InDomain /\ Numbers /\ OnceEach /\ FeatureChoices = {Features}

OneNode ==
    \E p \in Pieces : Pieces = {p} /\ p.box = data.bounds /\ (p \in open => p.rows = Rows)

TwoSides ==
    /\ \E s \in Best(Rows, Features) : SplitOn \subseteq {s.feature}
    /\ \E p, q \in Pieces : p # q

ThreePieces == \E p, q, r \in Pieces : p # q /\ q # r /\ p # r

Growth ==
    /\ IsFiniteSet(Pieces)
    /\ \A p, q \in Pieces : p # q => Apart(p.box, q.box)
    /\ OneNode \/ TwoSides \/ ThreePieces

RootInv == TreeInv /\ Charted /\ (Plain /\ Started => Growth)

LEMMA NotApartFromItself ==
    ASSUME NEW b \in Boxes
    PROVE  ~Apart(b, b)
BY DEF Apart, Boxes

\* Only Fit changes anything but the nodes and leaves.
LEMMA RootFrame ==
    ASSUME study' = study, options' = options, data' = data, draw' = draw
    PROVE  /\ (Plain <=> Plain') /\ (Charted <=> Charted') /\ (Started <=> Started')
           /\ Rows' = Rows /\ Features' = Features
           /\ \A b, c : Apart(b, c)' <=> Apart(b, c)
           /\ Best(Rows, Features)' = Best(Rows, Features)
<1>1. Rows' = Rows /\ Features' = Features
  BY DEF Rows, Features
<1>2. InDomain' <=> InDomain
  BY <1>1 DEF InDomain, InBox, Boxes
<1>3. Numbers' <=> Numbers
  BY <1>1 DEF Numbers
<1>4. OnceEach' <=> OnceEach
  BY <1>1 DEF OnceEach
<1>5. FeatureChoices' = FeatureChoices
  BY <1>1 DEF FeatureChoices
<1>6. Charted' <=> Charted
  BY DEF Charted
<1>7. \A b, c : Apart(b, c)' <=> Apart(b, c)
  BY <1>1 DEF Apart
<1>8. \A S : Error(S)' = Error(S)
  BY DEF Error, Drawn, Total, Squares
<1>9. \A S, F : Splits(S, F)' = Splits(S, F)
  BY DEF Splits, Neighbours
<1>10. \A S, s : Cost(S, s)' = Cost(S, s)
  <2>1. /\ \A S : Drawn(S)' = Drawn(S) /\ Total(S)' = Total(S) /\ Squares(S)' = Squares(S)
        /\ \A S, s : Prefix(S, s)' = Prefix(S, s)
    BY DEF Drawn, Total, Squares, Prefix
  <2> QED
    BY <1>8, <2>1 DEF Cost
<1>11. Best(Rows, Features)' = Best(Rows, Features)
  BY <1>1, <1>9, <1>10 DEF Best
<1> QED
  BY <1>1, <1>2, <1>3, <1>4, <1>5, <1>6, <1>7, <1>11 DEF Plain, Started

\* The one node there is at first.
LEMMA FitRoot ==
    ASSUME RootInv, NEW b \in Bootstraps, Fit(b)
    PROVE  RootInv'
<1> DEFINE root == [box |-> data.bounds, rows |-> {n \in Rows : b[n] > 0}, depth |-> 0]
<1>1. /\ open' = {root} /\ leaves' = {} /\ data' = data /\ draw' = b /\ study' = study
  BY DEF Fit, RootInv, TreeInv, Started
<1>2. TreeInv'
  BY FitTree DEF RootInv
<1>3. Charted' /\ Rows' = Rows
  BY <1>1 DEF RootInv, Charted, Rows
<1>4. ASSUME Plain' PROVE Growth'
  <2>1. b = [n \in Rows |-> 1]
    BY <1>1, <1>3, <1>4 DEF Plain, OnceEach
  <2>2. root.rows = Rows
    BY <2>1
  <2>3. Pieces' = {root}
    BY <1>1 DEF Pieces
  <2>4. OneNode'
    BY <1>1, <1>3, <2>2, <2>3 DEF OneNode
  <2> HIDE DEF root
  <2>5. IsFiniteSet(Pieces')
    BY <2>3, FS_Singleton
  <2> QED
    BY <2>3, <2>4, <2>5 DEF Growth
<1> QED
  BY <1>2, <1>3, <1>4 DEF RootInv

\* A leaf is in the place of its node.
LEMMA LeafRoot ==
    ASSUME RootInv, NEW node \in open, MakeLeaf(node)
    PROVE  RootInv'
<1> DEFINE leaf == [box |-> node.box, value |-> Mean(node.rows)]
<1>1. /\ open' = open \ {node} /\ leaves' = leaves \cup {leaf}
      /\ study' = study /\ options' = options /\ data' = data /\ draw' = draw
  BY DEF MakeLeaf
<1>2. TreeInv'
  BY LeafTree DEF RootInv
<1>3. /\ (Plain <=> Plain') /\ (Charted <=> Charted') /\ (Started <=> Started')
      /\ Rows' = Rows /\ Features' = Features
      /\ \A b, c : Apart(b, c)' <=> Apart(b, c)
      /\ Best(Rows, Features)' = Best(Rows, Features)
  BY <1>1, RootFrame
<1>4. leaf.box = node.box /\ DOMAIN leaf = {"box", "value"}
  OBVIOUS
<1> HIDE DEF leaf
<1>5. ASSUME Plain, Started PROVE Growth'
  <2>1. Growth /\ Nodes
    BY <1>5 DEF RootInv, TreeInv, Plain
  <2>2. node.box \in Boxes /\ node \notin leaves /\ leaf \notin open /\ leaf # node
    BY <1>4, <2>1 DEF Nodes, Pieces
  <2>3. leaf \notin Pieces
    <3>1. ~Apart(node.box, leaf.box)
      BY <1>4, <2>2, NotApartFromItself
    <3> QED
      BY <2>1, <2>2, <3>1 DEF Growth, Pieces
  <2>4. Pieces' = (Pieces \ {node}) \cup {leaf} /\ node \in Pieces
    BY <1>1, <2>2 DEF Pieces
  <2>5. IsFiniteSet(Pieces')
    BY <2>1, <2>4, FS_RemoveElement, FS_AddElement DEF Growth
  <2>6. \A p, q \in Pieces' : p # q => Apart(p.box, q.box)
    <3>1. \A b, c : Apart(b, c) <=> Apart(c, b)
      BY DEF Apart
    <3> QED
      BY <1>4, <2>1, <2>4, <3>1 DEF Growth
  <2>7. CASE OneNode
    <3>1. Pieces = {node} /\ node.box = data.bounds
      BY <2>4, <2>7 DEF OneNode
    <3>2. Pieces' = {leaf} /\ leaf \notin open'
      BY <1>1, <2>2, <2>4, <3>1
    <3>3. OneNode'
      BY <1>1, <1>4, <3>1, <3>2 DEF OneNode
    <3> QED
      BY <1>3, <2>5, <2>6, <3>3 DEF Growth
  <2> DEFINE R(z) == IF z = node THEN leaf ELSE z
  <2>8. /\ \A z \in Pieces : R(z) \in Pieces'
        /\ \A y, z \in Pieces : y # z => R(y) # R(z)
    BY <2>3, <2>4
  <2> HIDE DEF R
  <2>9. CASE TwoSides
    <3>1. PICK s \in Best(Rows, Features) : SplitOn \subseteq {s.feature}
      BY <2>9 DEF TwoSides
    <3>2. \A p \in Pieces' : \E q \in Pieces : p.box = q.box
      BY <1>4, <2>4
    <3>3. SplitOn' \subseteq SplitOn
      BY <1>1, <1>3, <3>2 DEF SplitOn
    <3>4. \E p, q \in Pieces' : p # q
      BY <2>8, <2>9 DEF TwoSides
    <3>5. TwoSides'
      BY <1>3, <3>1, <3>3, <3>4 DEF TwoSides
    <3> QED
      BY <1>3, <2>5, <2>6, <3>5 DEF Growth
  <2>10. CASE ThreePieces
    <3>1. ThreePieces'
      BY <2>8, <2>10 DEF ThreePieces
    <3> QED
      BY <1>3, <2>5, <2>6, <3>1 DEF Growth
  <2> QED
    BY <2>1, <2>7, <2>9, <2>10 DEF Growth
<1> QED
  BY <1>2, <1>3, <1>5 DEF RootInv

\* The threshold of a split of numbers is inside its node, off both ends.
LEMMA ThresholdStrict ==
    ASSUME Charted, InDomain, Nodes, Numbers, NEW node \in open, NEW F \in SUBSET Features,
           NEW s \in Best(node.rows, F)
    PROVE  /\ s.feature \in Features /\ s.threshold \in Int
           /\ node.box[s.feature].lo < s.threshold
           /\ s.threshold < node.box[s.feature].hi
<1>1. s \in Splits(node.rows, F)
  BY DEF Best
<1>2. PICK t \in node.rows \X node.rows \X F :
         /\ Neighbours(node.rows, t[1], t[2], t[3])
         /\ s = [feature   |-> t[3], last |-> data.x[t[1]][t[3]],
                 threshold |-> (data.x[t[1]][t[3]] + data.x[t[2]][t[3]]) \div 2]
  BY <1>1 DEF Splits
<1> DEFINE a == t[1]  b == t[2]  x == t[3]
<1>3. a \in node.rows /\ b \in node.rows /\ x \in F
  BY <1>2
<1>4. x \in Features /\ a \in Rows /\ b \in Rows
  BY <1>3 DEF Nodes
<1>5. /\ data.x[a][x] < data.x[b][x]
      /\ s.feature = x /\ s.threshold = (data.x[a][x] + data.x[b][x]) \div 2
  BY <1>2 DEF Neighbours
<1>6. /\ node.box[x].lo \in Int /\ node.box[x].hi \in Int
      /\ node.box[x].lo <= data.x[a][x] /\ data.x[b][x] <= node.box[x].hi
  BY <1>3, <1>4 DEF Nodes, Pieces, Boxes, InBox
<1> HIDE DEF a, b, x
<1>7. PICK i, j \in Int : data.x[a][x] = 2 * i /\ data.x[b][x] = 2 * j
  BY <1>4, CoordinatesOrder
<1> QED
  BY <1>4, <1>5, <1>6, <1>7

\* The sides of a split stay clear of each other and of what their node was clear of.
LEMMA SidesApart ==
    ASSUME Charted, InDomain, Nodes, Numbers, NEW node \in open, NEW F \in SUBSET Features,
           NEW s \in Best(node.rows, F)
    PROVE  LET low  == Child(node, s, TRUE)
               high == Child(node, s, FALSE)
           IN  /\ low.box \in Boxes /\ high.box \in Boxes
               /\ Apart(low.box, high.box)
               /\ \A c : Apart(node.box, c) /\ (\A x \in Features : c[x].lo \in Int /\ c[x].hi \in Int)
                             => Apart(low.box, c) /\ Apart(high.box, c)
               /\ \A x \in Features : x # s.feature => /\ low.box[x] = node.box[x]
                                                       /\ high.box[x] = node.box[x]
<1> DEFINE low == Child(node, s, TRUE)  high == Child(node, s, FALSE)
           f == s.feature  t == s.threshold
<1>1. /\ f \in Features /\ t \in Int
      /\ node.box[f].lo < t /\ t < node.box[f].hi
  BY ThresholdStrict
<1>2. node.box \in Boxes
  BY DEF Nodes, Pieces
<1>3. low.box \in Boxes /\ high.box \in Boxes
  BY <1>1, <1>2, ChildBox
<1>4. \A x \in Features : node.box[x].lo \in Int /\ node.box[x].hi \in Int
  BY <1>2 DEF Boxes
<1>5. \A x \in Features : /\ low.box[x].lo = node.box[x].lo
                          /\ low.box[x].hi = IF x = f THEN t ELSE node.box[x].hi
  BY <1>1, <1>2 DEF Child, Boxes
<1>6. \A x \in Features : /\ high.box[x].lo = IF x = f THEN t ELSE node.box[x].lo
                          /\ high.box[x].hi = node.box[x].hi
  BY <1>1, <1>2 DEF Child, Boxes
<1>7. \A x \in Features : x # f => low.box[x] = node.box[x] /\ high.box[x] = node.box[x]
  BY <1>1, <1>2 DEF Child, Boxes
<1> HIDE DEF low, high, f, t
<1>8. Apart(low.box, high.box)
  BY <1>1, <1>4, <1>5, <1>6 DEF Apart
<1>9. ASSUME NEW c, Apart(node.box, c), \A x \in Features : c[x].lo \in Int /\ c[x].hi \in Int
      PROVE  Apart(low.box, c) /\ Apart(high.box, c)
  <2>1. PICK x \in Features : /\ node.box[x].lo < node.box[x].hi /\ c[x].lo < c[x].hi
                              /\ node.box[x].hi <= c[x].lo \/ c[x].hi <= node.box[x].lo
    BY <1>9 DEF Apart
  <2>2. low.box[x].lo < low.box[x].hi /\ high.box[x].lo < high.box[x].hi
    BY <1>1, <1>4, <1>5, <1>6, <2>1
  <2>3. low.box[x].hi <= c[x].lo \/ c[x].hi <= low.box[x].lo
    BY <1>1, <1>4, <1>5, <1>9, <2>1
  <2>4. high.box[x].hi <= c[x].lo \/ c[x].hi <= high.box[x].lo
    BY <1>1, <1>4, <1>6, <1>9, <2>1
  <2> QED
    BY <2>1, <2>2, <2>3, <2>4 DEF Apart
<1> QED
  BY <1>3, <1>7, <1>8, <1>9 DEF low, high, f

\* Two sides are in the place of their node.
LEMMA SplitRoot ==
    ASSUME RootInv, NEW node \in open, Split(node)
    PROVE  RootInv'
<1>1. /\ leaves' = leaves /\ study' = study /\ options' = options /\ data' = data /\ draw' = draw
  BY DEF Split
<1>2. TreeInv'
  BY SplitTree DEF RootInv
<1>3. /\ (Plain <=> Plain') /\ (Charted <=> Charted') /\ (Started <=> Started')
      /\ Rows' = Rows /\ Features' = Features
      /\ \A b, c : Apart(b, c)' <=> Apart(b, c)
      /\ Best(Rows, Features)' = Best(Rows, Features)
  BY <1>1, RootFrame
<1>4. ASSUME Plain, Started PROVE Growth'
  <2>1. /\ Growth /\ Nodes /\ InDomain /\ Charted /\ Numbers
        /\ FeatureChoices = {Features}
    BY <1>4 DEF RootInv, TreeInv, Plain
  <2>2. PICK s \in Best(node.rows, Features) :
           open' = (open \ {node}) \cup {Child(node, s, TRUE), Child(node, s, FALSE)}
    BY <2>1 DEF Split
  <2> DEFINE low == Child(node, s, TRUE)  high == Child(node, s, FALSE)
  <2>3. /\ low.box \in Boxes /\ high.box \in Boxes
        /\ Apart(low.box, high.box)
        /\ \A c : Apart(node.box, c) /\ (\A x \in Features : c[x].lo \in Int /\ c[x].hi \in Int)
                      => Apart(low.box, c) /\ Apart(high.box, c)
        /\ \A x \in Features : x # s.feature => /\ low.box[x] = node.box[x]
                                                /\ high.box[x] = node.box[x]
    BY <2>1, SidesApart
  <2> HIDE DEF low, high
  <2>4. Pieces' = (Pieces \ {node}) \cup {low, high} /\ node \in Pieces
    <3>1. node \notin leaves
      BY <2>1 DEF Nodes
    <3> QED
      BY <1>1, <2>2, <3>1 DEF Pieces, low, high
  <2>5. \A b, c : Apart(b, c) <=> Apart(c, b)
    BY DEF Apart
  <2>6. \A p \in Pieces \ {node} : Apart(low.box, p.box) /\ Apart(high.box, p.box)
    <3>1. \A p \in Pieces, x \in Features : p.box[x].lo \in Int /\ p.box[x].hi \in Int
      BY <2>1 DEF Nodes, Boxes
    <3> QED
      BY <2>1, <2>3, <2>4, <3>1 DEF Growth
  <2>7. low # high /\ \A p \in Pieces \ {node} : p # low /\ p # high
    <3>1. ~Apart(low.box, low.box) /\ ~Apart(high.box, high.box)
      BY <2>3, NotApartFromItself
    <3> QED
      BY <2>3, <2>6, <3>1
  <2>8. IsFiniteSet(Pieces')
    <3>1. IsFiniteSet(Pieces \ {node})
      BY <2>1, FS_RemoveElement DEF Growth
    <3>2. Pieces' = ((Pieces \ {node}) \cup {low}) \cup {high}
      BY <2>4
    <3>3. IsFiniteSet((Pieces \ {node}) \cup {low})
      BY <3>1, FS_AddElement
    <3> QED
      BY <3>2, <3>3, FS_AddElement
  <2>9. \A p, q \in Pieces' : p # q => Apart(p.box, q.box)
    BY <2>1, <2>3, <2>4, <2>5, <2>6 DEF Growth
  <2>10. CASE OneNode
    <3>1. Pieces = {node} /\ node.box = data.bounds /\ node.rows = Rows
      BY <2>4, <2>10 DEF OneNode
    <3>2. s \in Best(Rows, Features)'
      BY <1>3, <3>1
    <3>3. Pieces' = {low, high}
      BY <2>4, <3>1
    <3>4. SplitOn' \subseteq {s.feature}
      BY <1>1, <1>3, <2>3, <3>1, <3>3 DEF SplitOn
    <3>5. TwoSides'
      BY <2>7, <3>2, <3>3, <3>4 DEF TwoSides
    <3> QED
      BY <1>3, <2>8, <2>9, <3>5 DEF Growth
  <2>11. CASE TwoSides \/ ThreePieces
    <3>1. PICK z \in Pieces : z # node
      BY <2>4, <2>11 DEF TwoSides, ThreePieces
    <3>2. ThreePieces'
      BY <2>4, <2>7, <3>1 DEF ThreePieces
    <3> QED
      BY <1>3, <2>8, <2>9, <3>2 DEF Growth
  <2> QED
    BY <2>1, <2>10, <2>11 DEF Growth
<1> QED
  BY <1>2, <1>3, <1>4 DEF RootInv

LEMMA StutterRoot == RootInv /\ UNCHANGED vars => RootInv'
<1> SUFFICES ASSUME RootInv, UNCHANGED vars PROVE RootInv'
  OBVIOUS
<1>1. /\ study' = study /\ options' = options /\ data' = data /\ draw' = draw
      /\ open' = open /\ leaves' = leaves
  BY DEF vars
<1>2. TreeInv'
  BY StutterTree DEF RootInv
<1>3. /\ (Plain <=> Plain') /\ (Charted <=> Charted') /\ (Started <=> Started')
      /\ Rows' = Rows /\ Features' = Features
      /\ \A b, c : Apart(b, c)' <=> Apart(b, c)
      /\ Best(Rows, Features)' = Best(Rows, Features)
  BY <1>1, RootFrame
<1>4. Pieces' = Pieces
  BY <1>1 DEF Pieces
<1>5. SplitOn' = SplitOn
  BY <1>1, <1>3, <1>4 DEF SplitOn
<1>6. (OneNode' <=> OneNode) /\ (TwoSides' <=> TwoSides) /\ (ThreePieces' <=> ThreePieces)
  BY <1>1, <1>3, <1>4, <1>5 DEF OneNode, TwoSides, ThreePieces
<1>7. Growth' <=> Growth
  BY <1>3, <1>4, <1>6 DEF Growth
<1> QED
  BY <1>2, <1>3, <1>7 DEF RootInv

LEMMA InitRoot == Init => RootInv
<1> SUFFICES ASSUME Init PROVE RootInv
  OBVIOUS
<1>1. TreeInv
  BY InitTree
<1>2. Charted /\ ~Started
  BY DEF Init, Charted, Started
<1> QED
  BY <1>1, <1>2 DEF RootInv

\* With two pieces the tree has been split once.
LEMMA RootInvTop == RootInv => RootIsTopStump
<1> SUFFICES ASSUME RootInv, InDomain, Measured, draw = [n \in Rows |-> 1],
                    FeatureChoices = {Features}, CompletedTrials(study) = Rows,
                    \A n \in Rows, x \in Features : ~IsLabel(RecordOf(study[n], x).value),
                    Cardinality(Pieces) = 2, NEW x \in SplitOn, NEW y \in Features
             PROVE  Stump(study, y).explained <= Stump(study, x).explained
  BY DEF RootIsTopStump
<1>1. Plain /\ Numbers /\ OnceEach /\ Charted
  BY DEF Plain, Numbers, OnceEach, RootInv
<1>2. Started
  <2>1. Rows # {}
    BY <1>1, RowFacts
  <2> QED
    BY <2>1 DEF Started
<1>3. Growth
  BY <1>1, <1>2 DEF RootInv
<1>4. ~OneNode
  <2>1. \A p : Cardinality({p}) = 1
    BY FS_Singleton
  <2>2. Cardinality(Pieces) # 1
    OBVIOUS
  <2> QED
    BY <2>1, <2>2 DEF OneNode
<1>5. ~ThreePieces
  <2> SUFFICES ASSUME NEW p \in Pieces, NEW q \in Pieces, NEW r \in Pieces,
                      p # q, q # r, p # r
               PROVE  FALSE
    BY DEF ThreePieces
  <2>1. IsFiniteSet(Pieces \ {p}) /\ Cardinality(Pieces \ {p}) = 1
    BY <1>3, FS_RemoveElement DEF Growth
  <2>2. IsFiniteSet((Pieces \ {p}) \ {q}) /\ Cardinality((Pieces \ {p}) \ {q}) = 0
    BY <2>1, FS_RemoveElement
  <2>3. (Pieces \ {p}) \ {q} = {}
    BY <2>2, FS_EmptySet
  <2> QED
    BY <2>3
<1>6. PICK s \in Best(Rows, Features) : SplitOn \subseteq {s.feature}
  BY <1>3, <1>4, <1>5 DEF Growth, TwoSides
<1>7. x = s.feature
  BY <1>6
<1> QED
  BY <1>1, <1>6, <1>7, BestIsTop

\* However the study came about: a tree grown on all the rows of it splits first where
\* the best stump does (fanova.rs:3-7; importance.rs:19-25).
THEOREM TreeStartsAtTopStump == Spec => []RootIsTopStump
<1>1. Init => RootInv
  BY InitRoot
<1>2. RootInv /\ [Next]_vars => RootInv'
  BY FitRoot, LeafRoot, SplitRoot, StutterRoot DEF Next
<1>3. RootInv => RootIsTopStump
  BY RootInvTop
<1> QED
  BY <1>1, <1>2, <1>3, PTL DEF Spec

(* Product *)
Times == [p \in Int \X Int |-> p[1] * p[2]]

Multiplies(f, S, g) ==
    g = [s \in SUBSET S |-> IF s = {} THEN 1 ELSE f[Pick(s)] * g[s \ {Pick(s)}]]

LEMMA ProductIsFold ==
    ASSUME NEW S, IsFiniteSet(S), NEW f \in [S -> Int]
    PROVE  \E g \in [SUBSET S -> Int] : Folds(Times, 1, f, S, g) /\ Product(f) = g[S]
<1>1. Times \in [Int \X Int -> Int] /\ 1 \in Int
  BY DEF Times
<1>2. PICK g \in [SUBSET S -> Int] : Folds(Times, 1, f, S, g)
  BY <1>1, FoldExists
<1>3. Multiplies(f, S, g)
  <2>1. \A s \in SUBSET S : s # {} =>
           Times[<<f[Pick(s)], g[s \ {Pick(s)}]>>] = f[Pick(s)] * g[s \ {Pick(s)}]
    BY PickIsIn DEF Times
  <2> DEFINE v(s) == Times[<<f[Pick(s)], g[s \ {Pick(s)}]>>]
             w(s) == f[Pick(s)] * g[s \ {Pick(s)}]
  <2> HIDE DEF v, w
  <2>2. \A s \in SUBSET S : s # {} => v(s) = w(s)
    BY <2>1 DEF v, w
  <2>3. [s \in SUBSET S |-> IF s = {} THEN 1 ELSE v(s)] = [s \in SUBSET S |-> IF s = {} THEN 1 ELSE w(s)]
    BY <2>2
  <2> QED
    BY <1>2, <2>3 DEF Folds, Multiplies, v, w
<1> DEFINE c == CHOOSE k : Multiplies(f, S, k)
<1>4. Multiplies(f, S, c)
  BY <1>3
<1>5. Product(f) = c[S]
  BY DEF Product, FoldFunction, FoldFunctionOnSet, MapThenFoldSet, Multiplies, Pick
<1> HIDE DEF c
<1> DEFINE P == {s \in SUBSET S : c[s] = g[s]}
<1>6. ASSUME NEW s \in SUBSET S, \A u \in SUBSET s : u # s => u \in P PROVE s \in P
  <2>1. /\ c[s] = IF s = {} THEN 1 ELSE f[Pick(s)] * c[s \ {Pick(s)}]
        /\ g[s] = IF s = {} THEN 1 ELSE f[Pick(s)] * g[s \ {Pick(s)}]
    BY <1>3, <1>4 DEF Multiplies
  <2>2. s # {} => c[s \ {Pick(s)}] = g[s \ {Pick(s)}]
    BY <1>6, PickIsIn
  <2> QED
    BY <2>1, <2>2
<1> HIDE DEF P
<1>7. \A T \in SUBSET S : T \in P
  BY <1>6, Subsetwise
<1> QED
  BY <1>2, <1>5, <1>7 DEF P

LEMMA ProductStep ==
    ASSUME NEW S, IsFiniteSet(S), NEW f \in [S -> Int]
    PROVE  /\ Product(f) \in Int
           /\ S = {} => Product(f) = 1
           /\ \A x \in S : Product(f) = f[x] * Product([y \in S \ {x} |-> f[y]])
<1>1. PICK g \in [SUBSET S -> Int] : Folds(Times, 1, f, S, g) /\ Product(f) = g[S]
  BY ProductIsFold
<1>2. g[S] \in Int /\ (S = {} => g[S] = 1)
  BY <1>1 DEF Folds
<1>3. ASSUME NEW x \in S PROVE Product(f) = f[x] * Product([y \in S \ {x} |-> f[y]])
  <2> DEFINE T == S \ {x}
             h == [y \in T |-> f[y]]
  <2>1. IsFiniteSet(T) /\ h \in [T -> Int]
    BY FS_RemoveElement
  <2>2. PICK k \in [SUBSET T -> Int] : Folds(Times, 1, h, T, k) /\ Product(h) = k[T]
    BY <2>1, ProductIsFold
  <2>3. \A y \in T : f[y] = h[y]
    OBVIOUS
  <2> HIDE DEF h
  <2>4. g[T] = k[T]
    BY <1>1, <2>1, <2>2, <2>3, FoldsAgree
  <2>5. LeftCommutes(Times) /\ Times \in [Int \X Int -> Int] /\ S \in SUBSET S
    <3>1. \A a, b, c \in Int : a * (b * c) = b * (a * c) /\ a * b \in Int
      OBVIOUS
    <3> QED
      BY <3>1 DEF LeftCommutes, Times
  <2>6. g[S] = Times[<<f[x], g[T]>>]
    <3>1. AnyFirst(Times, f, S, g)
      BY <1>1, <2>5, FoldAnyFirst
    <3> QED
      BY <2>5, <3>1 DEF AnyFirst
  <2>7. Times[<<f[x], g[T]>>] = f[x] * g[T]
    BY DEF Times
  <2> QED
    BY <1>1, <2>2, <2>4, <2>6, <2>7 DEF h
<1> QED
  BY <1>1, <1>2, <1>3

\* The product of f over T.
ProductOver(f, T) == Product([t \in T |-> f[t]])

LEMMA ProductOverStep ==
    ASSUME NEW T, IsFiniteSet(T), NEW f, \A t \in T : f[t] \in Int
    PROVE  /\ ProductOver(f, T) \in Int
           /\ T = {} => ProductOver(f, T) = 1
           /\ \A x \in T : /\ ProductOver(f, T) = f[x] * ProductOver(f, T \ {x})
                           /\ ProductOver(f, T \ {x}) \in Int
<1> DEFINE g == [t \in T |-> f[t]]
<1>1. g \in [T -> Int]
  OBVIOUS
<1>2. ProductOver(f, T) = Product(g)
  BY DEF ProductOver
<1>3. ASSUME NEW x \in T
      PROVE  /\ Product([y \in T \ {x} |-> g[y]]) = ProductOver(f, T \ {x})
             /\ g[x] = f[x]
             /\ ProductOver(f, T \ {x}) \in Int
  <2>1. [y \in T \ {x} |-> g[y]] = [y \in T \ {x} |-> f[y]]
    OBVIOUS
  <2>2. IsFiniteSet(T \ {x}) /\ [y \in T \ {x} |-> f[y]] \in [T \ {x} -> Int]
    BY FS_RemoveElement
  <2>3. Product([y \in T \ {x} |-> f[y]]) \in Int
    BY <2>2, ProductStep
  <2> QED
    BY <2>1, <2>3 DEF ProductOver
<1> HIDE DEF g
<1>4. /\ Product(g) \in Int /\ (T = {} => Product(g) = 1)
      /\ \A x \in T : Product(g) = g[x] * Product([y \in T \ {x} |-> g[y]])
  BY <1>1, ProductStep
<1> QED
  BY <1>2, <1>3, <1>4

LEMMA ProductOverSame ==
    ASSUME NEW T, NEW f, NEW g, \A t \in T : f[t] = g[t]
    PROVE  ProductOver(f, T) = ProductOver(g, T)
<1>1. [t \in T |-> f[t]] = [t \in T |-> g[t]]
  OBVIOUS
<1> QED
  BY <1>1 DEF ProductOver

\* A product of naturals, and a product in two parts.
LEMMA ProductNat ==
    ASSUME NEW S, IsFiniteSet(S), NEW f, \A x \in S : f[x] \in Nat
    PROVE  ProductOver(f, S) \in Nat
<1> DEFINE P == {T \in SUBSET S : ProductOver(f, T) \in Nat}
<1>1. ASSUME NEW T \in SUBSET S, \A U \in SUBSET T : U # T => U \in P PROVE T \in P
  <2>1. IsFiniteSet(T) /\ \A t \in T : f[t] \in Int /\ f[t] \in Nat
    BY FS_Subset
  <2>2. CASE T = {}
    BY <2>1, <2>2, ProductOverStep
  <2>3. CASE T # {}
    <3>1. PICK x \in T : TRUE
      BY <2>3
    <3>2. ProductOver(f, T) = f[x] * ProductOver(f, T \ {x})
      BY <2>1, ProductOverStep
    <3>3. T \ {x} \in P
      BY <1>1
    <3>4. \A m, n \in Nat : m * n \in Nat
      OBVIOUS
    <3> QED
      BY <2>1, <3>2, <3>3, <3>4
  <2> QED
    BY <2>2, <2>3
<1> HIDE DEF P
<1>2. \A T \in SUBSET S : T \in P
  BY <1>1, Subsetwise
<1> QED
  BY <1>2 DEF P

LEMMA ProductParts ==
    ASSUME NEW S, IsFiniteSet(S), NEW U, IsFiniteSet(U), S \cap U = {}, NEW f,
           \A x \in S \cup U : f[x] \in Int
    PROVE  ProductOver(f, S \cup U) = ProductOver(f, S) * ProductOver(f, U)
<1> DEFINE P == {T \in SUBSET S : ProductOver(f, T \cup U) = ProductOver(f, T) * ProductOver(f, U)}
<1>1. ProductOver(f, U) \in Int
  BY ProductOverStep
<1>2. ASSUME NEW T \in SUBSET S, \A V \in SUBSET T : V # T => V \in P PROVE T \in P
  <2>1. IsFiniteSet(T) /\ \A t \in T : f[t] \in Int
    BY FS_Subset
  <2>2. IsFiniteSet(T \cup U) /\ \A t \in T \cup U : f[t] \in Int
    BY <2>1, FS_Union
  <2>3. CASE T = {}
    <3>1. ProductOver(f, T) = 1 /\ T \cup U = U
      BY <2>1, <2>3, ProductOverStep
    <3>2. \A a \in Int : a = 1 * a
      OBVIOUS
    <3>3. ProductOver(f, T \cup U) = ProductOver(f, T) * ProductOver(f, U)
      BY <1>1, <3>1, <3>2
    <3> QED
      BY <3>3
  <2>4. CASE T # {}
    <3>1. PICK x \in T : TRUE
      BY <2>4
    <3>2. (T \cup U) \ {x} = (T \ {x}) \cup U
      OBVIOUS
    <3>3. /\ ProductOver(f, T) = f[x] * ProductOver(f, T \ {x}) /\ ProductOver(f, T \ {x}) \in Int
      BY <2>1, ProductOverStep
    <3>4. ProductOver(f, T \cup U) = f[x] * ProductOver(f, (T \ {x}) \cup U)
      BY <2>2, <3>2, ProductOverStep
    <3>5. T \ {x} \in P
      BY <1>2
    <3>6. \A a, b, c \in Int : a * (b * c) = (a * b) * c
      OBVIOUS
    <3> QED
      BY <1>1, <2>1, <3>3, <3>4, <3>5, <3>6
  <2> QED
    BY <2>3, <2>4
<1> HIDE DEF P
<1>3. \A T \in SUBSET S : T \in P
  BY <1>2, Subsetwise
<1> QED
  BY <1>3 DEF P

-----------------------------------------------------------------------------
(* A tree is finite, its rows have been drawn, and its predictions are numbers. *)
Sized ==
    /\ IsFiniteSet(open) /\ IsFiniteSet(leaves)
    /\ Started => draw \in [Rows -> Nat]
    /\ \A node \in open : node.rows \subseteq Rows /\ \A n \in node.rows : draw[n] > 0
    /\ Measured => \A l \in leaves : l.value \in Int

SizeInv == TreeInv /\ Charted /\ Sized

\* A parameter has finitely many keys, so there are finitely many features.
LEMMA FeaturesFinite ==
    ASSUME Charted
    PROVE  IsFiniteSet(Features)
<1> DEFINE K == [n \in CompletedTrials(study) |-> Keys(study[n].params)]
<1>1. ASSUME NEW n \in CompletedTrials(study) PROVE IsFiniteSet(Keys(study[n].params))
  <2> DEFINE s == study[n].params
             f == [i \in 1 .. Len(s) |-> s[i].key]
  <2>1. s \in Seq(Entry(STRING, ParamRecord))
    BY <1>1, StudiesAssumption DEF Charted
  <2>2. Len(s) \in Nat /\ DOMAIN s = 1 .. Len(s)
    BY <2>1
  <2>3. Keys(s) = {s[i].key : i \in 1 .. Len(s)}
    BY <2>2 DEF Keys
  <2> HIDE DEF s
  <2>4. IsFiniteSet(1 .. Len(s))
    BY <2>2, FS_Interval
  <2>5. DOMAIN f = 1 .. Len(s) /\ f = [i \in 1 .. Len(s) |-> f[i]]
    OBVIOUS
  <2>6. \A i \in 1 .. Len(s) : f[i] = s[i].key
    OBVIOUS
  <2> HIDE DEF f
  <2>7. IsFiniteSet({f[i] : i \in 1 .. Len(s)})
    BY <2>4, <2>5, ValuesFinite
  <2>8. {f[i] : i \in 1 .. Len(s)} = Keys(s)
    BY <2>3, <2>6
  <2> QED
    BY <2>7, <2>8 DEF s
<1>2. IsFiniteSet(CompletedTrials(study)) /\ Features = Names(study)
  BY RowFacts
<1>3. DOMAIN K = CompletedTrials(study) /\ K = [n \in CompletedTrials(study) |-> K[n]]
  OBVIOUS
<1>4. \A n \in CompletedTrials(study) : K[n] = Keys(study[n].params)
  OBVIOUS
<1> HIDE DEF K
<1>5. IsFiniteSet({K[n] : n \in CompletedTrials(study)})
  BY <1>2, <1>3, ValuesFinite
<1>6. {K[n] : n \in CompletedTrials(study)} = {Keys(study[n].params) : n \in CompletedTrials(study)}
  BY <1>4
<1>7. \A s \in {Keys(study[n].params) : n \in CompletedTrials(study)} : IsFiniteSet(s)
  BY <1>1
<1> QED
  BY <1>2, <1>5, <1>6, <1>7, FS_UNION DEF Names

\* The mean of drawn rows is a number.
LEMMA MeanIsInt ==
    ASSUME Charted, Measured, draw \in [Rows -> Nat], NEW S \in SUBSET Rows,
           \A n \in S : draw[n] > 0
    PROVE  Mean(S) \in Int
<1>1. IsFiniteSet(S)
  BY RowFacts, FS_Subset
<1>2. \A n \in S : draw[n] \in Nat /\ data.y[n] \in Int
  BY DEF Measured
<1> DEFINE f == [n \in Rows |-> draw[n] * data.y[n]]
<1>3. Total(S) \in Int
  <2>1. \A n \in S : f[n] \in Int
    <3>1. \A a, b \in Int : a * b \in Int
      OBVIOUS
    <3>2. \A n \in S : f[n] = draw[n] * data.y[n]
      OBVIOUS
    <3> QED
      BY <1>2, <3>1, <3>2
  <2>2. [n \in S |-> draw[n] * data.y[n]] = [n \in S |-> f[n]]
    OBVIOUS
  <2>3. Total(S) = SumOver(f, S)
    BY <2>2 DEF Total, SumOver
  <2> HIDE DEF f
  <2> QED
    BY <1>1, <2>1, <2>3, SumOverStep
<1>4. ASSUME S # {} PROVE Drawn(S) \in Int /\ Drawn(S) > 0
  <2>1. PICK m \in S : TRUE
    BY <1>4
  <2>2. Drawn(S) = SumOver(draw, S)
    BY DEF Drawn, SumOver
  <2>3. SumOver(draw, S) = draw[m] + SumOver(draw, S \ {m})
    BY <1>1, <1>2, SumOverStep
  <2>4. SumOver(draw, S \ {m}) \in Nat
    BY <1>1, <1>2, FS_RemoveElement, SumNotNegative
  <2> QED
    BY <1>2, <2>1, <2>2, <2>3, <2>4
<1>5. \A t \in Int, d \in Int : d > 0 => (Scale * t) \div d \in Int
  <2>1. \A t \in Int : Scale * t \in Int
    BY ScaleAssumption
  <2>2. \A s \in Int, d \in Int : d > 0 => s \div d \in Int
    OBVIOUS
  <2> QED
    BY <2>1, <2>2
<1> HIDE DEF f
<1> QED
  BY <1>3, <1>4, <1>5 DEF Mean

LEMMA SizeFrame ==
    ASSUME study' = study, data' = data
    PROVE  (Charted <=> Charted') /\ (Measured <=> Measured') /\ Rows' = Rows
BY DEF Charted, Measured, Rows

LEMMA InitSize == Init => SizeInv
<1> SUFFICES ASSUME Init PROVE SizeInv
  OBVIOUS
<1>1. TreeInv
  BY InitTree
<1>2. open = {} /\ leaves = {} /\ ~Started /\ Charted
  BY DEF Init, Started, Charted
<1> QED
  BY <1>1, <1>2, FS_EmptySet DEF SizeInv, Sized

LEMMA FitSize ==
    ASSUME SizeInv, NEW b \in Bootstraps, Fit(b)
    PROVE  SizeInv'
<1> DEFINE root == [box |-> data.bounds, rows |-> {n \in Rows : b[n] > 0}, depth |-> 0]
<1>1. /\ open' = {root} /\ leaves' = {} /\ data' = data /\ draw' = b /\ study' = study
  BY DEF Fit, SizeInv, TreeInv, Started
<1>2. TreeInv' /\ Charted' /\ Rows' = Rows
  BY <1>1, FitTree, SizeFrame DEF SizeInv
<1>3. b \in [Rows -> Nat]
  <2>1. Cardinality(Rows) \in Nat
    BY RowFacts, FS_CardinalityType DEF SizeInv
  <2>2. 0 .. Cardinality(Rows) \subseteq Nat
    BY <2>1
  <2> QED
    BY <2>2 DEF Bootstraps
<1>4. root.rows \subseteq Rows /\ \A n \in root.rows : b[n] > 0
  OBVIOUS
<1> HIDE DEF root
<1>5. IsFiniteSet(open') /\ IsFiniteSet(leaves')
  BY <1>1, FS_Singleton, FS_EmptySet
<1> QED
  BY <1>1, <1>2, <1>3, <1>4, <1>5 DEF SizeInv, Sized

LEMMA LeafSize ==
    ASSUME SizeInv, NEW node \in open, MakeLeaf(node)
    PROVE  SizeInv'
<1> DEFINE leaf == [box |-> node.box, value |-> Mean(node.rows)]
<1>1. /\ open' = open \ {node} /\ leaves' = leaves \cup {leaf}
      /\ study' = study /\ data' = data /\ draw' = draw
  BY DEF MakeLeaf
<1>2. TreeInv' /\ Charted' /\ Rows' = Rows /\ (Measured' <=> Measured) /\ (Started' <=> Started)
  BY <1>1, LeafTree, SizeFrame DEF SizeInv, Started
<1>3. IsFiniteSet(open') /\ IsFiniteSet(leaves')
  BY <1>1, FS_RemoveElement, FS_AddElement DEF SizeInv, Sized
<1>4. Started
  BY DEF SizeInv, TreeInv
<1>5. Measured => Mean(node.rows) \in Int
  BY <1>4, MeanIsInt DEF SizeInv, Sized
<1>6. leaf.value = Mean(node.rows)
  OBVIOUS
<1> HIDE DEF leaf
<1> QED
  BY <1>1, <1>2, <1>3, <1>4, <1>5, <1>6 DEF SizeInv, Sized

LEMMA SplitSize ==
    ASSUME SizeInv, NEW node \in open, Split(node)
    PROVE  SizeInv'
<1>1. PICK F \in FeatureChoices : \E s \in Best(node.rows, F) :
         open' = (open \ {node}) \cup {Child(node, s, TRUE), Child(node, s, FALSE)}
  BY DEF Split
<1>2. PICK s \in Best(node.rows, F) :
         open' = (open \ {node}) \cup {Child(node, s, TRUE), Child(node, s, FALSE)}
  BY <1>1
<1>3. /\ leaves' = leaves /\ study' = study /\ data' = data /\ draw' = draw
  BY DEF Split
<1>4. TreeInv' /\ Charted' /\ Rows' = Rows /\ (Measured' <=> Measured) /\ (Started' <=> Started)
  BY <1>3, SplitTree, SizeFrame DEF SizeInv, Started
<1> DEFINE low == Child(node, s, TRUE)  high == Child(node, s, FALSE)
<1>5. low.rows \subseteq node.rows /\ high.rows \subseteq node.rows
  BY DEF Child, Below
<1> HIDE DEF low, high
<1>6. open' = ((open \ {node}) \cup {low}) \cup {high}
  BY <1>2 DEF low, high
<1>7. IsFiniteSet(open')
  BY <1>6, FS_RemoveElement, FS_AddElement DEF SizeInv, Sized
<1>8. \A z \in open' : z.rows \subseteq Rows /\ \A n \in z.rows : draw[n] > 0
  BY <1>5, <1>6 DEF SizeInv, Sized
<1> QED
  BY <1>3, <1>4, <1>7, <1>8 DEF SizeInv, Sized

LEMMA StutterSize == SizeInv /\ UNCHANGED vars => SizeInv'
<1> SUFFICES ASSUME SizeInv, UNCHANGED vars PROVE SizeInv'
  OBVIOUS
<1>1. study' = study /\ data' = data /\ draw' = draw /\ open' = open /\ leaves' = leaves
  BY DEF vars
<1>2. TreeInv' /\ Charted' /\ Rows' = Rows /\ (Measured' <=> Measured) /\ (Started' <=> Started)
  BY <1>1, StutterTree, SizeFrame DEF SizeInv, Started
<1> QED
  BY <1>1, <1>2 DEF SizeInv, Sized

-----------------------------------------------------------------------------
(* The unit cells of a box, and how many there are. *)
Grid(b, D) == {c \in [D -> Int] : Holds(b, c, D)}

Ends(b, D) == \A x \in D : b[x].lo \in Int /\ b[x].hi \in Int /\ b[x].lo <= b[x].hi

\* A grid in the dimensions D is one without x, times the cells of x.
LEMMA GridTimes ==
    ASSUME NEW b, NEW D, NEW x \in D, Ends(b, D)
    PROVE  ExistsBijection(Grid(b, D \ {x}) \X (b[x].lo .. b[x].hi - 1), Grid(b, D))
<1> DEFINE E == D \ {x}
           I == b[x].lo .. b[x].hi - 1
           T == Grid(b, E) \X I
           put(p) == [y \in D |-> IF y = x THEN p[2] ELSE p[1][y]]
           h == [p \in T |-> put(p)]
<1>1. b[x].lo \in Int /\ b[x].hi \in Int
  BY DEF Ends
<1>2. \A i \in I : i \in Int /\ b[x].lo <= i /\ i < b[x].hi
  BY <1>1
<1>3. \A i \in Int : b[x].lo <= i /\ i < b[x].hi => i \in I
  BY <1>1
<1> HIDE DEF I
<1>4. ASSUME NEW p \in T PROVE put(p) \in Grid(b, D)
  <2>1. /\ p[1] \in [E -> Int] /\ (\A y \in E : b[y].lo <= p[1][y] /\ p[1][y] < b[y].hi)
        /\ p[2] \in I
    BY DEF Grid, Holds
  <2>2. p[2] \in Int /\ b[x].lo <= p[2] /\ p[2] < b[x].hi
    BY <1>2, <2>1
  <2> HIDE DEF T
  <2>3. put(p) \in [D -> Int]
    BY <2>1, <2>2
  <2>4. \A y \in D : b[y].lo <= put(p)[y] /\ put(p)[y] < b[y].hi
    BY <2>1, <2>2
  <2> QED
    BY <2>3, <2>4 DEF Grid, Holds
<1>5. ASSUME NEW p \in T, NEW q \in T, put(p) = put(q) PROVE p = q
  <2>1. p[1] \in [E -> Int] /\ q[1] \in [E -> Int] /\ p = <<p[1], p[2]>> /\ q = <<q[1], q[2]>>
    BY DEF Grid
  <2>2. put(p)[x] = p[2] /\ put(q)[x] = q[2]
    OBVIOUS
  <2>3. \A y \in E : put(p)[y] = p[1][y] /\ put(q)[y] = q[1][y]
    OBVIOUS
  <2> HIDE DEF T, put
  <2>4. \A y \in E : p[1][y] = q[1][y]
    BY <1>5, <2>3
  <2>5. p[1] = q[1]
    BY <2>1, <2>4
  <2> QED
    BY <1>5, <2>1, <2>2, <2>5
<1>6. ASSUME NEW c \in Grid(b, D) PROVE \E p \in T : put(p) = c
  <2> DEFINE e == [y \in E |-> c[y]]
             p == <<e, c[x]>>
  <2>1. c \in [D -> Int] /\ \A y \in D : b[y].lo <= c[y] /\ c[y] < b[y].hi
    BY DEF Grid, Holds
  <2>2. c[x] \in I
    BY <1>3, <2>1
  <2>3. e \in Grid(b, E)
    BY <2>1 DEF Grid, Holds
  <2>4. put(p) = c
    BY <2>1
  <2> QED
    BY <2>2, <2>3, <2>4
<1> HIDE DEF T, put
<1>7. h \in Bijection(T, Grid(b, D))
  <2>1. h \in [T -> Grid(b, D)]
    BY <1>4
  <2>2. \A p \in T : h[p] = put(p)
    OBVIOUS
  <2> HIDE DEF h
  <2>3. \A p, q \in T : h[p] = h[q] => p = q
    BY <1>5, <2>2
  <2>4. \A c \in Grid(b, D) : \E p \in T : h[p] = c
    BY <1>6, <2>2
  <2> QED
    BY <2>1, <2>3, <2>4 DEF Bijection, Injection, Surjection, IsInjective
<1> QED
  BY <1>7 DEF ExistsBijection, T, I, E

LEMMA GridSize ==
    ASSUME NEW S, IsFiniteSet(S), NEW b, Ends(b, S), NEW f, \A x \in S : f[x] = Extent(b[x])
    PROVE  \A D \in SUBSET S : /\ IsFiniteSet(Grid(b, D))
                               /\ Cardinality(Grid(b, D)) = ProductOver(f, D)
<1> DEFINE P == {D \in SUBSET S : /\ IsFiniteSet(Grid(b, D))
                                  /\ Cardinality(Grid(b, D)) = ProductOver(f, D)}
<1>1. \A x \in S : f[x] \in Nat /\ f[x] = b[x].hi - b[x].lo
  BY DEF Ends, Extent
<1>2. ASSUME NEW D \in SUBSET S, \A E \in SUBSET D : E # D => E \in P PROVE D \in P
  <2>1. IsFiniteSet(D) /\ \A x \in D : f[x] \in Int
    BY <1>1, FS_Subset
  <2>2. CASE D = {}
    <3> DEFINE e == [x \in {} |-> 0]
    <3>1. Grid(b, D) = {e}
      BY <2>2 DEF Grid, Holds
    <3> HIDE DEF e
    <3>2. IsFiniteSet(Grid(b, D)) /\ Cardinality(Grid(b, D)) = 1
      <4>1. IsFiniteSet({e}) /\ Cardinality({e}) = 1
        BY FS_Singleton
      <4> QED
        BY <3>1, <4>1
    <3>3. ProductOver(f, D) = 1
      BY <2>1, <2>2, ProductOverStep
    <3> QED
      BY <3>2, <3>3
  <2>3. CASE D # {}
    <3>1. PICK x \in D : TRUE
      BY <2>3
    <3> DEFINE I == b[x].lo .. b[x].hi - 1
               G == Grid(b, D \ {x})
               T == G \X I
    <3>2. IsFiniteSet(G) /\ Cardinality(G) = ProductOver(f, D \ {x})
      <4>1. D \ {x} \in P
        BY <1>2, <3>1
      <4> QED
        BY <4>1
    <3>3. IsFiniteSet(I) /\ Cardinality(I) = f[x]
      <4>1. b[x].lo \in Int /\ b[x].hi - 1 \in Int /\ b[x].hi \in Int /\ b[x].lo <= b[x].hi
        BY DEF Ends
      <4>2. IsFiniteSet(I) /\ Cardinality(I) = IF b[x].lo > b[x].hi - 1 THEN 0
                                               ELSE b[x].hi - 1 - b[x].lo + 1
        BY <4>1, FS_Interval
      <4> HIDE DEF I
      <4> QED
        BY <1>1, <4>1, <4>2
    <3>4. Ends(b, D)
      BY DEF Ends
    <3>5. ExistsBijection(T, Grid(b, D))
      BY <3>1, <3>4, GridTimes
    <3> HIDE DEF I, G
    <3>6. IsFiniteSet(T) /\ Cardinality(T) = ProductOver(f, D \ {x}) * f[x]
      BY <3>2, <3>3, FS_Product
    <3> HIDE DEF T
    <3>7. IsFiniteSet(Grid(b, D)) /\ Cardinality(Grid(b, D)) = ProductOver(f, D \ {x}) * f[x]
      BY <3>5, <3>6, FS_Bijection
    <3>8. /\ ProductOver(f, D) = f[x] * ProductOver(f, D \ {x})
          /\ ProductOver(f, D \ {x}) \in Int
      BY <2>1, <3>1, ProductOverStep
    <3>9. \A m, n \in Int : m * n = n * m
      OBVIOUS
    <3> QED
      BY <2>1, <3>1, <3>7, <3>8, <3>9
  <2> QED
    BY <2>2, <2>3
<1> HIDE DEF P
<1>3. \A D \in SUBSET S : D \in P
  BY <1>2, Subsetwise
<1> QED
  BY <1>3 DEF P

LEMMA ProductOfOnes ==
    ASSUME NEW S, IsFiniteSet(S), NEW f, \A x \in S : f[x] = 1
    PROVE  ProductOver(f, S) = 1
<1> DEFINE P == {T \in SUBSET S : ProductOver(f, T) = 1}
<1>1. ASSUME NEW T \in SUBSET S, \A U \in SUBSET T : U # T => U \in P PROVE T \in P
  <2>1. IsFiniteSet(T) /\ \A t \in T : f[t] \in Int /\ f[t] = 1
    BY FS_Subset
  <2>2. CASE T = {}
    BY <2>1, <2>2, ProductOverStep
  <2>3. CASE T # {}
    <3>1. PICK x \in T : TRUE
      BY <2>3
    <3>2. ProductOver(f, T) = f[x] * ProductOver(f, T \ {x})
      BY <2>1, ProductOverStep
    <3>3. T \ {x} \in P
      BY <1>1
    <3> QED
      BY <2>1, <3>2, <3>3
  <2> QED
    BY <2>2, <2>3
<1> HIDE DEF P
<1>2. \A T \in SUBSET S : T \in P
  BY <1>1, Subsetwise
<1> QED
  BY <1>2 DEF P

(* A tree that is finished, over numbers in the domain. *)
Grown == SizeInv /\ Finished /\ InDomain /\ Measured

LeafOf(l, c) == Holds(l.box, c, Breadth) /\ \A k \in leaves : Holds(k.box, c, Breadth) => k = l

LEMMA GrownFacts ==
    ASSUME Grown
    PROVE  /\ IsFiniteSet(Features) /\ IsFiniteSet(Breadth) /\ IsFiniteSet(leaves)
           /\ data.bounds \in Boxes /\ Nested(data.bounds)
           /\ \A l \in leaves : l.box \in Boxes /\ Nested(l.box) /\ l.value \in Int
           /\ \A c \in UnitCells(Breadth) : \E l \in leaves : LeafOf(l, c)
<1>1. IsFiniteSet(Features) /\ IsFiniteSet(leaves) /\ \A l \in leaves : l.value \in Int
  BY FeaturesFinite DEF Grown, SizeInv, Sized
<1>2. IsFiniteSet(Breadth)
  BY <1>1, FS_Subset DEF Breadth
<1>3. Pieces = leaves /\ Nodes /\ Tiled
  BY DEF Grown, SizeInv, TreeInv, Finished, Started, Pieces
<1>4. \A l \in leaves : l.box \in Boxes /\ Nested(l.box)
  BY <1>3 DEF Nodes
<1>5. \A c \in UnitCells(Breadth) : \E l \in leaves : LeafOf(l, c)
  BY <1>3 DEF Tiled, LeafOf
<1>6. data.bounds \in Boxes /\ \A n \in Rows : InBox(n, data.bounds)
  BY DEF Grown, InDomain
<1>7. Nested(data.bounds)
  <2>1. PICK n \in Rows : TRUE
    BY DEF Grown, SizeInv, TreeInv
  <2>2. \A x \in Features : data.bounds[x].lo <= data.x[n][x] /\ data.x[n][x] <= data.bounds[x].hi
    BY <1>6 DEF InBox
  <2>3. \A x \in Features : /\ data.bounds[x].lo \in Int /\ data.bounds[x].hi \in Int
                            /\ data.x[n][x] \in Int
    BY <1>6 DEF Grown, InDomain, Boxes
  <2> QED
    BY <2>2, <2>3 DEF Nested
<1> QED
  BY <1>1, <1>2, <1>4, <1>5, <1>6, <1>7

\* The volume of a box of the domain in some dimensions, over those with width: as many
\* unit cells as it holds.
LEMMA SideFacts ==
    ASSUME Grown, NEW b \in Boxes, Nested(b)
    PROVE  /\ \A D \in SUBSET Features : SideProduct(b, D) = SideProduct(b, D \cap Breadth)
           /\ \A D \in SUBSET Breadth : /\ IsFiniteSet(Grid(b, D))
                                        /\ Cardinality(Grid(b, D)) = SideProduct(b, D)
<1> DEFINE f == [x \in Features |-> Side(b, x)]
<1>1. IsFiniteSet(Features) /\ Breadth \subseteq Features /\ data.bounds \in Boxes
  BY GrownFacts DEF Breadth
<1>2. \A x \in Features : /\ b[x].lo \in Int /\ b[x].hi \in Int /\ b[x].lo <= b[x].hi
                          /\ Extent(b[x]) \in Nat
  BY DEF Boxes, Nested, Extent
<1>3. /\ \A x \in Breadth : f[x] = Extent(b[x])
      /\ \A x \in Features : x \notin Breadth => f[x] = 1
      /\ \A x \in Features : f[x] \in Int
  BY <1>1, <1>2 DEF Side, Breadth
<1>4. \A D \in SUBSET Features : SideProduct(b, D) = ProductOver(f, D)
  <2> SUFFICES ASSUME NEW D \in SUBSET Features PROVE SideProduct(b, D) = ProductOver(f, D)
    OBVIOUS
  <2>1. [x \in D |-> Side(b, x)] = [x \in D |-> f[x]]
    OBVIOUS
  <2> QED
    BY <2>1 DEF SideProduct, ProductOver
<1> HIDE DEF f
<1>5. ASSUME NEW D \in SUBSET Features
      PROVE  SideProduct(b, D) = SideProduct(b, D \cap Breadth)
  <2> DEFINE W == D \cap Breadth  V == D \ Breadth
  <2>1. /\ IsFiniteSet(W) /\ IsFiniteSet(V) /\ W \cap V = {} /\ D = W \cup V
        /\ W \in SUBSET Features
        /\ (\A x \in W \cup V : f[x] \in Int) /\ \A x \in V : f[x] = 1
    BY <1>1, <1>3, FS_Subset
  <2> HIDE DEF W, V
  <2>2. ProductOver(f, D) = ProductOver(f, W) * ProductOver(f, V)
    BY <2>1, ProductParts
  <2>3. ProductOver(f, V) = 1
    BY <2>1, ProductOfOnes
  <2>4. ProductOver(f, W) \in Int
    BY <2>1, ProductOverStep
  <2>5. SideProduct(b, D) = SideProduct(b, W)
    BY <1>4, <2>1, <2>2, <2>3, <2>4
  <2> QED
    BY <2>5 DEF W
<1>6. \A D \in SUBSET Breadth : /\ IsFiniteSet(Grid(b, D))
                                /\ Cardinality(Grid(b, D)) = SideProduct(b, D)
  <2>1. IsFiniteSet(Breadth) /\ Ends(b, Breadth)
    BY <1>1, <1>2, FS_Subset DEF Ends
  <2>2. \A D \in SUBSET Breadth : /\ IsFiniteSet(Grid(b, D))
                                  /\ Cardinality(Grid(b, D)) = ProductOver(f, D)
    BY <1>3, <2>1, GridSize
  <2> QED
    BY <1>1, <1>4, <2>2
<1> QED
  BY <1>5, <1>6

LEMMA UnitCellsAreGrid ==
    ASSUME Grown, NEW D \in SUBSET Features
    PROVE  UnitCells(D) = Grid(data.bounds, D)
<1> DEFINE V == UNION {data.bounds[x].lo .. data.bounds[x].hi - 1 : x \in D}
<1>1. \A x \in D : data.bounds[x].lo \in Int /\ data.bounds[x].hi \in Int
  BY GrownFacts DEF Boxes
<1>2. V \subseteq Int
  BY <1>1
<1>3. ASSUME NEW x \in D, NEW i \in Int, data.bounds[x].lo <= i, i < data.bounds[x].hi
      PROVE  i \in V
  <2>1. i \in data.bounds[x].lo .. data.bounds[x].hi - 1
    BY <1>1, <1>3
  <2> QED
    BY <2>1
<1> HIDE DEF V
<1>4. ASSUME NEW c \in [D -> Int], Holds(data.bounds, c, D) PROVE c \in [D -> V]
  <2>1. \A x \in D : c[x] \in V
    BY <1>3, <1>4 DEF Holds
  <2> QED
    BY <2>1
<1>5. [D -> V] \subseteq [D -> Int]
  BY <1>2
<1>6. UnitCells(D) = {c \in [D -> V] : Holds(data.bounds, c, D)}
  BY DEF UnitCells, V
<1> QED
  BY <1>4, <1>5, <1>6 DEF Grid

-----------------------------------------------------------------------------
(* Integrals, leaf by leaf *)

LEMMA PredictionIs ==
    ASSUME NEW l \in leaves, NEW c, LeafOf(l, c)
    PROVE  Prediction(c) = l.value
<1>1. \A k \in leaves : Holds(k.box, c, Breadth) <=> k = l
  BY DEF LeafOf
<1>2. (CHOOSE k \in leaves : Holds(k.box, c, Breadth)) = l
  BY <1>1
<1> QED
  BY <1>2 DEF Prediction

\* A smaller box of the domain has no other unit cells.
LEMMA GridInside ==
    ASSUME Grown, NEW b \in Boxes, Nested(b), NEW D \in SUBSET Features
    PROVE  Grid(b, D) \subseteq UnitCells(D)
<1> SUFFICES ASSUME NEW c \in Grid(b, D) PROVE c \in Grid(data.bounds, D)
  BY UnitCellsAreGrid
<1>1. c \in [D -> Int] /\ \A x \in D : b[x].lo <= c[x] /\ c[x] < b[x].hi
  BY DEF Grid, Holds
<1>2. \A x \in D : /\ data.bounds[x].lo <= b[x].lo /\ b[x].hi <= data.bounds[x].hi
                   /\ b[x].lo \in Int /\ b[x].hi \in Int
                   /\ data.bounds[x].lo \in Int /\ data.bounds[x].hi \in Int
  BY GrownFacts DEF Nested, Boxes
<1>3. \A x \in D : data.bounds[x].lo <= c[x] /\ c[x] < data.bounds[x].hi
  BY <1>1, <1>2
<1> QED
  BY <1>1, <1>3 DEF Grid, Holds

\* A cell of some dimensions and one of the others make a cell of all.
LEMMA JoinFacts ==
    ASSUME Grown, NEW D \in SUBSET Breadth, NEW u \in UnitCells(D), NEW v \in UnitCells(Breadth \ D)
    PROVE  /\ Join(u, v) \in UnitCells(Breadth)
           /\ \A x \in D : Join(u, v)[x] = u[x]
           /\ \A x \in Breadth \ D : Join(u, v)[x] = v[x]
<1>1. Breadth \subseteq Features
  BY DEF Breadth
<1>2. /\ u \in Grid(data.bounds, D) /\ v \in Grid(data.bounds, Breadth \ D)
      /\ UnitCells(Breadth) = Grid(data.bounds, Breadth)
  BY <1>1, UnitCellsAreGrid
<1>3. /\ DOMAIN u = D /\ DOMAIN v = Breadth \ D /\ D \cup (Breadth \ D) = Breadth
      /\ \A x \in D : u[x] \in Int /\ data.bounds[x].lo <= u[x] /\ u[x] < data.bounds[x].hi
      /\ \A x \in Breadth \ D : /\ v[x] \in Int
                                /\ data.bounds[x].lo <= v[x] /\ v[x] < data.bounds[x].hi
  BY <1>2 DEF Grid, Holds
<1>4. Join(u, v) = [x \in Breadth |-> IF x \in D THEN u[x] ELSE v[x]]
  BY <1>3 DEF Join
<1>5. Join(u, v) \in Grid(data.bounds, Breadth)
  BY <1>3, <1>4 DEF Grid, Holds
<1> QED
  BY <1>2, <1>4, <1>5

\* A leaf's share of the integral at u: its prediction, as often as it has cells with u.
Share(D) == [l \in leaves |-> l.value * SideProduct(l.box, Features \ D)]

Above(D, u) == {l \in leaves : Holds(l.box, u, D)}

LEMMA IntegralByLeaves ==
    ASSUME Grown, NEW D \in SUBSET Breadth, NEW u \in UnitCells(D)
    PROVE  /\ Integral(D, u) = SumOver(Share(D), Above(D, u))
           /\ Integral(D, u) \in Int
<1> DEFINE E == Breadth \ D
           S == UnitCells(E)
           C == Above(D, u)
           f == [v \in S |-> Prediction(Join(u, v))]
           k == [v \in S |-> CHOOSE l \in leaves : LeafOf(l, Join(u, v))]
           part(l) == {v \in S : k[v] = l}
           g == Share(D)
<1>1. /\ IsFiniteSet(leaves) /\ Breadth \subseteq Features
      /\ data.bounds \in Boxes /\ Nested(data.bounds)
      /\ \A l \in leaves : l.box \in Boxes /\ Nested(l.box) /\ l.value \in Int
  BY GrownFacts DEF Breadth
<1>2. IsFiniteSet(S) /\ IsFiniteSet(C)
  <2>1. S = Grid(data.bounds, E)
    BY <1>1, UnitCellsAreGrid
  <2> QED
    BY <1>1, <2>1, SideFacts, FS_Subset DEF Above
<1>3. ASSUME NEW v \in S PROVE k[v] \in leaves /\ LeafOf(k[v], Join(u, v))
  <2>1. Join(u, v) \in UnitCells(Breadth)
    BY JoinFacts
  <2> QED
    BY <2>1, GrownFacts
<1>4. ASSUME NEW v \in S PROVE f[v] = k[v].value /\ f[v] \in Int
  <2>1. f[v] = Prediction(Join(u, v))
    OBVIOUS
  <2>2. Prediction(Join(u, v)) = k[v].value
    BY <1>3, PredictionIs
  <2> QED
    BY <1>1, <1>3, <2>1, <2>2
<1>5. k \in [S -> C]
  <2>1. ASSUME NEW v \in S PROVE k[v] \in C
    <3>1. \A x \in D : Join(u, v)[x] = u[x]
      BY JoinFacts
    <3>2. k[v] \in leaves /\ Holds(k[v].box, Join(u, v), Breadth)
      BY <1>3 DEF LeafOf
    <3> HIDE DEF k
    <3>3. Holds(k[v].box, u, D)
      BY <3>1, <3>2 DEF Holds
    <3> QED
      BY <3>2, <3>3 DEF Above
  <2> QED
    BY <2>1
<1>6. ASSUME NEW l \in C PROVE part(l) = Grid(l.box, E)
  <2>1. l \in leaves /\ Holds(l.box, u, D)
    BY DEF Above
  <2>2. ASSUME NEW v \in S, k[v] = l PROVE v \in Grid(l.box, E)
    <3>1. Holds(l.box, Join(u, v), Breadth)
      BY <1>3, <2>2 DEF LeafOf
    <3>2. \A x \in E : Join(u, v)[x] = v[x]
      BY JoinFacts
    <3>3. Holds(l.box, v, E)
      BY <3>1, <3>2 DEF Holds
    <3>4. v \in [E -> Int]
      BY <1>1, UnitCellsAreGrid DEF Grid
    <3> QED
      BY <3>3, <3>4 DEF Grid
  <2>3. ASSUME NEW v \in Grid(l.box, E) PROVE v \in S /\ k[v] = l
    <3>1. v \in S
      BY <1>1, <2>1, GridInside
    <3>2. /\ \A x \in D : Join(u, v)[x] = u[x]
          /\ \A x \in E : Join(u, v)[x] = v[x]
      BY <3>1, JoinFacts
    <3>3. Holds(l.box, Join(u, v), Breadth)
      BY <2>1, <3>2 DEF Grid, Holds
    <3>4. LeafOf(k[v], Join(u, v))
      BY <1>3, <3>1
    <3>5. l = k[v]
      BY <2>1, <3>3, <3>4 DEF LeafOf
    <3> QED
      BY <3>1, <3>5
  <2> QED
    BY <2>2, <2>3
<1>7. ASSUME NEW l \in C PROVE g[l] = SumOver(f, part(l))
  <2>1. /\ l \in leaves /\ l.value \in Int /\ l.box \in Boxes /\ Nested(l.box)
    BY <1>1 DEF Above
  <2>2. E \in SUBSET Breadth /\ part(l) = Grid(l.box, E)
    BY <1>6
  <2>3. \A v \in part(l) : f[v] = l.value
    BY <1>4
  <2> HIDE DEF part
  <2>4. IsFiniteSet(part(l)) /\ Cardinality(part(l)) = SideProduct(l.box, E)
    BY <2>1, <2>2, SideFacts
  <2> HIDE DEF f
  <2>5. SumOver(f, part(l)) = SideProduct(l.box, E) * l.value
    BY <2>1, <2>4, <2>3, SumOfEquals
  <2>6. SideProduct(l.box, Features \ D) = SideProduct(l.box, E)
    <3>1. (Features \ D) \cap Breadth = E
      BY <1>1
    <3> QED
      BY <2>1, <3>1, SideFacts
  <2>7. g[l] = l.value * SideProduct(l.box, Features \ D)
    BY <2>1 DEF Share
  <2>8. SideProduct(l.box, E) \in Int
    BY <2>4, FS_CardinalityType
  <2>9. \A m, n \in Int : m * n = n * m
    OBVIOUS
  <2> QED
    BY <2>1, <2>5, <2>6, <2>7, <2>8, <2>9
<1>8. Integral(D, u) = SumOver(f, S)
  <2>1. [v \in S |-> Prediction(Join(u, v))] = [v \in S |-> f[v]]
    OBVIOUS
  <2> QED
    BY <2>1 DEF Integral, SumOver
<1> HIDE DEF S, C, f, g, k
<1>9. \A l \in C : g[l] = PartOf(f, S, k, l)
  BY <1>7 DEF PartOf
<1>10. \A v \in S : f[v] \in Int
  BY <1>4
<1>11. SumOver(f, S) = SumOver(g, C)
  BY <1>2, <1>5, <1>9, <1>10, SumByParts
<1>12. SumOver(f, S) \in Int
  BY <1>2, <1>4, SumOverStep
<1> QED
  BY <1>8, <1>11, <1>12 DEF C, g

-----------------------------------------------------------------------------
(* The cells between the boundaries of leaves. *)
Marks(x) == {l.box[x].lo : l \in leaves} \cup {l.box[x].hi : l \in leaves}

\* The leaves reach the ends of the domain and nothing beyond.
LEMMA MarksFacts ==
    ASSUME Grown, NEW x \in Breadth
    PROVE  /\ data.bounds[x].lo \in Marks(x) /\ data.bounds[x].hi \in Marks(x)
           /\ data.bounds[x].lo \in Int /\ data.bounds[x].hi \in Int
           /\ \A m \in Marks(x) : m \in Int /\ data.bounds[x].lo <= m /\ m <= data.bounds[x].hi
<1> DEFINE b == data.bounds
           low == [y \in Breadth |-> b[y].lo]
           high == [y \in Breadth |-> b[y].hi - 1]
<1>1. /\ Breadth \subseteq Features
      /\ \A y \in Features : b[y].lo \in Int /\ b[y].hi \in Int
      /\ \A y \in Breadth : b[y].lo < b[y].hi
  <2>1. b \in Boxes /\ Breadth \subseteq Features
    BY GrownFacts DEF Breadth
  <2>2. \A y \in Features : b[y].lo \in Int /\ b[y].hi \in Int
    BY <2>1 DEF Boxes
  <2>3. \A y \in Breadth : b[y].lo < b[y].hi
    BY <2>1, <2>2 DEF Breadth, HasWidth, Extent
  <2> QED
    BY <2>1, <2>2, <2>3
<1>2. UnitCells(Breadth) = Grid(b, Breadth)
  BY <1>1, UnitCellsAreGrid
<1>3. \A l \in leaves : /\ l.box[x].lo \in Int /\ l.box[x].hi \in Int
                        /\ b[x].lo <= l.box[x].lo /\ l.box[x].lo <= l.box[x].hi
                        /\ l.box[x].hi <= b[x].hi
  BY <1>1, GrownFacts DEF Boxes, Nested
<1>4. low \in UnitCells(Breadth)
  <2>1. low \in [Breadth -> Int] /\ \A y \in Breadth : b[y].lo <= low[y] /\ low[y] < b[y].hi
    BY <1>1
  <2> HIDE DEF low
  <2> QED
    BY <1>2, <2>1 DEF Grid, Holds
<1>5. high \in UnitCells(Breadth)
  <2>1. high \in [Breadth -> Int] /\ \A y \in Breadth : b[y].lo <= high[y] /\ high[y] < b[y].hi
    BY <1>1
  <2> HIDE DEF high
  <2> QED
    BY <1>2, <2>1 DEF Grid, Holds
<1>6. low[x] = b[x].lo /\ high[x] = b[x].hi - 1
  OBVIOUS
<1> HIDE DEF low, high
<1>7. b[x].lo \in Marks(x)
  <2>1. PICK l \in leaves : Holds(l.box, low, Breadth)
    BY <1>4, GrownFacts DEF LeafOf
  <2>2. l.box[x].lo <= low[x]
    BY <2>1 DEF Holds
  <2>3. l.box[x].lo = b[x].lo
    BY <1>1, <1>3, <1>6, <2>2
  <2> QED
    BY <2>3 DEF Marks
<1>8. b[x].hi \in Marks(x)
  <2>1. PICK l \in leaves : Holds(l.box, high, Breadth)
    BY <1>5, GrownFacts DEF LeafOf
  <2>2. high[x] < l.box[x].hi
    BY <2>1 DEF Holds
  <2>3. l.box[x].hi = b[x].hi
    BY <1>1, <1>3, <1>6, <2>2
  <2> QED
    BY <2>3 DEF Marks
<1>9. \A m \in Marks(x) : m \in Int /\ b[x].lo <= m /\ m <= b[x].hi
  BY <1>1, <1>3 DEF Marks
<1> QED
  BY <1>1, <1>7, <1>8, <1>9

LEMMA IntervalFacts ==
    ASSUME NEW x, NEW i
    PROVE  i \in Intervals(x) <=> /\ i \in [lo : Marks(x), hi : Marks(x)] /\ i.lo < i.hi
                                  /\ ~\E m \in Marks(x) : i.lo < m /\ m < i.hi
BY DEF Intervals, Marks

\* Between the largest mark up to t and the least one after it lies t, and in no other
\* interval.
LEMMA IntervalAt ==
    ASSUME Grown, NEW x \in Breadth, NEW t \in Int,
           data.bounds[x].lo <= t, t < data.bounds[x].hi
    PROVE  \E i \in Intervals(x) : /\ i.lo <= t /\ t < i.hi
                                   /\ \A j \in Intervals(x) : j.lo <= t /\ t < j.hi => j = i
<1> DEFINE M == Marks(x)
           below == {t - m : m \in {k \in M : k <= t}}
           after == {m - t : m \in {k \in M : t < k}}
<1>1. /\ \A m \in M : m \in Int
      /\ data.bounds[x].lo \in M /\ data.bounds[x].hi \in M
  BY MarksFacts
<1> HIDE DEF M
<1>2. PICK p \in M : p <= t /\ \A m \in M : m <= t => m <= p
  <2>1. below \subseteq Nat /\ below # {}
    BY <1>1
  <2> HIDE DEF below
  <2>2. PICK a \in below : \A z \in below : a <= z
    BY <2>1, LeastNatural
  <2>3. PICK p \in M : p <= t /\ a = t - p
    BY DEF below
  <2>4. ASSUME NEW m \in M, m <= t PROVE m <= p
    <3>1. t - m \in below
      BY <2>4 DEF below
    <3>2. t - p <= t - m
      BY <2>2, <2>3, <3>1
    <3> QED
      BY <1>1, <3>2
  <2> QED
    BY <2>3, <2>4
<1>3. PICK q \in M : t < q /\ \A m \in M : t < m => q <= m
  <2>1. after \subseteq Nat /\ after # {}
    BY <1>1
  <2> HIDE DEF after
  <2>2. PICK a \in after : \A z \in after : a <= z
    BY <2>1, LeastNatural
  <2>3. PICK q \in M : t < q /\ a = q - t
    BY DEF after
  <2>4. ASSUME NEW m \in M, t < m PROVE q <= m
    <3>1. m - t \in after
      BY <2>4 DEF after
    <3>2. q - t <= m - t
      BY <2>2, <2>3, <3>1
    <3> QED
      BY <1>1, <3>2
  <2> QED
    BY <2>3, <2>4
<1> DEFINE i == [lo |-> p, hi |-> q]
<1>4. p \in Int /\ q \in Int /\ p < q
  BY <1>1, <1>2, <1>3
<1>5. ~\E m \in M : p < m /\ m < q
  BY <1>1, <1>2, <1>3, <1>4
<1>6. i.lo = p /\ i.hi = q /\ i \in [lo : M, hi : M]
  OBVIOUS
<1>7. i \in Intervals(x)
  BY <1>4, <1>5, <1>6, IntervalFacts DEF M
<1>8. ASSUME NEW j \in Intervals(x), j.lo <= t, t < j.hi PROVE j = i
  <2>1. j \in [lo : M, hi : M] /\ ~\E m \in M : j.lo < m /\ m < j.hi
    BY IntervalFacts DEF M
  <2>2. j.lo \in M /\ j.hi \in M /\ j = [lo |-> j.lo, hi |-> j.hi]
    BY <2>1
  <2>3. j.lo <= p /\ q <= j.hi
    BY <1>2, <1>3, <1>8, <2>2
  <2>4. j.lo = p /\ j.hi = q
    BY <1>1, <1>2, <1>3, <1>4, <2>1, <2>2, <2>3
  <2> QED
    BY <2>2, <2>4
<1> HIDE DEF i
<1> QED
  BY <1>2, <1>3, <1>6, <1>7, <1>8

LEMMA IntervalInside ==
    ASSUME Grown, NEW x \in Breadth, NEW i \in Intervals(x)
    PROVE  /\ i.lo \in Int /\ i.hi \in Int /\ i.lo < i.hi
           /\ data.bounds[x].lo <= i.lo /\ i.hi <= data.bounds[x].hi
<1>1. i.lo \in Marks(x) /\ i.hi \in Marks(x) /\ i.lo < i.hi
  BY IntervalFacts
<1> QED
  BY <1>1, MarksFacts

\* A cell of the grid holds unit cells of the domain, as many as it measures.
LEMMA CellFacts ==
    ASSUME Grown, NEW D \in SUBSET Breadth, NEW c \in Cells(D)
    PROVE  /\ \A x \in D : /\ c[x] \in Intervals(x)
                           /\ c[x].lo \in Int /\ c[x].hi \in Int /\ c[x].lo < c[x].hi
           /\ DOMAIN c = D /\ c = [x \in D |-> c[x]]
           /\ Grid(c, D) \subseteq UnitCells(D) /\ Grid(c, D) # {}
           /\ IsFiniteSet(Grid(c, D)) /\ Cardinality(Grid(c, D)) = Measure(c)
<1> DEFINE f == [x \in D |-> Extent(c[x])]
           e == [x \in D |-> c[x].lo]
<1>1. /\ DOMAIN c = D /\ c = [x \in D |-> c[x]] /\ \A x \in D : c[x] \in Intervals(x)
  BY DEF Cells
<1>2. \A x \in D : /\ c[x].lo \in Int /\ c[x].hi \in Int /\ c[x].lo < c[x].hi
                   /\ data.bounds[x].lo <= c[x].lo /\ c[x].hi <= data.bounds[x].hi
                   /\ data.bounds[x].lo \in Int /\ data.bounds[x].hi \in Int
  BY <1>1, IntervalInside, MarksFacts
<1>3. IsFiniteSet(D) /\ D \subseteq Features
  BY GrownFacts, FS_Subset DEF Breadth
<1>4. Ends(c, D) /\ \A x \in D : f[x] = Extent(c[x])
  BY <1>2 DEF Ends
<1>5. Measure(c) = ProductOver(f, D)
  <2>1. [x \in DOMAIN c |-> Extent(c[x])] = [x \in D |-> f[x]]
    BY <1>1
  <2> QED
    BY <2>1 DEF Measure, ProductOver
<1> HIDE DEF f
<1>6. D \in SUBSET D
  OBVIOUS
<1>7. IsFiniteSet(Grid(c, D)) /\ Cardinality(Grid(c, D)) = Measure(c)
  BY <1>3, <1>4, <1>5, <1>6, GridSize
<1>8. Grid(c, D) \subseteq UnitCells(D)
  <2> SUFFICES ASSUME NEW u \in Grid(c, D) PROVE u \in Grid(data.bounds, D)
    BY <1>3, UnitCellsAreGrid
  <2>1. u \in [D -> Int] /\ \A x \in D : c[x].lo <= u[x] /\ u[x] < c[x].hi
    BY DEF Grid, Holds
  <2>2. \A x \in D : data.bounds[x].lo <= u[x] /\ u[x] < data.bounds[x].hi
    BY <1>2, <2>1
  <2> QED
    BY <2>1, <2>2 DEF Grid, Holds
<1>9. e \in Grid(c, D)
  <2>1. e \in [D -> Int] /\ \A x \in D : c[x].lo <= e[x] /\ e[x] < c[x].hi
    BY <1>2
  <2> HIDE DEF e
  <2> QED
    BY <2>1 DEF Grid, Holds
<1> QED
  BY <1>1, <1>2, <1>7, <1>8, <1>9

\* Every unit cell lies in one cell of the grid.
LEMMA CellAt ==
    ASSUME Grown, NEW D \in SUBSET Breadth, NEW u \in UnitCells(D)
    PROVE  \E c \in Cells(D) : u \in Grid(c, D) /\ \A d \in Cells(D) : u \in Grid(d, D) => d = c
<1> DEFINE In(i, x) == i.lo <= u[x] /\ u[x] < i.hi
           c == [x \in D |-> CHOOSE i \in Intervals(x) : In(i, x)]
<1>1. u \in [D -> Int] /\ \A x \in D : data.bounds[x].lo <= u[x] /\ u[x] < data.bounds[x].hi
  <2>1. u \in Grid(data.bounds, D)
    BY UnitCellsAreGrid DEF Breadth
  <2> QED
    BY <2>1 DEF Grid, Holds
<1>2. ASSUME NEW x \in D
      PROVE  \E i \in Intervals(x) : In(i, x) /\ \A j \in Intervals(x) : In(j, x) => j = i
  <2>1. u[x] \in Int /\ data.bounds[x].lo <= u[x] /\ u[x] < data.bounds[x].hi /\ x \in Breadth
    BY <1>1
  <2> QED
    BY <2>1, IntervalAt
<1> HIDE DEF In
<1>3. \A x \in D : /\ c[x] \in Intervals(x) /\ In(c[x], x)
                   /\ \A j \in Intervals(x) : In(j, x) => j = c[x]
  BY <1>2
<1>4. DOMAIN c = D /\ c = [x \in D |-> c[x]]
  OBVIOUS
<1> HIDE DEF c
<1>5. c \in Cells(D)
  BY <1>3, <1>4 DEF Cells
<1>6. u \in Grid(c, D)
  BY <1>1, <1>3 DEF Grid, Holds, In
<1>7. ASSUME NEW d \in Cells(D), u \in Grid(d, D) PROVE d = c
  <2>1. d = [x \in D |-> d[x]] /\ \A x \in D : d[x] \in Intervals(x)
    BY CellFacts
  <2>2. \A x \in D : In(d[x], x)
    BY <1>7 DEF Grid, Holds, In
  <2>3. \A x \in D : d[x] = c[x]
    BY <1>3, <2>1, <2>2
  <2>4. [x \in D |-> d[x]] = [x \in D |-> c[x]]
    BY <2>3
  <2> QED
    BY <1>4, <2>1, <2>4
<1> QED
  BY <1>5, <1>6, <1>7

\* A leaf covers the middle of a cell if it holds any unit cell in it.
LEMMA CoversIsHolds ==
    ASSUME Grown, NEW D \in SUBSET Breadth, NEW c \in Cells(D), NEW u \in Grid(c, D),
           NEW l \in leaves
    PROVE  Covers(l.box, c) <=> Holds(l.box, u, D)
<1> SUFFICES ASSUME NEW x \in D
             PROVE  /\ 2 * l.box[x].lo <= c[x].lo + c[x].hi
                    /\ c[x].lo + c[x].hi <= 2 * l.box[x].hi
                    <=> l.box[x].lo <= u[x] /\ u[x] < l.box[x].hi
  BY CellFacts DEF Covers, Holds
<1>1. /\ c[x].lo \in Int /\ c[x].hi \in Int /\ c[x].lo < c[x].hi
      /\ ~\E m \in Marks(x) : c[x].lo < m /\ m < c[x].hi
  BY CellFacts, IntervalFacts
<1>2. u[x] \in Int /\ c[x].lo <= u[x] /\ u[x] < c[x].hi
  BY DEF Grid, Holds
<1>3. l.box[x].lo \in Marks(x) /\ l.box[x].hi \in Marks(x)
  BY DEF Marks
<1>4. l.box[x].lo \in Int /\ l.box[x].hi \in Int
  BY <1>3, MarksFacts
<1>5. l.box[x].lo <= c[x].lo \/ c[x].hi <= l.box[x].lo
  BY <1>1, <1>3, <1>4
<1>6. l.box[x].hi <= c[x].lo \/ c[x].hi <= l.box[x].hi
  BY <1>1, <1>3, <1>4
<1> QED
  BY <1>1, <1>2, <1>4, <1>5, <1>6

\* On a cell the marginal prediction is the integral over the other dimensions.
LEMMA MarginalIsIntegral ==
    ASSUME Grown, NEW D \in SUBSET Breadth, NEW c \in Cells(D), NEW u \in Grid(c, D)
    PROVE  Marginal(D, c) = Integral(D, u)
<1>1. {k \in leaves : Covers(k.box, c)} = Above(D, u)
  BY CoversIsHolds DEF Above
<1>2. [l \in Above(D, u) |-> l.value * SideProduct(l.box, Features \ D)]
          = [l \in Above(D, u) |-> Share(D)[l]]
  <2>1. \A l \in Above(D, u) : Share(D)[l] = l.value * SideProduct(l.box, Features \ D)
    BY DEF Share, Above
  <2> QED
    BY <2>1
<1>3. Marginal(D, c) = SumOver(Share(D), Above(D, u))
  BY <1>1, <1>2 DEF Marginal, SumOver
<1>4. u \in UnitCells(D)
  BY CellFacts
<1> QED
  BY <1>3, <1>4, IntegralByLeaves

-----------------------------------------------------------------------------
(* Variances of marginals *)

\* The mean prediction is the integral over all dimensions.
LEMMA FBarIsMean ==
    ASSUME Grown
    PROVE  /\ FBar = SumFunction([c \in UnitCells(Breadth) |-> Prediction(c)])
           /\ FBar \in Int
<1> DEFINE e == [x \in {} |-> 0]
           S == UnitCells(Breadth)
<1>1. {} \in SUBSET Breadth /\ Breadth \subseteq Features
  BY DEF Breadth
<1>2. e \in UnitCells({}) /\ DOMAIN e = {}
  <2>1. UnitCells({}) = Grid(data.bounds, {})
    BY UnitCellsAreGrid
  <2>2. e \in [{} -> Int] /\ DOMAIN e = {}
    OBVIOUS
  <2> HIDE DEF e
  <2> QED
    BY <2>1, <2>2 DEF Grid, Holds
<1> HIDE DEF e
<1>3. /\ Integral({}, e) = SumOver(Share({}), Above({}, e))
      /\ Integral({}, e) \in Int
  BY <1>1, <1>2, IntegralByLeaves
<1>4. Above({}, e) = leaves
  BY DEF Above, Holds
<1>5. FBar = SumOver(Share({}), leaves)
  <2>1. ASSUME NEW l \in leaves
        PROVE  SideProduct(l.box, Features) * l.value = Share({})[l]
    <3>1. Share({})[l] = l.value * SideProduct(l.box, Features)
      <4>1. Features \ {} = Features
        OBVIOUS
      <4> QED
        BY <4>1 DEF Share
    <3>2. l.box \in Boxes /\ Nested(l.box) /\ l.value \in Int
      BY GrownFacts
    <3>3. SideProduct(l.box, Features) \in Int
      <4>1. SideProduct(l.box, Features) = SideProduct(l.box, Breadth)
        <5>1. Features \cap Breadth = Breadth
          BY <1>1
        <5> QED
          BY <3>2, <5>1, SideFacts
      <4>2. Breadth \in SUBSET Breadth
        OBVIOUS
      <4>3. IsFiniteSet(Grid(l.box, Breadth)) /\ Cardinality(Grid(l.box, Breadth)) = SideProduct(l.box, Breadth)
        BY <3>2, <4>2, SideFacts
      <4> QED
        BY <4>1, <4>3, FS_CardinalityType
    <3>4. \A m, n \in Int : m * n = n * m
      OBVIOUS
    <3> QED
      BY <3>1, <3>2, <3>3, <3>4
  <2>2. [l \in leaves |-> SideProduct(l.box, Features) * l.value] = [l \in leaves |-> Share({})[l]]
    BY <2>1
  <2> QED
    BY <2>2 DEF FBar, SumOver
<1>6. Integral({}, e) = SumFunction([c \in S |-> Prediction(c)])
  <2>1. Breadth \ {} = Breadth
    OBVIOUS
  <2>2. ASSUME NEW v \in S PROVE Join(e, v) = v
    <3>1. v \in Grid(data.bounds, Breadth)
      BY <1>1, UnitCellsAreGrid
    <3>2. DOMAIN v = Breadth /\ v = [x \in Breadth |-> v[x]]
      BY <3>1 DEF Grid
    <3>3. \A x : x \notin DOMAIN e
      BY <1>2
    <3>4. DOMAIN e \cup DOMAIN v = Breadth
      BY <1>2, <3>2
    <3>5. Join(e, v) = [x \in Breadth |-> v[x]]
      BY <3>3, <3>4 DEF Join
    <3> QED
      BY <3>2, <3>5
  <2>3. [v \in S |-> Prediction(Join(e, v))] = [c \in S |-> Prediction(c)]
    BY <2>2
  <2> HIDE DEF S
  <2>4. Integral({}, e) = SumFunction([v \in S |-> Prediction(Join(e, v))])
    BY <2>1 DEF Integral, S
  <2> QED
    BY <2>3, <2>4
<1> QED
  BY <1>3, <1>4, <1>5, <1>6

LEMMA SquaredIsInt == ASSUME NEW a \in Int PROVE Squared(a) \in Nat
BY DEF Squared

\* What is squared at a unit cell of the dimensions D.
Gap(D) == [u \in UnitCells(D) |-> Integral(D, u) * Width(D) - FBar]

LEMMA GapFacts ==
    ASSUME Grown, NEW D \in SUBSET Breadth
    PROVE  /\ IsFiniteSet(UnitCells(D)) /\ Cardinality(UnitCells(D)) = Width(D) /\ Width(D) \in Int
           /\ \A u \in UnitCells(D) : /\ Gap(D)[u] = Integral(D, u) * Width(D) - FBar
                                      /\ Gap(D)[u] \in Int
<1>1. D \in SUBSET Features /\ data.bounds \in Boxes /\ Nested(data.bounds)
  BY GrownFacts DEF Breadth
<1>2. IsFiniteSet(UnitCells(D)) /\ Cardinality(UnitCells(D)) = Width(D)
  BY <1>1, UnitCellsAreGrid, SideFacts DEF Width
<1>3. Width(D) \in Int
  BY <1>2, FS_CardinalityType
<1>4. \A u \in UnitCells(D) : Integral(D, u) \in Int
  BY IntegralByLeaves
<1>5. FBar \in Int
  BY FBarIsMean
<1>6. \A a, b, c \in Int : a * b - c \in Int
  OBVIOUS
<1>7. \A u \in UnitCells(D) : Gap(D)[u] = Integral(D, u) * Width(D) - FBar
  BY DEF Gap
<1> QED
  BY <1>2, <1>3, <1>4, <1>5, <1>6, <1>7

\* The variance of the definition, as a sum over the unit cells.
Deviation(D) == [u \in UnitCells(D) |-> Squared(Gap(D)[u])]

LEMMA VarianceForm ==
    ASSUME Grown, NEW D \in SUBSET Breadth
    PROVE  VarianceByCells(D) = Width(Breadth \ D) * SumOver(Deviation(D), UnitCells(D))
<1>1. \A u \in UnitCells(D) : Deviation(D)[u] = Squared(Integral(D, u) * Width(D) - FBar)
  BY GapFacts DEF Deviation
<1>2. [u \in UnitCells(D) |-> Squared(Integral(D, u) * Width(D) - FBar)]
          = [u \in UnitCells(D) |-> Deviation(D)[u]]
  BY <1>1
<1>3. FBar = SumFunction([c \in UnitCells(Breadth) |-> Prediction(c)])
  BY FBarIsMean
<1> QED
  BY <1>2, <1>3 DEF VarianceByCells, SumOver

LEMMA MarginalVarianceIsExact ==
    ASSUME Grown, NEW D \in SUBSET Breadth
    PROVE  MarginalVariance(D) = VarianceByCells(D)
<1> DEFINE S == UnitCells(D)
           C == Cells(D)
           k == [u \in S |-> CHOOSE c \in C : u \in Grid(c, D)]
           f == Deviation(D)
           g == [c \in C |-> Measure(c) * Squared(Marginal(D, c) * Width(D) - FBar)]
<1>1. IsFiniteSet(S) /\ \A u \in S : f[u] \in Int
  <2>1. \A u \in S : Gap(D)[u] \in Int
    BY GapFacts
  <2>2. \A u \in S : f[u] = Squared(Gap(D)[u])
    BY DEF Deviation
  <2>3. \A u \in S : Squared(Gap(D)[u]) \in Int
    BY <2>1, SquaredIsInt
  <2> QED
    BY <2>2, <2>3, GapFacts
<1>2. \A u \in S : k[u] \in C /\ u \in Grid(k[u], D) /\ \A c \in C : u \in Grid(c, D) => c = k[u]
  <2> SUFFICES ASSUME NEW u \in S
               PROVE  k[u] \in C /\ u \in Grid(k[u], D) /\ \A c \in C : u \in Grid(c, D) => c = k[u]
    OBVIOUS
  <2>1. PICK c \in C : u \in Grid(c, D) /\ \A d \in C : u \in Grid(d, D) => d = c
    BY CellAt
  <2>2. k[u] = c
    BY <2>1
  <2> QED
    BY <2>1, <2>2
<1>3. DOMAIN k = S /\ k = [u \in S |-> k[u]]
  OBVIOUS
<1> HIDE DEF k
<1>4. k \in [S -> C]
  BY <1>2, <1>3
<1>5. \A c \in C : {u \in S : k[u] = c} = Grid(c, D)
  <2>1. \A c \in C : Grid(c, D) \subseteq S
    BY CellFacts
  <2> QED
    BY <1>2, <2>1
<1>6. IsFiniteSet(C)
  <2>1. \A c \in C : \E u \in S : k[u] = c
    <3>1. \A c \in C : Grid(c, D) # {}
      BY CellFacts
    <3> QED
      BY <1>5, <3>1
  <2>2. k \in Surjection(S, C)
    BY <1>4, <2>1 DEF Surjection
  <2> QED
    BY <1>1, <2>2, FS_Surjection
<1>7. ASSUME NEW c \in C PROVE g[c] = PartOf(f, S, k, c)
  <2> DEFINE z == Squared(Marginal(D, c) * Width(D) - FBar)
             G == Grid(c, D)
  <2>1. ASSUME NEW u \in G PROVE f[u] = z /\ u \in S
    <3>1. u \in S
      BY CellFacts
    <3>2. Marginal(D, c) = Integral(D, u)
      BY MarginalIsIntegral
    <3>3. f[u] = Squared(Gap(D)[u]) /\ Gap(D)[u] = Integral(D, u) * Width(D) - FBar
      BY <3>1, GapFacts DEF Deviation
    <3> QED
      BY <3>1, <3>2, <3>3
  <2>2. g[c] = Measure(c) * z
    OBVIOUS
  <2> HIDE DEF z
  <2>3. IsFiniteSet(G) /\ Cardinality(G) = Measure(c) /\ G # {}
    BY CellFacts
  <2>4. PartOf(f, S, k, c) = SumOver(f, G)
    BY <1>5 DEF PartOf
  <2> HIDE DEF G, f
  <2>5. z \in Int
    BY <1>1, <2>1, <2>3
  <2>6. SumOver(f, G) = Cardinality(G) * z
    BY <2>1, <2>3, <2>5, SumOfEquals
  <2> QED
    BY <2>2, <2>3, <2>4, <2>6
<1>8. SumOver(f, S) = SumOver(g, C)
  <2> HIDE DEF S, C, f, g
  <2>1. \A u \in S : f[u] \in Int
    BY <1>1
  <2>2. \A c \in C : g[c] = PartOf(f, S, k, c)
    BY <1>7
  <2> QED
    BY <1>1, <1>4, <1>6, <2>1, <2>2, SumByParts
<1>9. SumFunction([c \in Cells(D) |-> Measure(c) * Squared(Marginal(D, c) * Width(D) - FBar)])
          = SumOver(g, C)
  <2>1. \A c \in C : g[c] = Measure(c) * Squared(Marginal(D, c) * Width(D) - FBar)
    OBVIOUS
  <2> HIDE DEF g
  <2>2. [c \in C |-> Measure(c) * Squared(Marginal(D, c) * Width(D) - FBar)] = [c \in C |-> g[c]]
    BY <2>1
  <2> QED
    BY <2>2 DEF SumOver
<1>10. Width(Features \ D) = Width(Breadth \ D)
  <2>1. (Features \ D) \cap Breadth = Breadth \ D /\ Features \ D \in SUBSET Features
    BY DEF Breadth
  <2>2. data.bounds \in Boxes /\ Nested(data.bounds)
    BY GrownFacts
  <2> QED
    BY <2>1, <2>2, SideFacts DEF Width
<1>11. ~\E x \in D : ~HasWidth(x)
  BY DEF Breadth
<1> HIDE DEF f, g, S, C
<1>12. MarginalVariance(D) = Width(Breadth \ D) * SumOver(g, C)
  BY <1>9, <1>10, <1>11 DEF MarginalVariance, C
<1> QED
  BY <1>8, <1>12, VarianceForm DEF f, S

\* What the walk over the leaves computes is the variance of the marginal, exactly: of
\* any finished tree, whatever study, options, bootstrap and splits (fanova.rs:9-12,
\* 520-523).
THEOREM MarginalsAreExact == Spec => []MarginalExact
<1>1. Init => SizeInv
  BY InitSize
<1>2. SizeInv /\ [Next]_vars => SizeInv'
  BY FitSize, LeafSize, SplitSize, StutterSize DEF Next
<1>3. SizeInv => MarginalExact
  <2> SUFFICES ASSUME SizeInv, Finished, InDomain, Measured, NEW D \in SUBSET Features
               PROVE  MarginalVariance(D) = IF D \subseteq Breadth THEN VarianceByCells(D) ELSE 0
    BY DEF MarginalExact
  <2>1. CASE D \subseteq Breadth
    <3>1. Grown /\ D \in SUBSET Breadth
      BY <2>1 DEF Grown
    <3> QED
      BY <2>1, <3>1, MarginalVarianceIsExact
  <2>2. CASE ~(D \subseteq Breadth)
    <3>1. \E x \in D : ~HasWidth(x)
      BY <2>2 DEF Breadth
    <3> QED
      BY <2>2, <3>1 DEF MarginalVariance
  <2> QED
    BY <2>1, <2>2
<1> QED
  BY <1>1, <1>2, <1>3, PTL DEF Spec

-----------------------------------------------------------------------------
(* The cells of all dimensions that agree with a cell of some. *)
Part(c, D) == [x \in D |-> c[x]]

Fibre(D, u) == {c \in UnitCells(Breadth) : Part(c, D) = u}

LEMMA CellType ==
    ASSUME Grown, NEW D \in SUBSET Breadth, NEW u \in UnitCells(D)
    PROVE  /\ DOMAIN u = D /\ u = [x \in D |-> u[x]]
           /\ \A x \in D : u[x] \in Int /\ data.bounds[x].lo <= u[x] /\ u[x] < data.bounds[x].hi
<1>1. u \in Grid(data.bounds, D)
  BY UnitCellsAreGrid DEF Breadth
<1> QED
  BY <1>1 DEF Grid, Holds

LEMMA CellIntro ==
    ASSUME Grown, NEW D \in SUBSET Breadth, NEW u, DOMAIN u = D, u = [x \in D |-> u[x]],
           \A x \in D : u[x] \in Int /\ data.bounds[x].lo <= u[x] /\ u[x] < data.bounds[x].hi
    PROVE  u \in UnitCells(D)
<1>1. u \in [D -> Int]
  OBVIOUS
<1>2. u \in Grid(data.bounds, D)
  BY <1>1 DEF Grid, Holds
<1> QED
  BY <1>2, UnitCellsAreGrid DEF Breadth

LEMMA PartFacts ==
    ASSUME Grown, NEW E \in SUBSET Breadth, NEW D \in SUBSET E, NEW c \in UnitCells(E)
    PROVE  Part(c, D) \in UnitCells(D) /\ \A x \in D : Part(c, D)[x] = c[x]
<1>1. \A x \in E : c[x] \in Int /\ data.bounds[x].lo <= c[x] /\ c[x] < data.bounds[x].hi
  BY CellType
<1>2. /\ \A x \in D : Part(c, D)[x] = c[x]
      /\ DOMAIN Part(c, D) = D /\ Part(c, D) = [x \in D |-> Part(c, D)[x]]
  BY DEF Part
<1>3. \A x \in D : /\ Part(c, D)[x] \in Int
                   /\ data.bounds[x].lo <= Part(c, D)[x] /\ Part(c, D)[x] < data.bounds[x].hi
  BY <1>1, <1>2
<1>4. D \in SUBSET Breadth
  OBVIOUS
<1> QED
  BY <1>2, <1>3, <1>4, CellIntro

\* Two cells are the same when they agree everywhere.
LEMMA SameCell ==
    ASSUME Grown, NEW D \in SUBSET Breadth, NEW u \in UnitCells(D), NEW w \in UnitCells(D),
           \A x \in D : u[x] = w[x]
    PROVE  u = w
<1>1. u = [x \in D |-> u[x]] /\ w = [x \in D |-> w[x]]
  BY CellType
<1>2. [x \in D |-> u[x]] = [x \in D |-> w[x]]
  OBVIOUS
<1> QED
  BY <1>1, <1>2

\* Cells of different dimensions make a cell of both.
LEMMA JoinAny ==
    ASSUME Grown, NEW D \in SUBSET Breadth, NEW E \in SUBSET Breadth, D \cap E = {},
           NEW u \in UnitCells(D), NEW v \in UnitCells(E)
    PROVE  /\ Join(u, v) \in UnitCells(D \cup E)
           /\ \A x \in D : Join(u, v)[x] = u[x]
           /\ \A x \in E : Join(u, v)[x] = v[x]
<1> DEFINE j == [x \in D \cup E |-> IF x \in D THEN u[x] ELSE v[x]]
<1>1. DOMAIN u = D /\ DOMAIN v = E
  BY CellType
<1>2. Join(u, v) = j
  BY <1>1 DEF Join
<1>3. /\ DOMAIN j = D \cup E /\ j = [x \in D \cup E |-> j[x]]
      /\ (\A x \in D : j[x] = u[x]) /\ \A x \in E : j[x] = v[x]
  OBVIOUS
<1> HIDE DEF j
<1>4. /\ \A x \in D : u[x] \in Int /\ data.bounds[x].lo <= u[x] /\ u[x] < data.bounds[x].hi
      /\ \A x \in E : v[x] \in Int /\ data.bounds[x].lo <= v[x] /\ v[x] < data.bounds[x].hi
  BY CellType
<1>5. \A x \in D \cup E : j[x] \in Int /\ data.bounds[x].lo <= j[x] /\ j[x] < data.bounds[x].hi
  BY <1>3, <1>4
<1>6. D \cup E \in SUBSET Breadth
  OBVIOUS
<1>7. j \in UnitCells(D \cup E)
  BY <1>3, <1>5, <1>6, CellIntro
<1> QED
  BY <1>2, <1>3, <1>7

LEMMA FibreBijection ==
    ASSUME Grown, NEW D \in SUBSET Breadth, NEW u \in UnitCells(D)
    PROVE  [v \in UnitCells(Breadth \ D) |-> Join(u, v)]
               \in Bijection(UnitCells(Breadth \ D), Fibre(D, u))
<1> DEFINE E == Breadth \ D
           S == UnitCells(E)
           b == [v \in S |-> Join(u, v)]
<1>1. \A v \in S : /\ b[v] = Join(u, v) /\ Join(u, v) \in UnitCells(Breadth)
                   /\ \A x \in D : Join(u, v)[x] = u[x]
                   /\ \A x \in E : Join(u, v)[x] = v[x]
  BY JoinFacts
<1>2. b \in [S -> Fibre(D, u)]
  <2> SUFFICES ASSUME NEW v \in S PROVE Join(u, v) \in Fibre(D, u)
    OBVIOUS
  <2>1. Join(u, v) \in UnitCells(Breadth) /\ \A x \in D : Join(u, v)[x] = u[x]
    BY <1>1
  <2>2. Part(Join(u, v), D) = [x \in D |-> u[x]]
    BY <2>1 DEF Part
  <2>3. u = [x \in D |-> u[x]]
    BY CellType
  <2> QED
    BY <2>1, <2>2, <2>3 DEF Fibre
<1>3. ASSUME NEW v \in S, NEW w \in S, b[v] = b[w] PROVE v = w
  <2>1. \A x \in E : v[x] = w[x]
    <3>1. Join(u, v) = Join(u, w)
      BY <1>1, <1>3
    <3> HIDE DEF E
    <3> QED
      BY <1>1, <3>1
  <2>2. E \in SUBSET Breadth
    OBVIOUS
  <2> HIDE DEF E
  <2> QED
    BY <2>1, <2>2, SameCell
<1>4. ASSUME NEW c \in Fibre(D, u) PROVE \E v \in S : b[v] = c
  <2> DEFINE v == Part(c, E)
  <2>1. c \in UnitCells(Breadth) /\ Part(c, D) = u
    BY DEF Fibre
  <2>2. Breadth \in SUBSET Breadth /\ E \in SUBSET Breadth /\ D \in SUBSET Breadth
    OBVIOUS
  <2>3. v \in S /\ \A x \in E : v[x] = c[x]
    BY <2>1, <2>2, PartFacts
  <2>4. \A x \in D : u[x] = c[x]
    BY <2>1, <2>2, PartFacts
  <2> HIDE DEF v, S, b
  <2>5. /\ b[v] = Join(u, v) /\ Join(u, v) \in UnitCells(Breadth)
        /\ (\A x \in D : Join(u, v)[x] = u[x]) /\ \A x \in E : Join(u, v)[x] = v[x]
    BY <1>1, <2>3
  <2>6. \A x \in Breadth : Join(u, v)[x] = c[x]
    <3>1. \A x \in Breadth : x \in D \/ x \in E
      OBVIOUS
    <3> HIDE DEF E
    <3> QED
      BY <2>3, <2>4, <2>5, <3>1
  <2>7. Join(u, v) = c
    BY <2>1, <2>2, <2>5, <2>6, SameCell
  <2> QED
    BY <2>3, <2>5, <2>7
<1> HIDE DEF b
<1>5. b \in Bijection(S, Fibre(D, u))
  BY <1>2, <1>3, <1>4 DEF Bijection, Injection, Surjection, IsInjective
<1> QED
  BY <1>5 DEF b

LEMMA FibreSize ==
    ASSUME Grown, NEW D \in SUBSET Breadth, NEW u \in UnitCells(D)
    PROVE  IsFiniteSet(Fibre(D, u)) /\ Cardinality(Fibre(D, u)) = Width(Breadth \ D)
<1>1. ExistsBijection(UnitCells(Breadth \ D), Fibre(D, u))
  BY FibreBijection DEF ExistsBijection
<1>2. Breadth \ D \in SUBSET Breadth
  OBVIOUS
<1>3. IsFiniteSet(UnitCells(Breadth \ D)) /\ Cardinality(UnitCells(Breadth \ D)) = Width(Breadth \ D)
  BY <1>2, GapFacts
<1> QED
  BY <1>1, <1>3, FS_Bijection

Predictions == [c \in UnitCells(Breadth) |-> Prediction(c)]

LEMMA PredictionsAreInts ==
    ASSUME Grown, NEW c \in UnitCells(Breadth)
    PROVE  Predictions[c] = Prediction(c) /\ Prediction(c) \in Int
<1>1. PICK l \in leaves : LeafOf(l, c)
  BY GrownFacts
<1>2. Prediction(c) = l.value /\ l.value \in Int
  BY <1>1, PredictionIs, GrownFacts
<1> QED
  BY <1>2 DEF Predictions

\* An integral adds up the cells above.
LEMMA IntegralIsFibre ==
    ASSUME Grown, NEW D \in SUBSET Breadth, NEW u \in UnitCells(D)
    PROVE  Integral(D, u) = SumOver(Predictions, Fibre(D, u))
<1> DEFINE S == UnitCells(Breadth \ D)
           b == [v \in S |-> Join(u, v)]
           g == [v \in S |-> Prediction(Join(u, v))]
<1>1. b \in Bijection(S, Fibre(D, u))
  BY FibreBijection
<1>2. IsFiniteSet(S)
  <2>1. Breadth \ D \in SUBSET Breadth
    OBVIOUS
  <2> QED
    BY <2>1, GapFacts
<1>3. \A v \in S : g[v] = Predictions[b[v]] /\ g[v] \in Int
  <2> SUFFICES ASSUME NEW v \in S PROVE g[v] = Predictions[b[v]] /\ g[v] \in Int
    OBVIOUS
  <2>1. g[v] = Prediction(Join(u, v)) /\ b[v] = Join(u, v) /\ Join(u, v) \in UnitCells(Breadth)
    BY JoinFacts
  <2> HIDE DEF g, b
  <2> QED
    BY <2>1, PredictionsAreInts
<1>4. Integral(D, u) = SumOver(g, S)
  <2>1. [v \in S |-> Prediction(Join(u, v))] = [v \in S |-> g[v]]
    OBVIOUS
  <2> QED
    BY <2>1 DEF Integral, SumOver
<1> HIDE DEF S, b, g
<1> QED
  BY <1>1, <1>2, <1>3, <1>4, SumRenamed

\* A sum over cells by what they are in fewer dimensions.
LEMMA SumByFibres ==
    ASSUME Grown, NEW D \in SUBSET Breadth, NEW f, \A c \in UnitCells(Breadth) : f[c] \in Int,
           NEW g, \A u \in UnitCells(D) : g[u] = SumOver(f, Fibre(D, u))
    PROVE  SumOver(f, UnitCells(Breadth)) = SumOver(g, UnitCells(D))
<1> DEFINE S == UnitCells(Breadth)
           C == UnitCells(D)
           k == [c \in S |-> Part(c, D)]
<1>1. IsFiniteSet(S) /\ IsFiniteSet(C)
  <2>1. Breadth \in SUBSET Breadth
    OBVIOUS
  <2> QED
    BY <2>1, GapFacts
<1>2. \A c \in S : k[c] = Part(c, D) /\ Part(c, D) \in C
  BY PartFacts
<1>3. k \in [S -> C]
  BY <1>2
<1>4. ASSUME NEW u \in C PROVE g[u] = PartOf(f, S, k, u)
  <2>1. {c \in S : k[c] = u} = Fibre(D, u)
    BY <1>2 DEF Fibre
  <2> HIDE DEF k
  <2> QED
    BY <2>1 DEF PartOf
<1>5. (\A c \in S : f[c] \in Int) /\ \A u \in C : g[u] = PartOf(f, S, k, u)
  BY <1>4
<1> HIDE DEF S, C, k
<1>6. SumOver(f, S) = SumOver(g, C)
  BY <1>1, <1>3, <1>5, SumByParts
<1> QED
  BY <1>6 DEF S, C

LEMMA WidthParts ==
    ASSUME Grown, NEW D \in SUBSET Breadth
    PROVE  /\ Width(Breadth) = Width(D) * Width(Breadth \ D)
           /\ Width(Breadth) \in Int /\ Width(D) \in Int /\ Width(Breadth \ D) \in Int
<1> DEFINE E == Breadth \ D
           f == [x \in Features |-> Side(data.bounds, x)]
<1>1. D \cup E = Breadth /\ D \cap E = {} /\ Breadth \subseteq Features
  BY DEF Breadth
<1>2. IsFiniteSet(D) /\ IsFiniteSet(E) /\ IsFiniteSet(Breadth)
  BY GrownFacts, FS_Subset
<1>3. \A x \in Breadth : f[x] \in Int
  <2>1. \A x \in Breadth : data.bounds[x].lo \in Int /\ data.bounds[x].hi \in Int
    BY <1>1, GrownFacts DEF Boxes
  <2>2. \A x \in Breadth : data.bounds[x].hi - data.bounds[x].lo \in Int
    BY <2>1
  <2>3. \A x \in Breadth : f[x] = Side(data.bounds, x)
    BY <1>1
  <2> HIDE DEF f
  <2> QED
    BY <2>2, <2>3 DEF Side, Extent
<1>4. \A T \in SUBSET Breadth : Width(T) = ProductOver(f, T)
  <2> SUFFICES ASSUME NEW T \in SUBSET Breadth PROVE Width(T) = ProductOver(f, T)
    OBVIOUS
  <2>1. [x \in T |-> Side(data.bounds, x)] = [x \in T |-> f[x]]
    BY <1>1
  <2> QED
    BY <2>1 DEF Width, SideProduct, ProductOver
<1> HIDE DEF f
<1>5. D \in SUBSET Breadth /\ E \in SUBSET Breadth /\ Breadth \in SUBSET Breadth
  OBVIOUS
<1>6. ProductOver(f, D \cup E) = ProductOver(f, D) * ProductOver(f, E)
  <2>1. \A x \in D \cup E : f[x] \in Int
    BY <1>1, <1>3
  <2> HIDE DEF E
  <2> QED
    BY <1>1, <1>2, <2>1, ProductParts
<1>7. Width(Breadth) \in Int /\ Width(D) \in Int /\ Width(E) \in Int
  BY <1>5, GapFacts
<1> QED
  BY <1>1, <1>4, <1>5, <1>6, <1>7

\* The integrals at all cells of D make the whole.
LEMMA IntegralsAdd ==
    ASSUME Grown, NEW D \in SUBSET Breadth
    PROVE  SumOver([u \in UnitCells(D) |-> Integral(D, u)], UnitCells(D)) = FBar
<1> DEFINE g == [u \in UnitCells(D) |-> Integral(D, u)]
           S == UnitCells(Breadth)
<1>1. \A u \in UnitCells(D) : g[u] = SumOver(Predictions, Fibre(D, u))
  BY IntegralIsFibre
<1>2. \A c \in S : Predictions[c] \in Int
  BY PredictionsAreInts
<1>3. FBar = SumOver(Predictions, S)
  <2>1. [c \in S |-> Predictions[c]] = [c \in S |-> Prediction(c)]
    BY DEF Predictions
  <2> QED
    BY <2>1, FBarIsMean DEF SumOver
<1> HIDE DEF g
<1>4. SumOver(Predictions, S) = SumOver(g, UnitCells(D))
  BY <1>1, <1>2, SumByFibres
<1> QED
  BY <1>3, <1>4 DEF g

Shifts(h, a, f, d, S) == \A x \in S : f[x] \in Int /\ h[x] = a * f[x] - d

\* A constant is added as often as there are terms.
LEMMA SumShifted ==
    ASSUME NEW S, IsFiniteSet(S), NEW f, NEW h, NEW a \in Int, NEW d \in Int,
           Shifts(h, a, f, d, S)
    PROVE  SumOver(h, S) = a * SumOver(f, S) - d * Cardinality(S)
<1> DEFINE e == [x \in S |-> d]
<1>1. \A x \in S : e[x] = d
  OBVIOUS
<1> HIDE DEF e
<1>2. SumOver(e, S) = Cardinality(S) * d
  BY <1>1, SumOfEquals
<1>3. \A x \in S : f[x] \in Int /\ e[x] \in Int /\ h[x] = a * f[x] + (-1) * e[x]
  <2>1. \A m \in Int : m - d = m + (-1) * d
    OBVIOUS
  <2>2. \A m \in Int : a * m \in Int
    OBVIOUS
  <2> QED
    BY <1>1, <2>1, <2>2 DEF Shifts
<1>4. Linear(h, a, f, -1, e, S)
  BY <1>3 DEF Linear
<1>5. SumOver(h, S) = a * SumOver(f, S) + (-1) * SumOver(e, S)
  BY <1>4, SumLinear
<1>6. SumOver(f, S) \in Int /\ Cardinality(S) \in Int
  BY SumOverStep, FS_CardinalityType DEF Shifts
<1>7. \A m, n \in Int : a * m + (-1) * (n * d) = a * m - d * n
  OBVIOUS
<1> QED
  BY <1>2, <1>5, <1>6, <1>7

\* The gaps of any dimensions cancel out.
LEMMA GapsCancel ==
    ASSUME Grown, NEW D \in SUBSET Breadth
    PROVE  SumOver(Gap(D), UnitCells(D)) = 0
<1> DEFINE S == UnitCells(D)
           f == [u \in S |-> Integral(D, u)]
<1>1. IsFiniteSet(S) /\ Cardinality(S) = Width(D) /\ Width(D) \in Int /\ FBar \in Int
  BY GapFacts, FBarIsMean
<1>2. \A u \in S : f[u] \in Int /\ Gap(D)[u] = Width(D) * f[u] - FBar
  <2>1. \A m, n \in Int : m * n = n * m
    OBVIOUS
  <2>2. \A u \in S : f[u] = Integral(D, u) /\ Integral(D, u) \in Int
    BY IntegralByLeaves
  <2>3. \A u \in S : Gap(D)[u] = Integral(D, u) * Width(D) - FBar
    BY GapFacts
  <2> HIDE DEF f
  <2> QED
    BY <1>1, <2>1, <2>2, <2>3
<1>3. SumOver(f, S) = FBar
  BY IntegralsAdd
<1>4. Shifts(Gap(D), Width(D), f, FBar, S)
  BY <1>2 DEF Shifts
<1> HIDE DEF S, f
<1>5. SumOver(Gap(D), S) = Width(D) * SumOver(f, S) - FBar * Cardinality(S)
  BY <1>1, <1>4, SumShifted
<1>6. \A m, n \in Int : m * n - n * m = 0
  OBVIOUS
<1> QED
  BY <1>1, <1>3, <1>5, <1>6 DEF S

\* How far the prediction at a cell is off the mean, and the same averaged over the
\* dimensions but D.
Excess == [c \in UnitCells(Breadth) |-> Width(Breadth) * Predictions[c] - FBar]

Averaged(D) == [c \in UnitCells(Breadth) |-> Gap(D)[Part(c, D)]]

LEMMA AveragedFacts ==
    ASSUME Grown, NEW D \in SUBSET Breadth, NEW c \in UnitCells(Breadth)
    PROVE  /\ Averaged(D)[c] = Gap(D)[Part(c, D)] /\ Averaged(D)[c] \in Int
           /\ Excess[c] = Width(Breadth) * Predictions[c] - FBar /\ Excess[c] \in Int
<1>1. Part(c, D) \in UnitCells(D)
  BY PartFacts
<1>2. Gap(D)[Part(c, D)] \in Int
  BY <1>1, GapFacts
<1>3. Width(Breadth) \in Int /\ FBar \in Int /\ Predictions[c] \in Int
  BY WidthParts, FBarIsMean, PredictionsAreInts
<1>4. \A a, b, d \in Int : a * b - d \in Int
  OBVIOUS
<1> QED
  BY <1>2, <1>3, <1>4 DEF Averaged, Excess

LEMMA ExcessOfFibre ==
    ASSUME Grown, NEW D \in SUBSET Breadth, NEW u \in UnitCells(D)
    PROVE  SumOver(Excess, Fibre(D, u)) = Width(Breadth \ D) * Gap(D)[u]
<1> DEFINE S == Fibre(D, u)
           w == Width(Breadth)  v == Width(D)  z == Width(Breadth \ D)
           i == Integral(D, u)
<1>1. IsFiniteSet(S) /\ Cardinality(S) = z
  BY FibreSize
<1>2. w \in Int /\ v \in Int /\ z \in Int /\ FBar \in Int
  BY WidthParts, FBarIsMean
<1>3. w = v * z
  BY WidthParts
<1>4. i = SumOver(Predictions, S) /\ i \in Int
  BY IntegralIsFibre, IntegralByLeaves
<1>5. \A c \in S : Predictions[c] \in Int /\ Excess[c] = w * Predictions[c] - FBar
  BY PredictionsAreInts, AveragedFacts DEF Fibre
<1>6. Gap(D)[u] = i * v - FBar
  BY GapFacts
<1> HIDE DEF S, w, v, z, i
<1>7. Shifts(Excess, w, Predictions, FBar, S)
  BY <1>5 DEF Shifts
<1>8. SumOver(Excess, S) = w * SumOver(Predictions, S) - FBar * Cardinality(S)
  BY <1>1, <1>2, <1>7, SumShifted
<1>9. \A a, b, c, d \in Int : (a * b) * c - d * b = b * (c * a - d)
  OBVIOUS
<1>10. SumOver(Excess, S) = (v * z) * i - FBar * z
  BY <1>1, <1>4, <1>8, <1>3
<1>11. SumOver(Excess, S) = z * (i * v - FBar)
  BY <1>2, <1>4, <1>9, <1>10
<1> QED
  BY <1>6, <1>11 DEF S, z

-----------------------------------------------------------------------------
(* Averages over fewer dimensions are projections *)

Multiple(h, a, f, S) == \A x \in S : f[x] \in Int /\ h[x] = a * f[x]

LEMMA SumOfMultiples ==
    ASSUME NEW S, IsFiniteSet(S), NEW f, NEW h, NEW a \in Int, Multiple(h, a, f, S)
    PROVE  SumOver(h, S) = a * SumOver(f, S)
<1>1. Shifts(h, a, f, 0, S)
  <2>1. \A m \in Int : a * m = a * m - 0
    OBVIOUS
  <2> QED
    BY <2>1 DEF Shifts, Multiple
<1>2. SumOver(h, S) = a * SumOver(f, S) - 0 * Cardinality(S)
  BY <1>1, SumShifted
<1>3. SumOver(f, S) \in Int /\ Cardinality(S) \in Int
  BY SumOverStep, FS_CardinalityType DEF Multiple
<1>4. \A m, n \in Int : a * m - 0 * n = a * m
  OBVIOUS
<1> QED
  BY <1>2, <1>3, <1>4

LEMMA PartOfPart ==
    ASSUME NEW E, NEW D \in SUBSET E, NEW c
    PROVE  Part(Part(c, E), D) = Part(c, D)
BY DEF Part

\* On the cells over w the average over the dimensions but E is the same.
LEMMA AveragedOfFibre ==
    ASSUME Grown, NEW E \in SUBSET Breadth, NEW w \in UnitCells(E)
    PROVE  \A c \in Fibre(E, w) : Averaged(E)[c] = Gap(E)[w]
BY AveragedFacts DEF Fibre

\* Averaging twice is averaging once.
LEMMA Tower ==
    ASSUME Grown, NEW E \in SUBSET Breadth, NEW D \in SUBSET E, NEW u \in UnitCells(D)
    PROVE  SumOver(Averaged(E), Fibre(D, u)) = Width(Breadth \ D) * Gap(D)[u]
<1> DEFINE S == Fibre(D, u)
           C == {w \in UnitCells(E) : Part(w, D) = u}
           k == [c \in S |-> Part(c, E)]
           z == Width(Breadth \ E)
           g == [w \in C |-> z * Gap(E)[w]]
           a == Averaged(E)
           e == Excess
<1>1. D \in SUBSET Breadth /\ Breadth \in SUBSET Breadth
  OBVIOUS
<1>2. IsFiniteSet(S) /\ IsFiniteSet(C)
  BY <1>1, FibreSize, GapFacts, FS_Subset
<1>3. \A c \in S : k[c] = Part(c, E) /\ Part(c, E) \in C
  <2> SUFFICES ASSUME NEW c \in S PROVE Part(c, E) \in C
    OBVIOUS
  <2>1. c \in UnitCells(Breadth) /\ Part(c, D) = u
    BY DEF Fibre
  <2>2. Part(c, E) \in UnitCells(E)
    BY <1>1, <2>1, PartFacts
  <2> QED
    BY <2>1, <2>2, PartOfPart
<1>4. k \in [S -> C]
  BY <1>3
<1>5. ASSUME NEW w \in C PROVE {c \in S : k[c] = w} = Fibre(E, w)
  <2>1. \A c \in Fibre(E, w) : c \in S /\ Part(c, E) = w
    BY PartOfPart DEF Fibre
  <2>2. \A c \in S : Part(c, E) = w => c \in Fibre(E, w)
    BY DEF Fibre
  <2> HIDE DEF S, k
  <2> QED
    BY <1>3, <2>1, <2>2
<1>6. \A c \in S : a[c] \in Int /\ e[c] \in Int
  BY AveragedFacts DEF Fibre
<1>7. ASSUME NEW w \in C PROVE g[w] = PartOf(a, S, k, w) /\ g[w] = PartOf(e, S, k, w)
  <2> DEFINE F == Fibre(E, w)
             y == Gap(E)[w]
  <2>1. PartOf(a, S, k, w) = SumOver(a, F) /\ PartOf(e, S, k, w) = SumOver(e, F)
    <3> HIDE DEF S, k, a, e
    <3> QED
      BY <1>5 DEF PartOf
  <2>2. g[w] = z * y
    OBVIOUS
  <2>3. SumOver(e, F) = z * y
    BY ExcessOfFibre
  <2>4. IsFiniteSet(F) /\ Cardinality(F) = z /\ y \in Int
    BY FibreSize, GapFacts
  <2>5. \A c \in F : a[c] = y
    BY AveragedOfFibre
  <2> HIDE DEF F, y, a, z, e, g
  <2>6. SumOver(a, F) = z * y
    BY <2>4, <2>5, SumOfEquals
  <2> QED
    BY <2>1, <2>2, <2>3, <2>6
<1>8. SumOver(e, S) = Width(Breadth \ D) * Gap(D)[u]
  BY <1>1, ExcessOfFibre
<1> HIDE DEF S, C, k, g, a, e, z
<1>9. (\A w \in C : g[w] = PartOf(a, S, k, w)) /\ \A w \in C : g[w] = PartOf(e, S, k, w)
  BY <1>7
<1>10. (\A c \in S : a[c] \in Int) /\ \A c \in S : e[c] \in Int
  BY <1>6
<1>11. SumOver(a, S) = SumOver(g, C)
  BY <1>2, <1>4, <1>9, <1>10, SumByParts
<1>12. SumOver(e, S) = SumOver(g, C)
  BY <1>2, <1>4, <1>9, <1>10, SumByParts
<1> QED
  BY <1>8, <1>11, <1>12 DEF a, S

\* Over the cells of D the averages of other dimensions cancel out.
LEMMA SkewFibre ==
    ASSUME Grown, NEW D \in SUBSET Breadth, NEW E \in SUBSET Breadth, D \cap E = {},
           NEW u \in UnitCells(D)
    PROVE  SumOver(Averaged(E), Fibre(D, u)) = 0
<1> DEFINE S == Fibre(D, u)
           C == UnitCells(E)
           k == [c \in S |-> Part(c, E)]
           z == Width(Breadth \ (D \cup E))
           g == [w \in C |-> z * Gap(E)[w]]
           a == Averaged(E)
<1>1. D \cup E \in SUBSET Breadth /\ Breadth \in SUBSET Breadth
  OBVIOUS
<1>2. IsFiniteSet(S) /\ IsFiniteSet(C)
  BY FibreSize, GapFacts
<1>3. \A c \in S : k[c] = Part(c, E) /\ Part(c, E) \in C /\ c \in UnitCells(Breadth) /\ Part(c, D) = u
  BY <1>1, PartFacts DEF Fibre
<1>4. k \in [S -> C]
  BY <1>3
<1>5. ASSUME NEW w \in C
      PROVE  /\ {c \in S : k[c] = w} = Fibre(D \cup E, Join(u, w))
             /\ Join(u, w) \in UnitCells(D \cup E)
  <2> DEFINE j == Join(u, w)
  <2>1. /\ j \in UnitCells(D \cup E)
        /\ (\A x \in D : j[x] = u[x]) /\ \A x \in E : j[x] = w[x]
    <3>1. w \in UnitCells(E)
      OBVIOUS
    <3> HIDE DEF S, C, k, z, g, a
    <3>2. /\ Join(u, w) \in UnitCells(D \cup E)
          /\ (\A x \in D : Join(u, w)[x] = u[x]) /\ \A x \in E : Join(u, w)[x] = w[x]
      <4> HIDE DEF j
      <4>1. \A v \in UnitCells(E) : /\ Join(u, v) \in UnitCells(D \cup E)
                                    /\ \A x \in D : Join(u, v)[x] = u[x]
                                    /\ \A x \in E : Join(u, v)[x] = v[x]
        BY JoinAny, Zenon
      <4> QED
        BY <3>1, <4>1
    <3> QED
      BY <3>2
  <2>2. ASSUME NEW c \in UnitCells(Breadth), Part(c, D \cup E) = j PROVE c \in S /\ k[c] = w
    <3>1. \A x \in D \cup E : c[x] = j[x]
      <4> DEFINE V == D \cup E
      <4>1. V \in SUBSET Breadth
        BY <1>1
      <4> HIDE DEF V, j
      <4>2. \A x \in V : Part(c, V)[x] = c[x]
        BY <1>1, <4>1, PartFacts
      <4> QED
        BY <2>2, <4>2 DEF V
    <3>2. Part(c, D) \in UnitCells(D) /\ \A x \in D : Part(c, D)[x] = u[x]
      BY <1>1, <2>1, <3>1, PartFacts
    <3>3. Part(c, E) \in UnitCells(E) /\ \A x \in E : Part(c, E)[x] = w[x]
      BY <1>1, <2>1, <3>1, PartFacts
    <3>4. Part(c, D) = u /\ Part(c, E) = w
      BY <3>2, <3>3, SameCell
    <3> QED
      BY <3>4 DEF Fibre
  <2>3. ASSUME NEW c \in S, k[c] = w PROVE c \in UnitCells(Breadth) /\ Part(c, D \cup E) = j
    <3>1. c \in UnitCells(Breadth) /\ Part(c, D) = u /\ Part(c, E) = w
      BY <1>3, <2>3
    <3>2. (\A x \in D : c[x] = u[x]) /\ \A x \in E : c[x] = w[x]
      BY <1>1, <3>1, PartFacts
    <3>3. /\ Part(c, D \cup E) \in UnitCells(D \cup E)
          /\ \A x \in D \cup E : Part(c, D \cup E)[x] = c[x]
      BY <1>1, <3>1, PartFacts
    <3> HIDE DEF j
    <3>4. \A x \in D \cup E : Part(c, D \cup E)[x] = j[x]
      BY <2>1, <3>2, <3>3
    <3>5. Part(c, D \cup E) = j
      <4> DEFINE V == D \cup E
                 p == Part(c, V)
      <4>1. /\ V \in SUBSET Breadth /\ p \in UnitCells(V) /\ j \in UnitCells(V)
            /\ \A x \in V : p[x] = j[x]
        BY <1>1, <2>1, <3>3, <3>4
      <4> HIDE DEF V, p
      <4>2. p = j
        BY <4>1, SameCell
      <4> QED
        BY <4>2 DEF p, V
    <3> QED
      BY <3>1, <3>5
  <2> HIDE DEF S, k
  <2>4. {c \in S : k[c] = w} = Fibre(D \cup E, j)
    <3> HIDE DEF j
    <3> QED
      BY <1>3, <2>2, <2>3 DEF Fibre
  <2> QED
    BY <2>1, <2>4
<1>6. \A c \in S : a[c] \in Int
  BY AveragedFacts DEF Fibre
<1>7. ASSUME NEW w \in C PROVE g[w] = PartOf(a, S, k, w)
  <2> DEFINE F == Fibre(D \cup E, Join(u, w))
             y == Gap(E)[w]
  <2>1. PartOf(a, S, k, w) = SumOver(a, F)
    <3> HIDE DEF S, k, a
    <3> QED
      BY <1>5 DEF PartOf
  <2>2. g[w] = z * y
    OBVIOUS
  <2>3. Join(u, w) \in UnitCells(D \cup E)
    BY <1>5
  <2>4. IsFiniteSet(F) /\ Cardinality(F) = z /\ y \in Int
    BY <1>1, <2>3, FibreSize, GapFacts
  <2>5. \A c \in F : a[c] = y
    <3>1. F = {c \in S : k[c] = w}
      BY <1>5
    <3>2. \A c \in F : c \in UnitCells(Breadth) /\ Part(c, E) = w
      BY <1>3, <3>1
    <3> QED
      BY <3>2, AveragedFacts
  <2> HIDE DEF F, y, a, z, g
  <2>6. SumOver(a, F) = z * y
    BY <2>4, <2>5, SumOfEquals
  <2> QED
    BY <2>1, <2>2, <2>6
<1>8. SumOver(g, C) = 0
  <2>1. \A w \in C : Gap(E)[w] \in Int
    BY GapFacts
  <2>2. z \in Int
    BY <1>1, WidthParts
  <2>3. Multiple(g, z, Gap(E), C)
    BY <2>1 DEF Multiple
  <2> HIDE DEF C, g, z
  <2>4. SumOver(g, C) = z * SumOver(Gap(E), C)
    BY <1>2, <2>2, <2>3, SumOfMultiples
  <2>5. SumOver(Gap(E), C) = 0
    BY GapsCancel DEF C
  <2> QED
    BY <2>2, <2>4, <2>5
<1> HIDE DEF S, C, k, g, a, z
<1>9. (\A w \in C : g[w] = PartOf(a, S, k, w)) /\ \A c \in S : a[c] \in Int
  BY <1>6, <1>7
<1>10. SumOver(a, S) = SumOver(g, C)
  BY <1>2, <1>4, <1>9, SumByParts
<1> QED
  BY <1>8, <1>10 DEF a, S

\* The sum of products over a set.
Times2(f, g, S) == SumOver([x \in S |-> f[x] * g[x]], S)

Inner(D, E) == Times2(Averaged(D), Averaged(E), UnitCells(Breadth))

\* On the cells over u the average over the dimensions but D is a factor.
LEMMA InnerOfFibre ==
    ASSUME Grown, NEW E \in SUBSET Breadth, NEW D \in SUBSET Breadth, NEW u \in UnitCells(D)
    PROVE  SumOver([c \in UnitCells(Breadth) |-> Averaged(E)[c] * Averaged(D)[c]], Fibre(D, u))
               = Gap(D)[u] * SumOver(Averaged(E), Fibre(D, u))
<1> DEFINE S == Fibre(D, u)
           a == Averaged(E)
           b == Averaged(D)
           y == Gap(D)[u]
           h == [c \in UnitCells(Breadth) |-> a[c] * b[c]]
<1>1. IsFiniteSet(S) /\ y \in Int
  BY FibreSize, GapFacts
<1>2. \A c \in S : c \in UnitCells(Breadth) /\ a[c] \in Int /\ b[c] = y
  BY AveragedFacts, AveragedOfFibre DEF Fibre
<1>3. \A c \in S : h[c] = a[c] * b[c]
  BY <1>2
<1> HIDE DEF h, a, b, y, S
<1>4. Multiple(h, y, a, S)
  <2>1. \A m, n \in Int : m * n = n * m
    OBVIOUS
  <2> QED
    BY <1>1, <1>2, <1>3, <2>1 DEF Multiple
<1>5. SumOver(h, S) = y * SumOver(a, S)
  BY <1>1, <1>4, SumOfMultiples
<1> QED
  BY <1>5 DEF h, a, b, y, S

LEMMA InnerByFibres ==
    ASSUME Grown, NEW E \in SUBSET Breadth, NEW D \in SUBSET Breadth, NEW g,
           \A u \in UnitCells(D) : g[u] = Gap(D)[u] * SumOver(Averaged(E), Fibre(D, u))
    PROVE  Inner(E, D) = SumOver(g, UnitCells(D))
<1> DEFINE h == [c \in UnitCells(Breadth) |-> Averaged(E)[c] * Averaged(D)[c]]
<1>1. \A c \in UnitCells(Breadth) : h[c] \in Int
  <2>1. \A m, n \in Int : m * n \in Int
    OBVIOUS
  <2>2. \A c \in UnitCells(Breadth) : Averaged(E)[c] \in Int /\ Averaged(D)[c] \in Int
    BY AveragedFacts
  <2>3. \A c \in UnitCells(Breadth) : h[c] = Averaged(E)[c] * Averaged(D)[c]
    OBVIOUS
  <2> HIDE DEF h
  <2> QED
    BY <2>1, <2>2, <2>3
<1>2. \A u \in UnitCells(D) : g[u] = SumOver(h, Fibre(D, u))
  BY InnerOfFibre
<1>3. Inner(E, D) = SumOver(h, UnitCells(Breadth))
  BY DEF Inner, Times2
<1> HIDE DEF h
<1> QED
  BY <1>1, <1>2, <1>3, SumByFibres

\* The variance over D is what the averages have in common with those of more dimensions.
LEMMA InnerIsVariance ==
    ASSUME Grown, NEW E \in SUBSET Breadth, NEW D \in SUBSET E
    PROVE  Inner(E, D) = VarianceByCells(D)
<1> DEFINE S == UnitCells(D)
           z == Width(Breadth \ D)
           g == [u \in S |-> z * Deviation(D)[u]]
<1>1. D \in SUBSET Breadth
  OBVIOUS
<1>2. IsFiniteSet(S) /\ z \in Int /\ \A u \in S : Gap(D)[u] \in Int
  BY <1>1, WidthParts, GapFacts
<1>3. \A u \in S : Deviation(D)[u] = Gap(D)[u] * Gap(D)[u] /\ Deviation(D)[u] \in Int
  <2>1. \A m \in Int : m * m \in Int
    OBVIOUS
  <2>2. \A u \in S : Deviation(D)[u] = Gap(D)[u] * Gap(D)[u]
    BY DEF Deviation, Squared
  <2> QED
    BY <1>2, <2>1, <2>2
<1>4. \A u \in S : g[u] = z * Deviation(D)[u]
  OBVIOUS
<1>5. \A u \in S : SumOver(Averaged(E), Fibre(D, u)) = z * Gap(D)[u]
  BY Tower
<1> HIDE DEF g, z, S
<1>6. \A u \in S : g[u] = Gap(D)[u] * SumOver(Averaged(E), Fibre(D, u))
  <2>1. \A m, n \in Int : m * (n * n) = n * (m * n)
    OBVIOUS
  <2> QED
    BY <1>2, <1>3, <1>4, <1>5, <2>1
<1>7. Inner(E, D) = SumOver(g, S)
  BY <1>1, <1>6, InnerByFibres DEF S
<1>8. Multiple(g, z, Deviation(D), S)
  BY <1>3, <1>4 DEF Multiple
<1>9. SumOver(g, S) = z * SumOver(Deviation(D), S)
  BY <1>2, <1>8, SumOfMultiples
<1>10. VarianceByCells(D) = z * SumOver(Deviation(D), S)
  BY <1>1, VarianceForm DEF z, S
<1> QED
  BY <1>7, <1>9, <1>10

LEMMA InnerOrthogonal ==
    ASSUME Grown, NEW D \in SUBSET Breadth, NEW E \in SUBSET Breadth, D \cap E = {}
    PROVE  Inner(E, D) = 0
<1> DEFINE S == UnitCells(D)
           g == [u \in S |-> 0]
<1>1. \A u \in S : g[u] = Gap(D)[u] * SumOver(Averaged(E), Fibre(D, u))
  <2>1. \A u \in S : SumOver(Averaged(E), Fibre(D, u)) = 0 /\ Gap(D)[u] \in Int
    BY SkewFibre, GapFacts
  <2>2. \A m \in Int : m * 0 = 0
    OBVIOUS
  <2> QED
    BY <2>1, <2>2
<1>2. \A u \in S : g[u] = 0
  OBVIOUS
<1> HIDE DEF g
<1>3. Inner(E, D) = SumOver(g, S)
  BY <1>1, InnerByFibres
<1>4. IsFiniteSet(S)
  BY GapFacts
<1>5. SumOver(g, S) = Cardinality(S) * 0 /\ Cardinality(S) \in Nat
  BY <1>2, <1>4, SumOfEquals, FS_CardinalityType
<1> QED
  BY <1>3, <1>5

IntsOn(f, S) == \A x \in S : f[x] \in Int

\* The squares of what remains of f without g and h.
LEMMA SquaresOfRest ==
    ASSUME NEW S, IsFiniteSet(S), NEW f, NEW g, NEW h,
           IntsOn(f, S), IntsOn(g, S), IntsOn(h, S)
    PROVE  /\ Times2(f, f, S) \in Int /\ Times2(g, g, S) \in Int /\ Times2(h, h, S) \in Int
           /\ Times2(f, g, S) \in Int /\ Times2(f, h, S) \in Int /\ Times2(g, h, S) \in Int
           /\ Times2(f, f, S) + Times2(g, g, S) + Times2(h, h, S) + 2 * Times2(g, h, S)
                  - 2 * Times2(f, g, S) - 2 * Times2(f, h, S) >= 0
<1> DEFINE P(a, b) == [x \in S |-> a[x] * b[x]]
           ff == P(f, f)  gg == P(g, g)  hh == P(h, h)
           fg == P(f, g)  fh == P(f, h)  gh == P(g, h)
           s1 == [x \in S |-> 1 * ff[x] + 1 * gg[x]]
           s2 == [x \in S |-> 1 * s1[x] + 1 * hh[x]]
           s3 == [x \in S |-> 1 * s2[x] + 2 * gh[x]]
           s4 == [x \in S |-> 1 * s3[x] + (-2) * fg[x]]
           s5 == [x \in S |-> 1 * s4[x] + (-2) * fh[x]]
<1>1. \A x \in S : f[x] \in Int /\ g[x] \in Int /\ h[x] \in Int
  BY DEF IntsOn
<1>2. \A x \in S : /\ ff[x] = f[x] * f[x] /\ gg[x] = g[x] * g[x] /\ hh[x] = h[x] * h[x]
                   /\ fg[x] = f[x] * g[x] /\ fh[x] = f[x] * h[x] /\ gh[x] = g[x] * h[x]
  OBVIOUS
<1>3. /\ Times2(f, f, S) = SumOver(ff, S) /\ Times2(g, g, S) = SumOver(gg, S)
      /\ Times2(h, h, S) = SumOver(hh, S) /\ Times2(f, g, S) = SumOver(fg, S)
      /\ Times2(f, h, S) = SumOver(fh, S) /\ Times2(g, h, S) = SumOver(gh, S)
  BY DEF Times2
<1> HIDE DEF ff, gg, hh, fg, fh, gh
<1>4. \A x \in S : /\ ff[x] \in Int /\ gg[x] \in Int /\ hh[x] \in Int
                   /\ fg[x] \in Int /\ fh[x] \in Int /\ gh[x] \in Int
  <2>1. \A m, n \in Int : m * n \in Int
    OBVIOUS
  <2> QED
    BY <1>1, <1>2, <2>1
<1>5. \A x \in S : s1[x] = 1 * ff[x] + 1 * gg[x]
  OBVIOUS
<1>6. \A x \in S : s2[x] = 1 * s1[x] + 1 * hh[x]
  OBVIOUS
<1>7. \A x \in S : s3[x] = 1 * s2[x] + 2 * gh[x]
  OBVIOUS
<1>8. \A x \in S : s4[x] = 1 * s3[x] + (-2) * fg[x]
  OBVIOUS
<1>9. \A x \in S : s5[x] = 1 * s4[x] + (-2) * fh[x]
  OBVIOUS
<1> HIDE DEF s1, s2, s3, s4, s5
<1>10. \A x \in S : s1[x] \in Int /\ s2[x] \in Int /\ s3[x] \in Int /\ s4[x] \in Int
  BY <1>4, <1>5, <1>6, <1>7, <1>8
<1>11. /\ Linear(s1, 1, ff, 1, gg, S) /\ Linear(s2, 1, s1, 1, hh, S)
       /\ Linear(s3, 1, s2, 2, gh, S) /\ Linear(s4, 1, s3, -2, fg, S)
       /\ Linear(s5, 1, s4, -2, fh, S)
  BY <1>4, <1>5, <1>6, <1>7, <1>8, <1>9, <1>10 DEF Linear
<1>12. SumOver(s1, S) = 1 * SumOver(ff, S) + 1 * SumOver(gg, S)
  BY <1>11, SumLinear
<1>13. SumOver(s2, S) = 1 * SumOver(s1, S) + 1 * SumOver(hh, S)
  BY <1>11, SumLinear
<1>14. SumOver(s3, S) = 1 * SumOver(s2, S) + 2 * SumOver(gh, S)
  BY <1>11, SumLinear
<1>15. SumOver(s4, S) = 1 * SumOver(s3, S) + (-2) * SumOver(fg, S)
  BY <1>11, SumLinear
<1>16. SumOver(s5, S) = 1 * SumOver(s4, S) + (-2) * SumOver(fh, S)
  BY <1>11, SumLinear
<1>17. \A x \in S : s5[x] \in Nat
  <2> SUFFICES ASSUME NEW x \in S PROVE s5[x] \in Nat
    OBVIOUS
  <2>1. s5[x] = ff[x] + gg[x] + hh[x] + 2 * gh[x] - 2 * fg[x] - 2 * fh[x]
    BY <1>4, <1>5, <1>6, <1>7, <1>8, <1>9, <1>10
  <2>2. \A a, b, c \in Int :
           a * a + b * b + c * c + 2 * (b * c) - 2 * (a * b) - 2 * (a * c)
               = (a - b - c) * (a - b - c)
    OBVIOUS
  <2>3. \A m \in Int : m * m \in Nat
    OBVIOUS
  <2>4. f[x] - g[x] - h[x] \in Int
    BY <1>1
  <2>5. s5[x] = (f[x] - g[x] - h[x]) * (f[x] - g[x] - h[x])
    BY <1>1, <1>2, <2>1, <2>2
  <2> QED
    BY <2>3, <2>4, <2>5
<1>18. SumOver(s5, S) \in Nat
  BY <1>17, SumNotNegative
<1>19. /\ SumOver(ff, S) \in Int /\ SumOver(gg, S) \in Int /\ SumOver(hh, S) \in Int
       /\ SumOver(fg, S) \in Int /\ SumOver(fh, S) \in Int /\ SumOver(gh, S) \in Int
  BY <1>4, SumOverStep
<1>20. SumOver(s5, S) = SumOver(ff, S) + SumOver(gg, S) + SumOver(hh, S) + 2 * SumOver(gh, S)
                            - 2 * SumOver(fg, S) - 2 * SumOver(fh, S)
  <2>1. SumOver(s1, S) = SumOver(ff, S) + SumOver(gg, S)
    BY <1>12, <1>19
  <2>2. SumOver(s2, S) = SumOver(ff, S) + SumOver(gg, S) + SumOver(hh, S)
    BY <1>13, <1>19, <2>1
  <2>3. SumOver(s3, S) = SumOver(ff, S) + SumOver(gg, S) + SumOver(hh, S) + 2 * SumOver(gh, S)
    BY <1>14, <1>19, <2>2
  <2>4. SumOver(s4, S) = SumOver(ff, S) + SumOver(gg, S) + SumOver(hh, S) + 2 * SumOver(gh, S)
                             - 2 * SumOver(fg, S)
    BY <1>15, <1>19, <2>3
  <2> QED
    BY <1>16, <1>19, <2>4
<1> QED
  BY <1>3, <1>18, <1>19, <1>20

-----------------------------------------------------------------------------
(* The total variance and its parts *)

LEMMA NoWidth == Width({}) = 1
<1> DEFINE f == [x \in {} |-> Side(data.bounds, x)]
<1>1. f = [x \in {} |-> f[x]]
  OBVIOUS
<1>2. Width({}) = Product(f)
  BY DEF Width, SideProduct
<1> HIDE DEF f
<1>3. Width({}) = ProductOver(f, {})
  BY <1>1, <1>2 DEF ProductOver
<1>4. IsFiniteSet({})
  BY FS_EmptySet
<1> QED
  BY <1>3, <1>4, ProductOfOnes

\* Over all the dimensions a cell is its own integral.
LEMMA IntegralAtCell ==
    ASSUME Grown, NEW c \in UnitCells(Breadth)
    PROVE  Integral(Breadth, c) = Prediction(c)
<1>1. Breadth \in SUBSET Breadth
  OBVIOUS
<1>2. \A d \in UnitCells(Breadth) : Part(d, Breadth) = d
  BY <1>1, CellType DEF Part
<1>3. Fibre(Breadth, c) = {c}
  BY <1>2 DEF Fibre
<1>4. Predictions[c] = Prediction(c) /\ Prediction(c) \in Int
  BY PredictionsAreInts
<1>5. IsFiniteSet({c}) /\ Cardinality({c}) = 1
  BY FS_Singleton
<1>6. SumOver(Predictions, {c}) = Cardinality({c}) * Prediction(c)
  <2> DEFINE S == {c}  e == Prediction(c)
  <2>1. \A x \in S : Predictions[x] = e
    BY <1>4
  <2> HIDE DEF e
  <2>2. e \in Int
    BY <1>4 DEF e
  <2>3. SumOver(Predictions, S) = Cardinality(S) * e
    BY <1>5, <2>1, <2>2, SumOfEquals
  <2> QED
    BY <2>3 DEF e
<1>7. Integral(Breadth, c) = SumOver(Predictions, {c})
  BY <1>1, <1>3, IntegralIsFibre
<1> QED
  BY <1>4, <1>5, <1>6, <1>7

\* The total variance, taken leaf by leaf, is that of the cells.
LEMMA TotalIsVariance ==
    ASSUME Grown
    PROVE  TotalVar = VarianceByCells(Breadth)
<1> DEFINE S == UnitCells(Breadth)
           C == leaves
           k == [c \in S |-> CHOOSE l \in leaves : LeafOf(l, c)]
           f == Deviation(Breadth)
           z(l) == Squared(Width(Features) * l.value - FBar)
           g == [l \in C |-> SideProduct(l.box, Features) * z(l)]
<1>1. /\ IsFiniteSet(C) /\ Breadth \subseteq Features /\ Breadth \in SUBSET Breadth
      /\ data.bounds \in Boxes /\ Nested(data.bounds)
      /\ \A l \in C : l.box \in Boxes /\ Nested(l.box) /\ l.value \in Int
  BY GrownFacts DEF Breadth
<1>2. \A b \in Boxes : Nested(b) => SideProduct(b, Features) = SideProduct(b, Breadth)
  <2>1. Features \cap Breadth = Breadth /\ Features \in SUBSET Features
    BY <1>1
  <2> QED
    BY <2>1, SideFacts
<1>3. Width(Features) = Width(Breadth) /\ Width(Breadth) \in Int /\ IsFiniteSet(S)
  BY <1>1, <1>2, GapFacts DEF Width
<1>4. FBar \in Int
  BY FBarIsMean
<1>5. \A c \in S : k[c] \in C /\ LeafOf(k[c], c)
  BY GrownFacts
<1>6. DOMAIN k = S /\ k = [c \in S |-> k[c]]
  OBVIOUS
<1> HIDE DEF k
<1>7. k \in [S -> C]
  BY <1>5, <1>6
<1>8. ASSUME NEW l \in C PROVE z(l) \in Int
  <2>1. Width(Features) * l.value - FBar \in Int
    <3>1. \A a, b, c \in Int : a * b - c \in Int
      OBVIOUS
    <3> QED
      BY <1>1, <1>3, <1>4, <3>1
  <2> QED
    BY <2>1, SquaredIsInt
<1>9. ASSUME NEW c \in S PROVE f[c] = z(k[c])
  <2>1. Integral(Breadth, c) = k[c].value
    BY <1>5, PredictionIs, IntegralAtCell
  <2>2. f[c] = Squared(Gap(Breadth)[c]) /\ Gap(Breadth)[c] = Integral(Breadth, c) * Width(Breadth) - FBar
    BY <1>1, GapFacts DEF Deviation
  <2>3. \A m, n \in Int : m * n = n * m
    OBVIOUS
  <2>4. k[c].value * Width(Breadth) = Width(Features) * k[c].value
    BY <1>1, <1>3, <1>5, <2>3
  <2> QED
    BY <2>1, <2>2, <2>4
<1>10. \A c \in S : f[c] \in Int
  BY <1>5, <1>8, <1>9
<1>11. ASSUME NEW l \in C PROVE {c \in S : k[c] = l} = Grid(l.box, Breadth)
  <2>1. ASSUME NEW c \in S, k[c] = l PROVE c \in Grid(l.box, Breadth)
    <3>1. Holds(l.box, c, Breadth)
      BY <1>5, <2>1 DEF LeafOf
    <3>2. c \in [Breadth -> Int]
      BY <1>1, UnitCellsAreGrid DEF Grid
    <3> QED
      BY <3>1, <3>2 DEF Grid
  <2>2. ASSUME NEW c \in Grid(l.box, Breadth) PROVE c \in S /\ k[c] = l
    <3>1. c \in S
      BY <1>1, GridInside
    <3>2. Holds(l.box, c, Breadth)
      BY DEF Grid
    <3> QED
      BY <1>5, <3>1, <3>2 DEF LeafOf
  <2> QED
    BY <2>1, <2>2
<1>12. ASSUME NEW l \in C PROVE g[l] = PartOf(f, S, k, l)
  <2> DEFINE G == Grid(l.box, Breadth)
             e == z(l)
  <2>1. \A c \in G : f[c] = e
    BY <1>9, <1>11
  <2>2. g[l] = SideProduct(l.box, Features) * e
    OBVIOUS
  <2>3. PartOf(f, S, k, l) = SumOver(f, G)
    BY <1>11 DEF PartOf
  <2>4. IsFiniteSet(G) /\ Cardinality(G) = SideProduct(l.box, Features)
    BY <1>1, <1>2, SideFacts
  <2>5. e \in Int
    BY <1>8
  <2> HIDE DEF G, e, f, g
  <2>6. SumOver(f, G) = Cardinality(G) * e
    BY <2>1, <2>4, <2>5, SumOfEquals
  <2> QED
    BY <2>2, <2>3, <2>4, <2>6
<1>13. TotalVar = SumOver(g, C)
  <2>1. [l \in C |-> SideProduct(l.box, Features) * Squared(Width(Features) * l.value - FBar)]
            = [l \in C |-> g[l]]
    OBVIOUS
  <2> QED
    BY <2>1 DEF TotalVar, SumOver
<1>14. \A l \in C : g[l] = PartOf(f, S, k, l)
  BY <1>12
<1> HIDE DEF S, C, f, g, z
<1>15. SumOver(f, S) = SumOver(g, C)
  BY <1>1, <1>3, <1>7, <1>10, <1>14, SumByParts
<1>16. SumOver(f, S) \in Int
  BY <1>3, <1>10, SumOverStep
<1>17. VarianceByCells(Breadth) = SumOver(f, S)
  <2>1. Breadth \ Breadth = {}
    OBVIOUS
  <2>2. VarianceByCells(Breadth) = Width({}) * SumOver(f, S)
    BY <1>1, <2>1, VarianceForm DEF f, S
  <2> QED
    BY <1>16, <2>2, NoWidth
<1> QED
  BY <1>13, <1>15, <1>17

LEMMA AveragedInts ==
    ASSUME Grown, NEW D \in SUBSET Breadth
    PROVE  IntsOn(Averaged(D), UnitCells(Breadth)) /\ IsFiniteSet(UnitCells(Breadth))
<1>1. Breadth \in SUBSET Breadth
  OBVIOUS
<1> QED
  BY <1>1, AveragedFacts, GapFacts DEF IntsOn

LEMMA TimesNothing ==
    ASSUME NEW S, IsFiniteSet(S), NEW f, NEW g, IntsOn(f, S), \A x \in S : g[x] = 0
    PROVE  Times2(f, g, S) = 0
<1> DEFINE h == [x \in S |-> f[x] * g[x]]
<1>1. \A x \in S : h[x] = f[x] * g[x]
  OBVIOUS
<1> HIDE DEF h
<1>2. \A m \in Int : m * 0 = 0
  OBVIOUS
<1>3. \A x \in S : h[x] = 0
  BY <1>1, <1>2 DEF IntsOn
<1>4. SumOver(h, S) = Cardinality(S) * 0 /\ Cardinality(S) \in Nat
  BY <1>3, SumOfEquals, FS_CardinalityType
<1>5. Times2(f, g, S) = SumOver(h, S)
  BY DEF Times2, h
<1> QED
  BY <1>4, <1>5

\* A marginal over more dimensions varies at least as much.
LEMMA VarianceGrows ==
    ASSUME Grown, NEW E \in SUBSET Breadth, NEW D \in SUBSET E
    PROVE  /\ VarianceByCells(D) <= VarianceByCells(E)
           /\ VarianceByCells(D) \in Int /\ VarianceByCells(E) \in Int
<1> DEFINE S == UnitCells(Breadth)
           f == Averaged(E)
           g == Averaged(D)
           h == [c \in S |-> 0]
<1>1. D \in SUBSET Breadth /\ E \in SUBSET E /\ D \in SUBSET D
  OBVIOUS
<1>2. IntsOn(f, S) /\ IntsOn(g, S) /\ IsFiniteSet(S)
  BY <1>1, AveragedInts
<1>3. (\A c \in S : h[c] = 0) /\ IntsOn(h, S)
  BY DEF IntsOn
<1>4. /\ Times2(f, f, S) = VarianceByCells(E)
      /\ Times2(f, g, S) = VarianceByCells(D)
      /\ Times2(g, g, S) = VarianceByCells(D)
  BY <1>1, InnerIsVariance DEF Inner
<1> HIDE DEF S, f, g, h
<1>5. Times2(f, h, S) = 0 /\ Times2(g, h, S) = 0 /\ Times2(h, h, S) = 0
  BY <1>2, <1>3, TimesNothing
<1>6. /\ Times2(f, f, S) \in Int /\ Times2(g, g, S) \in Int
      /\ Times2(f, f, S) + Times2(g, g, S) + Times2(h, h, S) + 2 * Times2(g, h, S)
             - 2 * Times2(f, g, S) - 2 * Times2(f, h, S) >= 0
  BY <1>2, <1>3, SquaresOfRest
<1> QED
  BY <1>4, <1>5, <1>6

\* Two main effects are parts of the joint one, and do not overlap.
LEMMA MainsWithinJoint ==
    ASSUME Grown, NEW x \in Breadth, NEW y \in Breadth, x # y
    PROVE  VarianceByCells({x}) + VarianceByCells({y}) <= VarianceByCells({x, y})
<1> DEFINE S == UnitCells(Breadth)
           f == Averaged({x, y})
           g == Averaged({x})
           h == Averaged({y})
<1>1. /\ {x, y} \in SUBSET Breadth /\ {x} \in SUBSET Breadth /\ {y} \in SUBSET Breadth
      /\ {x} \in SUBSET {x, y} /\ {y} \in SUBSET {x, y} /\ {x, y} \in SUBSET {x, y}
      /\ {x} \in SUBSET {x} /\ {y} \in SUBSET {y} /\ {y} \cap {x} = {}
  OBVIOUS
<1>2. IntsOn(f, S) /\ IntsOn(g, S) /\ IntsOn(h, S) /\ IsFiniteSet(S)
  BY <1>1, AveragedInts
<1>3. /\ Times2(f, f, S) = VarianceByCells({x, y})
      /\ Times2(f, g, S) = VarianceByCells({x})
      /\ Times2(f, h, S) = VarianceByCells({y})
      /\ Times2(g, g, S) = VarianceByCells({x})
      /\ Times2(h, h, S) = VarianceByCells({y})
  BY <1>1, InnerIsVariance DEF Inner
<1>4. Times2(g, h, S) = 0
  BY <1>1, InnerOrthogonal DEF Inner
<1> HIDE DEF S, f, g, h
<1>5. /\ Times2(f, f, S) \in Int /\ Times2(g, g, S) \in Int /\ Times2(h, h, S) \in Int
      /\ Times2(f, f, S) + Times2(g, g, S) + Times2(h, h, S) + 2 * Times2(g, h, S)
             - 2 * Times2(f, g, S) - 2 * Times2(f, h, S) >= 0
  BY <1>2, SquaresOfRest
<1> QED
  BY <1>3, <1>4, <1>5

\* Of any finished tree, whatever study, options, bootstrap and splits, two parameters
\* together explain at least what each explains alone, and at most the total: their
\* interaction is never negative, and when there are no others they explain it all
\* (fanova.rs:125-138, 171-173).
THEOREM EffectsShareVariance == Spec => []Decomposes
<1>1. Init => SizeInv
  BY InitSize
<1>2. SizeInv /\ [Next]_vars => SizeInv'
  BY FitSize, LeafSize, SplitSize, StutterSize DEF Next
<1>3. SizeInv => Decomposes
  <2> SUFFICES ASSUME SizeInv, Finished, InDomain, Measured,
                      NEW x \in Breadth, NEW y \in Breadth, x # y
               PROVE  /\ MarginalVariance({x}) + MarginalVariance({y}) <= MarginalVariance({x, y})
                      /\ MarginalVariance({x, y}) <= TotalVar
                      /\ (Features = {x, y} => MarginalVariance({x, y}) = TotalVar)
    BY DEF Decomposes
  <2>1. Grown
    BY DEF Grown
  <2>2. /\ MarginalVariance({x}) = VarianceByCells({x})
        /\ MarginalVariance({y}) = VarianceByCells({y})
        /\ MarginalVariance({x, y}) = VarianceByCells({x, y})
    BY <2>1, MarginalVarianceIsExact
  <2>3. TotalVar = VarianceByCells(Breadth)
    BY <2>1, TotalIsVariance
  <2>4. VarianceByCells({x}) + VarianceByCells({y}) <= VarianceByCells({x, y})
    BY <2>1, MainsWithinJoint
  <2>5. VarianceByCells({x, y}) <= VarianceByCells(Breadth)
    <3>1. {x, y} \in SUBSET Breadth /\ Breadth \in SUBSET Breadth
      OBVIOUS
    <3> QED
      BY <2>1, <3>1, VarianceGrows
  <2>6. Features = {x, y} => Breadth = {x, y}
    BY DEF Breadth
  <2> QED
    BY <2>2, <2>3, <2>4, <2>5, <2>6
<1> QED
  BY <1>1, <1>2, <1>3, PTL DEF Spec

=============================================================================
