---------------------------- MODULE TrialsProofs ----------------------------
(***************************************************************************)
(* What the operations on a trial's lists of parameters and reports do,    *)
(* for every list: the facts Trial::record and report rest on.  And what   *)
(* best_trial and best_so_far find, in every history.                      *)
(***************************************************************************)
EXTENDS History, SequenceTheorems, FiniteSetTheorems, WellFoundedInduction, TLAPS

\* A non-empty set of naturals has a least element.
LEMMA LeastNatural ==
    ASSUME NEW S, S \subseteq Nat, S # {}
    PROVE  \E i \in S : \A j \in S : i <= j
<1>1. PICK i \in S : \A j \in S : ~(<<j, i>> \in OpToRel(<, Nat))
  BY NatLessThanWellFounded, WFMin
<1>2. \A j \in S : ~(j < i)
  BY <1>1 DEF OpToRel
<1> QED BY <1>2

\* The first slot of a key is a slot of that key.
LEMMA FirstSlotIsSlot ==
    ASSUME NEW K, NEW V, NEW s \in Seq(Entry(K, V)), NEW k, Slots(s, k) # {}
    PROVE  /\ FirstSlot(s, k) \in 1 .. Len(s)
           /\ s[FirstSlot(s, k)].key = k
<1>1. Slots(s, k) \subseteq 1 .. Len(s)
  BY DEF Slots
<1>2. \E i \in Slots(s, k) : \A j \in Slots(s, k) : i <= j
  BY <1>1, LeastNatural
<1>3. FirstSlot(s, k) \in Slots(s, k)
  BY <1>2, Zenon DEF FirstSlot
<1> QED BY <1>1, <1>3 DEF Slots

LEMMA LookupType ==
    ASSUME NEW K, NEW V, NEW s \in Seq(Entry(K, V)), NEW k
    PROVE  Lookup(s, k) \in V \cup {None}
<1>1. CASE Slots(s, k) = {}
  BY <1>1 DEF Lookup
<1>2. CASE Slots(s, k) # {}
  <2>1. FirstSlot(s, k) \in 1 .. Len(s)
    BY <1>2, FirstSlotIsSlot
  <2>2. s[FirstSlot(s, k)] \in Entry(K, V)
    BY <2>1
  <2>3. s[FirstSlot(s, k)].val \in V
    BY <2>2 DEF Entry
  <2> QED BY <1>2, <2>3 DEF Lookup
<1> QED BY <1>1, <1>2

\* Upsert keeps a list of entries a list of entries.
LEMMA UpsertType ==
    ASSUME NEW K, NEW V, NEW s \in Seq(Entry(K, V)), NEW k \in K, NEW v \in V
    PROVE  Upsert(s, k, v) \in Seq(Entry(K, V))
<1> DEFINE e == [key |-> k, val |-> v]
<1>1. e \in Entry(K, V)
  BY DEF Entry
<1>2. CASE Slots(s, k) = {}
  BY <1>1, <1>2 DEF Upsert
<1>3. CASE Slots(s, k) # {}
  <2>1. FirstSlot(s, k) \in 1 .. Len(s)
    BY <1>3, FirstSlotIsSlot
  <2>2. [s EXCEPT ![FirstSlot(s, k)] = e] \in Seq(Entry(K, V))
    BY <2>1, <1>1, ExceptSeq
  <2> QED BY <2>2, <1>3 DEF Upsert
<1> QED BY <1>2, <1>3

\* No key is ever lost, whatever the list.
LEMMA UpsertKeeps ==
    ASSUME NEW K, NEW V, NEW s \in Seq(Entry(K, V)), NEW k \in K, NEW v \in V
    PROVE  Keys(s) \subseteq Keys(Upsert(s, k, v))
<1> DEFINE e == [key |-> k, val |-> v]
<1>1. e \in Entry(K, V) /\ e.key = k
  BY DEF Entry
<1>2. CASE Slots(s, k) = {}
  <2>1. Upsert(s, k, v) = Append(s, e)
    BY <1>2 DEF Upsert
  <2>2. \A i \in DOMAIN s : i \in DOMAIN Append(s, e) /\ Append(s, e)[i] = s[i]
    BY <1>1
  <2> QED BY <2>1, <2>2 DEF Keys
<1>3. CASE Slots(s, k) # {}
  <2>1. Upsert(s, k, v) = [s EXCEPT ![FirstSlot(s, k)] = e]
    BY <1>3 DEF Upsert
  <2>2. s[FirstSlot(s, k)].key = k
    BY <1>3, FirstSlotIsSlot
  <2>3. ASSUME NEW i \in DOMAIN s
        PROVE  i \in DOMAIN Upsert(s, k, v) /\ Upsert(s, k, v)[i].key = s[i].key
    BY <1>1, <2>1, <2>2
  <2> QED BY <2>3 DEF Keys
<1> QED BY <1>2, <1>3

\* Upsert never shortens a list.
LEMMA UpsertLonger ==
    ASSUME NEW K, NEW V, NEW s \in Seq(Entry(K, V)), NEW k \in K, NEW v \in V
    PROVE  Len(s) <= Len(Upsert(s, k, v))
<1> DEFINE e == [key |-> k, val |-> v]
<1>1. e \in Entry(K, V)
  BY DEF Entry
<1>2. CASE Slots(s, k) = {}
  BY <1>1, <1>2 DEF Upsert
<1>3. CASE Slots(s, k) # {}
  <2>1. FirstSlot(s, k) \in 1 .. Len(s)
    BY <1>3, FirstSlotIsSlot
  <2> QED BY <2>1, <1>1, <1>3, ExceptSeq DEF Upsert
<1> QED BY <1>2, <1>3

\* The entries of an upserted list: the new one in the slot of k, every other
\* one where it was.
LEMMA UpsertEntries ==
    ASSUME NEW K, NEW V, NEW s \in Seq(Entry(K, V)), NEW k \in K, NEW v \in V,
           DistinctKeys(s)
    PROVE  LET u == Upsert(s, k, v)
           IN  /\ Keys(u) = Keys(s) \cup {k}
               /\ DistinctKeys(u)
               /\ \E p \in 1 .. Len(u) :
                     /\ u[p] = [key |-> k, val |-> v]
                     /\ \A i \in 1 .. Len(s) : i # p => u[i] = s[i] /\ s[i].key # k
                     /\ \A i \in 1 .. Len(u) : i # p => i \in 1 .. Len(s)
<1> DEFINE e == [key |-> k, val |-> v]
           u == Upsert(s, k, v)
<1>1. PICK p \in 1 .. Len(u) :
        /\ Len(s) <= Len(u) /\ Len(s) \in Nat /\ Len(u) \in Nat
        /\ u \in Seq(Entry(K, V))
        /\ u[p] = e
        /\ \A i \in 1 .. Len(s) : i # p => u[i] = s[i] /\ s[i].key # k
        /\ \A i \in 1 .. Len(u) : i # p => i \in 1 .. Len(s)
        /\ p \in 1 .. Len(s) => s[p].key = k
  <2>0. u \in Seq(Entry(K, V))
    BY UpsertType
  <2>1. CASE Slots(s, k) = {}
    <3>1. u = Append(s, e) /\ e \in Entry(K, V)
      BY <2>1 DEF Upsert, Entry
    <3>2. Len(u) = Len(s) + 1 /\ u[Len(s) + 1] = e
          /\ \A i \in 1 .. Len(s) : u[i] = s[i]
      BY <3>1
    <3>3. \A i \in 1 .. Len(s) : s[i].key # k
      BY <2>1 DEF Slots
    <3> QED BY <2>0, <3>2, <3>3
  <2>2. CASE Slots(s, k) # {}
    <3> DEFINE f == FirstSlot(s, k)
    <3>1. f \in 1 .. Len(s) /\ s[f].key = k
      BY <2>2, FirstSlotIsSlot
    <3>2. u = [s EXCEPT ![f] = e] /\ e \in Entry(K, V)
      BY <2>2 DEF Upsert, Entry
    <3>3. Len(u) = Len(s) /\ \A i \in 1 .. Len(s) : u[i] = IF i = f THEN e ELSE s[i]
      BY <3>1, <3>2, ExceptSeq
    <3>4. \A i \in 1 .. Len(s) : i # f => s[i].key # k
      BY <3>1 DEF DistinctKeys
    <3> QED BY <2>0, <3>1, <3>3, <3>4
  <2> QED BY <2>1, <2>2
<1>2. u[p].key = k /\ DOMAIN u = 1 .. Len(u) /\ DOMAIN s = 1 .. Len(s)
  BY <1>1
<1>3. Keys(u) = Keys(s) \cup {k}
  <2>1. Keys(u) \subseteq Keys(s) \cup {k}
    BY <1>1, <1>2 DEF Keys
  <2>2. Keys(s) \subseteq Keys(u)
    <3>1. ASSUME NEW i \in 1 .. Len(s) PROVE s[i].key \in Keys(u)
      <4>1. CASE i = p
        BY <4>1, <1>1, <1>2 DEF Keys
      <4>2. CASE i # p
        BY <4>2, <1>1, <1>2 DEF Keys
      <4> QED BY <4>1, <4>2
    <3> QED BY <3>1, <1>2 DEF Keys
  <2>3. k \in Keys(u)
    BY <1>1, <1>2 DEF Keys
  <2> QED BY <2>1, <2>2, <2>3
<1>4. DistinctKeys(u)
  <2>1. \A i \in 1 .. Len(u) : i # p => u[i].key = s[i].key /\ i \in 1 .. Len(s) /\ s[i].key # k
    BY <1>1
  <2> QED BY <2>1, <1>2 DEF DistinctKeys
<1> HIDE DEF u
<1> QED BY <1>1, <1>3, <1>4 DEF u

\* Trial::record and then Trial::param_value (trial.rs:62-78), report and then
\* value_at_step: the last value written for a name or a step is the one read
\* back, and no other name or step is touched.
THEOREM UpsertThenLookup ==
    ASSUME NEW K, NEW V, NEW s \in Seq(Entry(K, V)), NEW k \in K, NEW v \in V,
           DistinctKeys(s)
    PROVE  /\ Lookup(Upsert(s, k, v), k) = v
           /\ \A j \in K : j # k => Lookup(Upsert(s, k, v), j) = Lookup(s, j)
<1> DEFINE u == Upsert(s, k, v)
<1>0. u \in Seq(Entry(K, V))
  BY UpsertType
<1>1. /\ DistinctKeys(u)
      /\ \E p \in 1 .. Len(u) :
            /\ u[p] = [key |-> k, val |-> v]
            /\ \A i \in 1 .. Len(s) : i # p => u[i] = s[i] /\ s[i].key # k
            /\ \A i \in 1 .. Len(u) : i # p => i \in 1 .. Len(s)
  BY UpsertEntries
<1>2. PICK p \in 1 .. Len(u) :
        /\ u[p] = [key |-> k, val |-> v]
        /\ \A i \in 1 .. Len(s) : i # p => u[i] = s[i] /\ s[i].key # k
        /\ \A i \in 1 .. Len(u) : i # p => i \in 1 .. Len(s)
  BY <1>1
<1> HIDE DEF u
<1>3. DOMAIN u = 1 .. Len(u) /\ DOMAIN s = 1 .. Len(s)
  BY <1>0
<1>4. Lookup(u, k) = v
  <2>1. Slots(u, k) # {}
    BY <1>2, <1>3 DEF Slots
  <2>2. FirstSlot(u, k) \in 1 .. Len(u) /\ u[FirstSlot(u, k)].key = k
    BY <1>0, <2>1, FirstSlotIsSlot
  <2>3. FirstSlot(u, k) = p
    BY <1>1, <1>2, <1>3, <2>2 DEF DistinctKeys
  <2> QED BY <1>2, <2>1, <2>3 DEF Lookup
<1>5. ASSUME NEW j \in K, j # k PROVE Lookup(u, j) = Lookup(s, j)
  <2>1. Slots(s, j) = Slots(u, j)
    <3>1. ASSUME NEW i \in Slots(s, j) PROVE i \in Slots(u, j)
      <4>1. i \in 1 .. Len(s) /\ s[i].key = j
        BY <1>3, <3>1 DEF Slots
      <4>2. CASE i = p
        <5>1. Slots(s, k) # {} \/ Slots(s, k) = {}
          OBVIOUS
        <5>2. CASE Slots(s, k) = {}
          <6>1. Len(u) = Len(s) + 1 /\ u[i] = s[i]
            BY <5>2, <4>1 DEF u, Upsert
          <6> QED BY <6>1, <4>1, <4>2, <1>2, <1>3, <1>5 DEF Slots
        <5>3. CASE Slots(s, k) # {}
          <6>1. FirstSlot(s, k) \in 1 .. Len(s) /\ s[FirstSlot(s, k)].key = k
            BY <5>3, FirstSlotIsSlot
          <6>2. FirstSlot(s, k) = p
            BY <6>1, <1>2
          <6> QED BY <6>1, <6>2, <4>1, <4>2, <1>5
        <5> QED BY <5>1, <5>2, <5>3
      <4>3. CASE i # p
        BY <4>1, <4>3, <1>0, <1>2, <1>3, UpsertLonger DEF Slots, u
      <4> QED BY <4>2, <4>3
    <3>2. ASSUME NEW i \in Slots(u, j) PROVE i \in Slots(s, j)
      <4>1. i \in 1 .. Len(u) /\ u[i].key = j
        BY <1>3, <3>2 DEF Slots
      <4>2. i # p
        BY <4>1, <1>2, <1>5
      <4> QED BY <4>1, <4>2, <1>2, <1>3 DEF Slots
    <3> QED BY <3>1, <3>2
  <2>2. CASE Slots(s, j) = {}
    BY <2>1, <2>2 DEF Lookup
  <2>3. CASE Slots(s, j) # {}
    <3>1. FirstSlot(u, j) = FirstSlot(s, j)
      BY <2>1 DEF FirstSlot
    <3>2. FirstSlot(s, j) \in 1 .. Len(s) /\ s[FirstSlot(s, j)].key = j
      BY <2>3, FirstSlotIsSlot
    <3>3. FirstSlot(u, j) \in 1 .. Len(u) /\ u[FirstSlot(u, j)].key = j
      BY <1>0, <2>1, <2>3, FirstSlotIsSlot
    <3>4. FirstSlot(s, j) # p
      BY <3>1, <3>3, <1>2, <1>5
    <3>5. u[FirstSlot(u, j)] = s[FirstSlot(s, j)]
      BY <3>1, <3>2, <3>4, <1>2
    <3> QED BY <3>5, <2>1, <2>3 DEF Lookup
  <2> QED BY <2>2, <2>3
<1> QED BY <1>4, <1>5 DEF u

-----------------------------------------------------------------------------
(* What happens to a trial leaves it a trial.                               *)

\* A fresh trial is a trial, of its number (trial.rs:49-57).
LEMMA NewTrialType ==
    ASSUME NEW n \in Nat, NEW N, NEW S, NEW V
    PROVE  NewTrial(n) \in TrialType(N, S, V) /\ NewTrial(n).number = n
BY DEF NewTrial, TrialType, TrialStates

\* Recording a parameter leaves a trial a trial, of the same number (trial.rs:62-73).
LEMMA RecordType ==
    ASSUME NEW N, NEW S, NEW V, NEW t \in TrialType(N, S, V), NEW name \in N, NEW v \in Int
    PROVE  /\ Record(t, name, v) \in TrialType(N, S, V)
           /\ Record(t, name, v).number = t.number
<1>1. Upsert(t.params, name, v) \in Seq(Entry(N, Int))
  BY UpsertType DEF TrialType
<1> QED BY <1>1 DEF Record, TrialType

\* Adding a report leaves a trial a trial, of the same number (coordinator.rs:234-242).
LEMMA AddReportType ==
    ASSUME NEW N, NEW S, NEW V, NEW t \in TrialType(N, S, V), NEW step \in S, NEW v \in V
    PROVE  /\ AddReport(t, step, v) \in TrialType(N, S, V)
           /\ AddReport(t, step, v).number = t.number
<1>1. Upsert(t.intermediate_values, step, v) \in Seq(Entry(S, V))
  BY UpsertType DEF TrialType
<1> QED BY <1>1 DEF AddReport, TrialType

\* Folding in an outcome leaves a trial a trial, of the same number (coordinator.rs:254-261).
LEMMA FinishTrialType ==
    ASSUME NEW N, NEW S, NEW V, NEW t \in TrialType(N, S, V), NEW o \in Outcome(V)
    PROVE  /\ FinishTrial(t, o) \in TrialType(N, S, V)
           /\ FinishTrial(t, o).number = t.number
<1>1. CASE o.kind = "Complete"
  <2>1. o.value \in V
    BY <1>1 DEF Outcome
  <2> QED BY <1>1, <2>1 DEF FinishTrial, TrialType, TrialStates
<1>2. CASE o.kind # "Complete"
  <2>1. o.kind \in {"Pruned", "Failed"}
    BY <1>2 DEF Outcome
  <2> QED BY <1>2, <2>1 DEF FinishTrial, TrialType, TrialStates
<1> QED BY <1>1, <1>2

\* A trial over some floats is a trial over more.
LEMMA TrialTypeGrows ==
    ASSUME NEW N, NEW S, NEW V, NEW W, V \subseteq W, NEW t \in TrialType(N, S, V)
    PROVE  t \in TrialType(N, S, W)
<1>1. Entry(S, V) \subseteq Entry(S, W)
  BY DEF Entry
<1>2. t.intermediate_values \in Seq(Entry(S, W))
  <2>1. t.intermediate_values \in Seq(Entry(S, V))
    BY DEF TrialType
  <2> QED BY <1>1, <2>1
<1> QED BY <1>2 DEF TrialType

-----------------------------------------------------------------------------
(* Recursion over the numbers of the trials.                                *)

\* A finite set of naturals has a largest element.
LEMMA LargestNatural ==
    ASSUME NEW S, S \subseteq Nat, S # {}, IsFiniteSet(S)
    PROVE  \E n \in S : \A m \in S : m <= n
<1> DEFINE Bounds == {u \in Nat : \A m \in S : m <= u}
<1>1. \A m \in S : m \in Nat
  OBVIOUS
<1>2. \E u \in Nat : \A m \in S : m <= u
  <2>1. PICK c \in Nat : ExistsBijection(1 .. c, S)
    BY FS_NatBijection
  <2>2. PICK f \in [1 .. c -> S] : \A m \in S : \E i \in 1 .. c : f[i] = m
    BY <2>1 DEF ExistsBijection, Bijection, Surjection
  <2> DEFINE Free == {k \in 0 .. c : \A u \in Nat : \E i \in 1 .. k : f[i] > u}
  <2>3. Free = {}
    <3> SUFFICES ASSUME Free # {} PROVE FALSE
      OBVIOUS
    <3>1. Free \subseteq Nat
      OBVIOUS
    <3>2. PICK k \in Free : \A j \in Free : k <= j
      BY <3>1, LeastNatural
    <3>3. k \in 0 .. c /\ \A u \in Nat : \E i \in 1 .. k : f[i] > u
      BY <3>2
    <3> HIDE DEF Free
    <3>4. k # 0
      BY <3>3
    <3>5. k \in 1 .. c /\ k - 1 \in 0 .. c /\ k - 1 \notin Free
      BY <3>2, <3>3, <3>4
    <3>6. PICK u \in Nat : \A i \in 1 .. k - 1 : ~(f[i] > u)
      BY <3>5 DEF Free
    <3>7. f[k] \in Nat
      BY <1>1, <3>5
    <3>8. PICK w \in Nat : u <= w /\ f[k] <= w
      BY <3>7
    <3>9. PICK i \in 1 .. k : f[i] > w
      BY <3>3, <3>8
    <3>10. i \in 1 .. c
      BY <3>5
    <3>11. f[i] \in Nat
      BY <1>1, <3>10
    <3>12. CASE i = k
      BY <3>7, <3>8, <3>9, <3>12
    <3>13. CASE i \in 1 .. k - 1
      BY <3>6, <3>8, <3>9, <3>11, <3>13
    <3> QED BY <3>5, <3>9, <3>12, <3>13
  <2>4. PICK u \in Nat : \A i \in 1 .. c : ~(f[i] > u)
    <3>1. c \in 0 .. c /\ c \notin Free
      <4> HIDE DEF Free
      <4> QED BY <2>3
    <3> QED BY <3>1
  <2>5. \A i \in 1 .. c : f[i] <= u
    <3>1. \A i \in 1 .. c : f[i] \in Nat
      BY <1>1
    <3> QED BY <2>4, <3>1
  <2> QED BY <2>2, <2>5
<1>3. Bounds \subseteq Nat /\ Bounds # {}
  BY <1>2
<1>4. PICK u \in Bounds : \A v \in Bounds : u <= v
  BY <1>3, LeastNatural
<1>5. u \in S
  <2> SUFFICES ASSUME u \notin S PROVE FALSE
    OBVIOUS
  <2>1. u \in Nat /\ \A m \in S : m < u
    BY <1>4
  <2>2. u # 0
    <3>1. PICK m \in S : TRUE
      OBVIOUS
    <3> QED BY <1>1, <2>1, <3>1
  <2>3. u - 1 \in Nat /\ \A m \in S : m <= u - 1
    BY <2>1, <2>2
  <2>4. u - 1 \in Bounds
    BY <2>3
  <2> QED BY <1>4, <2>1, <2>4
<1> QED BY <1>4, <1>5

\* g is the function that starts with a and goes on by F, as far as n.
Partial(X, a, F, g, n) ==
    /\ g \in [0 .. n -> X] /\ g[0] = a
    /\ \A k \in 1 .. n : g[k] = F[<<k - 1, g[k - 1]>>]

\* Two of them agree as far as both go.
LEMMA PartialsAgree ==
    ASSUME NEW X, NEW a, NEW F, NEW n \in Nat, NEW m \in Nat, NEW g, NEW h,
           Partial(X, a, F, g, n), Partial(X, a, F, h, m), n <= m
    PROVE  \A k \in 0 .. n : g[k] = h[k]
<1> DEFINE S == {k \in 0 .. n : g[k] # h[k]}
<1> SUFFICES ASSUME S # {} PROVE FALSE
  OBVIOUS
<1>1. S \subseteq Nat
  OBVIOUS
<1>2. PICK k \in S : \A j \in S : k <= j
  BY <1>1, LeastNatural
<1>3. g[0] = h[0]
  BY DEF Partial
<1>4. k \in 1 .. n /\ k \in 1 .. m /\ k - 1 \in 0 .. n /\ k - 1 \notin S
  BY <1>2, <1>3
<1>5. g[k - 1] = h[k - 1]
  BY <1>4
<1> QED BY <1>2, <1>4, <1>5 DEF Partial

\* ... and f is the one that goes on for ever.
Unfolds(X, a, F, f) ==
    /\ f \in [Nat -> X] /\ f[0] = a
    /\ \A k \in Nat : k # 0 => f[k] = F[<<k - 1, f[k - 1]>>]

\* A function defined by recursion on the naturals exists.
LEMMA Recursion ==
    ASSUME NEW X, NEW a \in X, NEW F \in [Nat \X X -> X]
    PROVE  \E f : Unfolds(X, a, F, f)
<1>1. \A n \in Nat : \E g : Partial(X, a, F, g, n)
  <2> DEFINE S == {n \in Nat : ~\E g : Partial(X, a, F, g, n)}
  <2> SUFFICES ASSUME S # {} PROVE FALSE
    OBVIOUS
  <2>1. S \subseteq Nat
    OBVIOUS
  <2>2. PICK n \in S : \A j \in S : n <= j
    BY <2>1, LeastNatural
  <2>3. n # 0
    <3>1. Partial(X, a, F, [k \in 0 .. 0 |-> a], 0)
      BY DEF Partial
    <3> QED BY <2>2, <3>1
  <2>4. n \in Nat /\ n - 1 \in Nat /\ n - 1 \notin S
    BY <2>2, <2>3
  <2>5. PICK g : Partial(X, a, F, g, n - 1)
    BY <2>4
  <2> DEFINE b == F[<<n - 1, g[n - 1]>>]
             h == [k \in 0 .. n |-> IF k = n THEN b ELSE g[k]]
  <2>6. b \in X
    BY <2>4, <2>5 DEF Partial
  <2> HIDE DEF b
  <2>7. h \in [0 .. n -> X] /\ h[0] = a /\ h[n] = b
    BY <2>4, <2>5, <2>6 DEF Partial
  <2>8. \A k \in 0 .. n - 1 : h[k] = g[k]
    BY <2>4
  <2>9. ASSUME NEW k \in 1 .. n PROVE h[k] = F[<<k - 1, h[k - 1]>>]
    <3>1. k - 1 \in 0 .. n - 1 /\ h[k - 1] = g[k - 1]
      BY <2>4, <2>8
    <3>2. CASE k = n
      BY <2>7, <3>1, <3>2 DEF b
    <3>3. CASE k \in 1 .. n - 1
      BY <2>5, <2>8, <3>1, <3>3 DEF Partial
    <3> QED BY <2>4, <3>2, <3>3
  <2>10. Partial(X, a, F, h, n)
    BY <2>7, <2>9 DEF Partial
  <2> QED BY <2>2, <2>10
<1> DEFINE G(n) == CHOOSE g : Partial(X, a, F, g, n)
           f == [n \in Nat |-> G(n)[n]]
<1>2. \A n \in Nat : Partial(X, a, F, G(n), n)
  BY <1>1
<1> HIDE DEF G
<1>3. \A n \in Nat : G(n) \in [0 .. n -> X] /\ G(n)[0] = a
  BY <1>2 DEF Partial
<1>4. f \in [Nat -> X] /\ f[0] = a
  BY <1>3
<1>5. ASSUME NEW k \in Nat, k # 0 PROVE f[k] = F[<<k - 1, f[k - 1]>>]
  <2>1. k - 1 \in Nat /\ k - 1 \in 0 .. k - 1 /\ k - 1 <= k /\ k \in 1 .. k
    BY <1>5
  <2>2. G(k)[k] = F[<<k - 1, G(k)[k - 1]>>]
    BY <1>2, <2>1 DEF Partial
  <2>3. Partial(X, a, F, G(k), k) /\ Partial(X, a, F, G(k - 1), k - 1)
    BY <1>2, <2>1
  <2>4. G(k - 1)[k - 1] = G(k)[k - 1]
    BY <2>1, <2>3, PartialsAgree
  <2> QED BY <2>1, <2>2, <2>4
<1> HIDE DEF f
<1>6. Unfolds(X, a, F, f)
  BY <1>4, <1>5 DEF Unfolds
<1> QED BY <1>6

\* Induction, over a set rather than a predicate.
LEMMA StepByStep ==
    ASSUME NEW S, NEW N \in Nat, 0 \in S, \A k \in 1 .. N : k - 1 \in S => k \in S
    PROVE  \A k \in 0 .. N : k \in S
<1> DEFINE Off == {k \in 0 .. N : k \notin S}
<1> SUFFICES ASSUME Off # {} PROVE FALSE
  OBVIOUS
<1>1. Off \subseteq Nat
  OBVIOUS
<1>2. PICK k \in Off : \A j \in Off : k <= j
  BY <1>1, LeastNatural
<1>3. k \in 1 .. N /\ k - 1 \in 0 .. N /\ k - 1 \notin Off
  BY <1>2
<1> QED BY <1>2, <1>3

\* A recursion that ends.
LEMMA PartialExists ==
    ASSUME NEW X, NEW a \in X, NEW F \in [Nat \X X -> X], NEW n \in Nat
    PROVE  \E g : Partial(X, a, F, g, n)
<1>1. PICK f : Unfolds(X, a, F, f)
  BY Recursion
<1> DEFINE g == [k \in 0 .. n |-> f[k]]
<1>2. Partial(X, a, F, g, n)
  BY <1>1 DEF Partial, Unfolds
<1> QED BY <1>2

\* The powers of b.
ArePowers(b, f) == f = [k \in Nat |-> IF k = 0 THEN 1 ELSE b * f[k - 1]]

PowersOf(b) == CHOOSE f : ArePowers(b, f)

LEMMA PowersUnfold ==
    ASSUME NEW b \in Nat \ {0}
    PROVE  /\ PowersOf(b) \in [Nat -> Nat \ {0}] /\ PowersOf(b)[0] = 1
           /\ \A k \in Nat : PowersOf(b)[k + 1] = b * PowersOf(b)[k]
<1> DEFINE X == Nat \ {0}
           F == [e \in Nat \X X |-> b * e[2]]
           g == PowersOf(b)
<1>1. F \in [Nat \X X -> X] /\ \A k \in Nat, x \in X : F[<<k, x>>] = b * x
  <2>1. \A x \in X : b * x \in X
    <3>1. ASSUME NEW x \in X PROVE b * x \in X
      <4>1. b - 1 \in Nat /\ (b - 1) * x \in Nat /\ b * x = (b - 1) * x + x
        OBVIOUS
      <4> QED BY <4>1
    <3> QED BY <3>1
  <2>2. \A e \in Nat \X X : e[2] \in X
    OBVIOUS
  <2>3. F \in [Nat \X X -> X]
    <3> HIDE DEF X
    <3> QED BY <2>1, <2>2
  <2> QED BY <2>3
<1>2. 1 \in X
  OBVIOUS
<1> HIDE DEF F, X, g
<1>3. PICK f : Unfolds(X, 1, F, f)
  BY <1>1, <1>2, Recursion
<1>4. f = [k \in Nat |-> f[k]] /\ f[0] = 1
  BY <1>3 DEF Unfolds
<1>5. ASSUME NEW k \in Nat, k # 0 PROVE f[k] = b * f[k - 1]
  <2>1. k - 1 \in Nat /\ f[k - 1] \in X /\ f[k] = F[<<k - 1, f[k - 1]>>]
    BY <1>3, <1>5 DEF Unfolds
  <2> QED BY <1>1, <2>1
<1>6. ArePowers(b, f)
  BY <1>4, <1>5 DEF ArePowers
<1>7. ArePowers(b, g)
  BY <1>6 DEF PowersOf, g
<1>8. DOMAIN g = Nat /\ g[0] = 1 /\ \A k \in Nat : k # 0 => g[k] = b * g[k - 1]
  BY <1>7 DEF ArePowers
<1>9. \A k \in Nat : g[k] \in X
  <2> DEFINE S == {k \in Nat : g[k] \notin X}
  <2> SUFFICES ASSUME S # {} PROVE FALSE
    OBVIOUS
  <2>1. S \subseteq Nat
    OBVIOUS
  <2>2. PICK k \in S : \A j \in S : k <= j
    BY <2>1, LeastNatural
  <2>3. k # 0
    BY <1>2, <1>8, <2>2
  <2>4. k \in Nat /\ k - 1 \in Nat /\ k - 1 \notin S
    BY <2>2, <2>3
  <2>5. g[k] = b * g[k - 1] /\ g[k - 1] \in X
    BY <1>8, <2>3, <2>4
  <2>6. F[<<k - 1, g[k - 1]>>] \in X /\ F[<<k - 1, g[k - 1]>>] = b * g[k - 1]
    BY <1>1, <2>4, <2>5
  <2> QED BY <2>2, <2>5, <2>6
<1>10. g \in [Nat -> X]
  <2>1. g = [k \in Nat |-> g[k]]
    BY <1>7 DEF ArePowers
  <2> QED BY <1>9, <2>1
<1>11. ASSUME NEW k \in Nat PROVE g[k + 1] = b * g[k]
  <2>1. k + 1 \in Nat /\ k + 1 # 0 /\ (k + 1) - 1 = k
    OBVIOUS
  <2> QED BY <1>8, <2>1
<1> QED BY <1>8, <1>10, <1>11 DEF X, g

\* They grow.
LEMMA PowersGrow ==
    ASSUME NEW b \in Nat \ {0}, NEW i \in Nat, NEW j \in Nat, i <= j
    PROVE  PowersOf(b)[i] <= PowersOf(b)[j]
<1> DEFINE g == PowersOf(b)
           S == {k \in Nat : i <= k /\ ~(g[i] <= g[k])}
<1> SUFFICES ASSUME S # {} PROVE FALSE
  OBVIOUS
<1>1. S \subseteq Nat
  OBVIOUS
<1>2. PICK k \in S : \A l \in S : k <= l
  BY <1>1, LeastNatural
<1>3. g \in [Nat -> Nat \ {0}] /\ \A l \in Nat : g[l + 1] = b * g[l]
  BY PowersUnfold
<1> HIDE DEF g
<1>4. k \in Nat /\ i <= k /\ k # i /\ ~(g[i] <= g[k])
  BY <1>2, <1>3
<1>5. k - 1 \in Nat /\ i <= k - 1 /\ ~(k <= k - 1)
  BY <1>4
<1>6. g[i] <= g[k - 1]
  BY <1>2, <1>5
<1>7. g[(k - 1) + 1] = b * g[k - 1] /\ (k - 1) + 1 = k
  BY <1>3, <1>4, <1>5
<1>8. g[k - 1] \in Nat /\ g[i] \in Nat
  BY <1>3, <1>5
<1> DEFINE x == g[k - 1]
<1>9. x \in Nat
  BY <1>8
<1> HIDE DEF x
<1>10. b - 1 \in Nat /\ (b - 1) * x \in Nat /\ b * x = (b - 1) * x + x
  BY <1>9
<1>11. x <= b * x
  BY <1>9, <1>10
<1> QED BY <1>4, <1>6, <1>7, <1>8, <1>10, <1>11 DEF x

-----------------------------------------------------------------------------
(* The best trial, and the curve.                                           *)

\* What best_trial holds when it has looked at the numbers below k is f[k].
Scans(dir, h, f) ==
    f = [k \in Nat |->
            IF k = 0 THEN None
            ELSE IF /\ k - 1 \in CompletedTrials(h)
                    /\ \/ f[k - 1] = None
                       \/ IsBetter(dir, h[k - 1].value, h[f[k - 1]].value)
                 THEN k - 1 ELSE f[k - 1]]

\* The same of best_so_far, which holds a value.
Climbs(dir, h, f) ==
    f = [k \in Nat |->
            IF k = 0 THEN None
            ELSE IF k - 1 \notin CompletedTrials(h) THEN f[k - 1]
            ELSE IF f[k - 1] = None THEN h[k - 1].value
            ELSE IF IsBetter(dir, h[k - 1].value, f[k - 1]) THEN h[k - 1].value
            ELSE f[k - 1]]

\* There is such a scan ...
LEMMA ScanExists ==
    ASSUME NEW dir, NEW h, CompletedTrials(h) \subseteq Nat
    PROVE  \E f : Scans(dir, h, f)
<1> DEFINE done == CompletedTrials(h)
           X == Nat \cup {None}
           F == [e \in Nat \X X |->
                    IF e[1] \in done /\ (e[2] = None \/ IsBetter(dir, h[e[1]].value, h[e[2]].value))
                    THEN e[1] ELSE e[2]]
<1>1. F \in [Nat \X X -> X]
  OBVIOUS
<1>2. \A k \in Nat, x \in X :
         F[<<k, x>>] = IF k \in done /\ (x = None \/ IsBetter(dir, h[k].value, h[x].value))
                       THEN k ELSE x
  OBVIOUS
<1>3. None \in X
  OBVIOUS
<1> HIDE DEF F, X
<1>4. PICK f : Unfolds(X, None, F, f)
  BY <1>1, <1>3, Recursion
<1>5. ASSUME NEW k \in Nat, k # 0
      PROVE  f[k] = IF /\ k - 1 \in done
                       /\ \/ f[k - 1] = None
                          \/ IsBetter(dir, h[k - 1].value, h[f[k - 1]].value)
                    THEN k - 1 ELSE f[k - 1]
  <2>1. k - 1 \in Nat /\ f[k - 1] \in X /\ f[k] = F[<<k - 1, f[k - 1]>>]
    BY <1>4, <1>5 DEF Unfolds
  <2> QED BY <1>2, <2>1
<1>6. f[0] = None /\ f = [k \in Nat |-> f[k]]
  BY <1>4 DEF Unfolds
<1>7. Scans(dir, h, f)
  BY <1>5, <1>6 DEF Scans
<1> QED BY <1>7

\* ... and such a climb.
LEMMA ClimbExists ==
    ASSUME NEW dir, NEW h, CompletedTrials(h) \subseteq Nat
    PROVE  \E f : Climbs(dir, h, f)
<1> DEFINE done == CompletedTrials(h)
           X == {h[n].value : n \in done} \cup {None}
           F == [e \in Nat \X X |->
                    IF e[1] \notin done THEN e[2]
                    ELSE IF e[2] = None THEN h[e[1]].value
                    ELSE IF IsBetter(dir, h[e[1]].value, e[2]) THEN h[e[1]].value
                    ELSE e[2]]
<1>1. F \in [Nat \X X -> X]
  OBVIOUS
<1>2. \A k \in Nat, x \in X :
         F[<<k, x>>] = IF k \notin done THEN x
                       ELSE IF x = None THEN h[k].value
                       ELSE IF IsBetter(dir, h[k].value, x) THEN h[k].value ELSE x
  OBVIOUS
<1>3. None \in X
  OBVIOUS
<1> HIDE DEF F, X
<1>4. PICK f : Unfolds(X, None, F, f)
  BY <1>1, <1>3, Recursion
<1>5. ASSUME NEW k \in Nat, k # 0
      PROVE  f[k] = IF k - 1 \notin done THEN f[k - 1]
                    ELSE IF f[k - 1] = None THEN h[k - 1].value
                    ELSE IF IsBetter(dir, h[k - 1].value, f[k - 1]) THEN h[k - 1].value
                    ELSE f[k - 1]
  <2>1. k - 1 \in Nat /\ f[k - 1] \in X /\ f[k] = F[<<k - 1, f[k - 1]>>]
    BY <1>4, <1>5 DEF Unfolds
  <2> QED BY <1>2, <2>1
<1>6. f[0] = None /\ f = [k \in Nat |-> f[k]]
  BY <1>4 DEF Unfolds
<1>7. Climbs(dir, h, f)
  BY <1>5, <1>6 DEF Climbs
<1> QED BY <1>7

\* What the scan holds: nothing as long as it has met no completed trial, and then one
\* that none of those it has met beats.
LEMMA ScanHoldsBest ==
    ASSUME NEW dir, NEW h, NEW f, Scans(dir, h, f), CompletedTrials(h) \subseteq Nat,
           \A n \in CompletedTrials(h) : h[n].value \in Int
    PROVE  \A k \in Nat :
              \/ f[k] = None /\ \A m \in CompletedTrials(h) : ~(m < k)
              \/ /\ f[k] \in CompletedTrials(h)
                 /\ \A m \in CompletedTrials(h) :
                       m < k => ~IsBetter(dir, h[m].value, h[f[k]].value)
<1> DEFINE done == CompletedTrials(h)
           Good(k) == \/ f[k] = None /\ \A m \in done : ~(m < k)
                      \/ /\ f[k] \in done
                         /\ \A m \in done : m < k => ~IsBetter(dir, h[m].value, h[f[k]].value)
           S == {k \in Nat : ~Good(k)}
<1>1. None \notin done /\ \A m \in done : m \in Nat /\ h[m].value \in Int /\ h[m].value # NaN
  BY SpecialValues
<1> HIDE DEF done
<1> SUFFICES ASSUME S # {} PROVE FALSE
  BY DEF done
<1>2. S \subseteq Nat
  OBVIOUS
<1>3. PICK k \in S : \A j \in S : k <= j
  BY <1>2, LeastNatural
<1>4. k \in Nat /\ ~Good(k)
  BY <1>3
<1>5. k # 0
  <2>1. f[0] = None
    BY DEF Scans
  <2>2. Good(0)
    BY <1>1, <2>1
  <2> QED BY <1>4, <2>2
<1>6. k - 1 \in Nat /\ k - 1 < k
  BY <1>4, <1>5
<1>7. Good(k - 1)
  <2> HIDE DEF Good
  <2> QED BY <1>3, <1>4, <1>6
<1>8. f[k] = IF /\ k - 1 \in done
                /\ f[k - 1] = None \/ IsBetter(dir, h[k - 1].value, h[f[k - 1]].value)
             THEN k - 1 ELSE f[k - 1]
  BY <1>4, <1>5 DEF Scans, done
<1>9. \A m \in done : m < k => m < k - 1 \/ m = k - 1
  BY <1>1, <1>6
<1>10. CASE k - 1 \notin done
  <2>1. f[k] = f[k - 1] /\ \A m \in done : m < k => m < k - 1
    BY <1>8, <1>9, <1>10
  <2> QED BY <1>4, <1>7, <2>1
<1>11. CASE k - 1 \in done /\ f[k - 1] = None
  <2>1. f[k] = k - 1 /\ \A m \in done : m < k => m = k - 1
    BY <1>1, <1>7, <1>8, <1>9, <1>11
  <2>2. ~IsBetter(dir, h[k - 1].value, h[k - 1].value)
    BY <1>1, <1>11 DEF IsBetter
  <2> QED BY <1>4, <1>11, <2>1, <2>2
<1>12. CASE k - 1 \in done /\ f[k - 1] # None
  <2>1. f[k - 1] \in done
        /\ \A m \in done : m < k - 1 => ~IsBetter(dir, h[m].value, h[f[k - 1]].value)
    BY <1>7, <1>12
  <2>2. CASE IsBetter(dir, h[k - 1].value, h[f[k - 1]].value)
    <3>1. f[k] = k - 1
      BY <1>8, <1>12, <2>2
    <3>2. ASSUME NEW m \in done, m < k PROVE ~IsBetter(dir, h[m].value, h[k - 1].value)
      <4>1. h[m].value \in Int /\ h[k - 1].value \in Int /\ h[f[k - 1]].value \in Int
        BY <1>1, <1>12, <2>1
      <4>2. m < k - 1 \/ m = k - 1
        BY <1>9, <3>2
      <4>3. CASE m = k - 1
        BY <4>1, <4>3 DEF IsBetter
      <4>4. CASE m < k - 1
        BY <1>1, <2>1, <2>2, <4>1, <4>4 DEF IsBetter
      <4> QED BY <4>2, <4>3, <4>4
    <3> QED BY <1>4, <1>12, <3>1, <3>2
  <2>3. CASE ~IsBetter(dir, h[k - 1].value, h[f[k - 1]].value)
    <3>1. f[k] = f[k - 1]
      BY <1>8, <1>12, <2>3
    <3> QED BY <1>4, <1>9, <2>1, <2>3, <3>1
  <2> QED BY <2>2, <2>3
<1> QED BY <1>10, <1>11, <1>12

\* best_trial is where its scan ends.
LEMMA BestTrialScans ==
    ASSUME NEW dir, NEW h, CompletedTrials(h) \subseteq Nat,
           NEW last \in CompletedTrials(h), \A m \in CompletedTrials(h) : m <= last
    PROVE  \E f : /\ Scans(dir, h, f)
                  /\ BestTrial(dir, h) = IF f[1 + last] = None THEN None ELSE h[f[1 + last]]
<1> DEFINE done == CompletedTrials(h)
           end  == CHOOSE n \in done : \A m \in done : m <= n
<1>1. end = last
  <2>1. end \in done /\ \A m \in done : m <= end
    OBVIOUS
  <2>2. end <= last /\ last <= end /\ end \in Nat /\ last \in Nat
    BY <2>1
  <2> QED BY <2>2
<1>2. PICK f : /\ Scans(dir, h, f)
               /\ BestTrial(dir, h) =
                     LET best == IF done = {} THEN None ELSE f[1 + end]
                     IN  IF best = None THEN None ELSE h[best]
  <2>1. PICK g : Scans(dir, h, g)
    BY ScanExists
  <2> QED BY <2>1 DEF BestTrial, Scans
<1> HIDE DEF end
<1> QED BY <1>1, <1>2

\* best_trial returns nothing only of a history without completed trials, and otherwise
\* the trial itself, which no completed one beats (study_state.rs:64-83).
THEOREM BestTrialIsBest ==
    ASSUME NEW dir, NEW h, DOMAIN h \subseteq Nat, IsFiniteSet(DOMAIN h),
           \A n \in CompletedTrials(h) : h[n].value \in Int /\ h[n] # None
    PROVE  IF CompletedTrials(h) = {}
           THEN BestTrial(dir, h) = None /\ BestValue(dir, h) = None
           ELSE \E n \in CompletedTrials(h) :
                   /\ BestTrial(dir, h) = h[n] /\ BestValue(dir, h) = h[n].value
                   /\ \A m \in CompletedTrials(h) : ~IsBetter(dir, h[m].value, h[n].value)
<1> DEFINE done == CompletedTrials(h)
<1>1. done \subseteq Nat /\ done \in SUBSET DOMAIN h /\ None \notin Nat
  BY SpecialValues DEF CompletedTrials
<1>2. CASE done = {}
  <2>1. BestTrial(dir, h) = None
    BY <1>2 DEF BestTrial
  <2> QED BY <1>2, <2>1 DEF BestValue
<1>3. CASE done # {}
  <2>1. IsFiniteSet(done)
    BY <1>1, FS_Subset
  <2> HIDE DEF done
  <2>2. PICK last \in done : \A m \in done : m <= last
    BY <1>1, <1>3, <2>1, LargestNatural
  <2>3. PICK f : /\ Scans(dir, h, f)
                 /\ BestTrial(dir, h) = IF f[1 + last] = None THEN None ELSE h[f[1 + last]]
    BY <1>1, <2>2, BestTrialScans DEF done
  <2>4. last \in Nat /\ 1 + last \in Nat /\ \A m \in done : m < 1 + last
    BY <1>1, <2>2
  <2>5. /\ f[1 + last] \in done
        /\ \A m \in done : ~IsBetter(dir, h[m].value, h[f[1 + last]].value)
    BY <1>1, <2>3, <2>4, ScanHoldsBest DEF done
  <2>6. BestTrial(dir, h) = h[f[1 + last]] /\ h[f[1 + last]] # None
    BY <1>1, <2>3, <2>5 DEF done
  <2> QED BY <1>3, <2>5, <2>6 DEF BestValue, done
<1> QED BY <1>2, <1>3

\* best_so_far is where its climb has got to.
LEMMA CurveClimbs ==
    ASSUME NEW dir, NEW h, CompletedTrials(h) \subseteq Nat
    PROVE  \E f : /\ Climbs(dir, h, f)
                  /\ DOMAIN BestSoFar(dir, h) = CompletedTrials(h)
                  /\ \A n \in CompletedTrials(h) : BestSoFar(dir, h)[n] = f[n + 1]
<1>1. PICK g : Climbs(dir, h, g)
  BY ClimbExists
<1>2. PICK f : Climbs(dir, h, f) /\ BestSoFar(dir, h) = [n \in CompletedTrials(h) |-> f[n + 1]]
  BY <1>1 DEF BestSoFar, Climbs
<1> QED BY <1>2

\* The history up to trial n.
HistoryUpTo(h, n) == [m \in {k \in DOMAIN h : k <= n} |-> h[m]]

\* Its completed trials are those of the history up to trial n.
LEMMA UpToCompleted ==
    ASSUME NEW h, NEW n
    PROVE  \A m : /\ m \in CompletedTrials(HistoryUpTo(h, n)) <=>
                        m \in CompletedTrials(h) /\ m <= n
                  /\ m \in CompletedTrials(h) /\ m <= n => HistoryUpTo(h, n)[m] = h[m]
<1> DEFINE r == HistoryUpTo(h, n)
<1>1. \A m : m \in DOMAIN r <=> m \in DOMAIN h /\ m <= n
  BY DEF HistoryUpTo
<1>2. \A m \in DOMAIN r : r[m] = h[m]
  BY DEF HistoryUpTo
<1> HIDE DEF r
<1> QED BY <1>1, <1>2 DEF CompletedTrials, r

\* Of the history up to some trial the scan holds the trial whose value the climb over
\* the whole history has got to.
LEMMA ScanFollowsClimb ==
    ASSUME NEW dir, NEW h, NEW n \in Nat, NEW f, NEW g, CompletedTrials(h) \subseteq Nat,
           Scans(dir, HistoryUpTo(h, n), f), Climbs(dir, h, g)
    PROVE  \A k \in 0 .. n + 1 :
              \/ f[k] = None /\ g[k] = None
              \/ f[k] \in CompletedTrials(HistoryUpTo(h, n)) /\ g[k] = h[f[k]].value
<1> DEFINE done == CompletedTrials(h)
           r == HistoryUpTo(h, n)
           Same(k) == \/ f[k] = None /\ g[k] = None
                      \/ f[k] \in CompletedTrials(r) /\ g[k] = h[f[k]].value
           S == {k \in 0 .. n + 1 : ~Same(k)}
<1>1. /\ \A m \in done : m \in Nat /\ h[m].value # None /\ m # None
      /\ \A m \in CompletedTrials(r) : m \in done /\ r[m] = h[m]
  BY SpecialValues, UpToCompleted DEF CompletedTrials
<1> SUFFICES ASSUME S # {} PROVE FALSE
  OBVIOUS
<1>2. S \subseteq Nat
  OBVIOUS
<1>3. PICK k \in S : \A j \in S : k <= j
  BY <1>2, LeastNatural
<1>4. k \in 0 .. n + 1 /\ ~Same(k)
  BY <1>3
<1>5. k # 0
  BY <1>4 DEF Scans, Climbs
<1>6. k \in Nat /\ k - 1 \in 0 .. n + 1 /\ k - 1 < k /\ k - 1 <= n
  BY <1>4, <1>5
<1>7. Same(k - 1)
  <2> HIDE DEF Same
  <2> QED BY <1>3, <1>4, <1>6
<1>8. f[k] = IF /\ k - 1 \in CompletedTrials(r)
                /\ f[k - 1] = None \/ IsBetter(dir, r[k - 1].value, r[f[k - 1]].value)
             THEN k - 1 ELSE f[k - 1]
  BY <1>5, <1>6 DEF Scans
<1>9. g[k] = IF k - 1 \notin done THEN g[k - 1]
             ELSE IF g[k - 1] = None THEN h[k - 1].value
             ELSE IF IsBetter(dir, h[k - 1].value, g[k - 1]) THEN h[k - 1].value
             ELSE g[k - 1]
  BY <1>5, <1>6 DEF Climbs
<1>10. k - 1 \in CompletedTrials(r) <=> k - 1 \in done
  BY <1>6, UpToCompleted
<1> HIDE DEF done, r
<1>11. CASE k - 1 \notin done
  BY <1>4, <1>7, <1>8, <1>9, <1>10, <1>11
<1>12. CASE k - 1 \in done /\ f[k - 1] = None
  BY <1>1, <1>4, <1>7, <1>8, <1>9, <1>10, <1>12
<1>13. CASE k - 1 \in done /\ f[k - 1] # None
  <2>1. f[k - 1] \in CompletedTrials(r) /\ g[k - 1] = h[f[k - 1]].value /\ g[k - 1] # None
    BY <1>1, <1>7, <1>13
  <2>2. r[k - 1] = h[k - 1] /\ r[f[k - 1]] = h[f[k - 1]]
    BY <1>1, <1>10, <1>13, <2>1
  <2> QED BY <1>4, <1>8, <1>9, <1>10, <1>13, <2>1, <2>2
<1> QED BY <1>11, <1>12, <1>13

\* The curve and best_value tell one story: at each completed trial the curve is at the
\* best value of the history up to it (history.rs:25-26; study_state.rs:64-83).
THEOREM CurveIsBestValue ==
    ASSUME NEW dir, NEW h, DOMAIN h \subseteq Nat, \A n \in CompletedTrials(h) : h[n] # None
    PROVE  LET curve == BestSoFar(dir, h)
           IN  \A n \in DOMAIN curve :
                  curve[n] = BestValue(dir, [m \in {k \in DOMAIN h : k <= n} |-> h[m]])
<1> DEFINE done == CompletedTrials(h)
<1>1. done \subseteq Nat /\ None \notin Nat
  BY SpecialValues DEF CompletedTrials
<1>2. PICK g : /\ Climbs(dir, h, g) /\ DOMAIN BestSoFar(dir, h) = done
              /\ \A n \in done : BestSoFar(dir, h)[n] = g[n + 1]
  BY <1>1, CurveClimbs
<1>3. ASSUME NEW n \in done
      PROVE  g[n + 1] = BestValue(dir, [m \in {k \in DOMAIN h : k <= n} |-> h[m]])
  <2> DEFINE r == HistoryUpTo(h, n)
             past == CompletedTrials(r)
  <2>1. \A m : (m \in past <=> m \in done /\ m <= n) /\ (m \in past => r[m] = h[m])
    BY UpToCompleted
  <2>2. n \in Nat /\ n \in past /\ past \subseteq Nat /\ \A m \in past : m <= n
    BY <1>1, <2>1
  <2> HIDE DEF r, past
  <2>3. PICK f : /\ Scans(dir, r, f)
                 /\ BestTrial(dir, r) = IF f[1 + n] = None THEN None ELSE r[f[1 + n]]
    BY <2>2, BestTrialScans DEF past
  <2>4. \/ f[n + 1] = None /\ g[n + 1] = None
        \/ f[n + 1] \in past /\ g[n + 1] = h[f[n + 1]].value
    <3>1. \A k \in 0 .. n + 1 : \/ f[k] = None /\ g[k] = None
                                \/ f[k] \in past /\ g[k] = h[f[k]].value
      BY <1>1, <1>2, <2>2, <2>3, ScanFollowsClimb DEF past, r
    <3>2. n + 1 \in 0 .. n + 1
      BY <2>2
    <3> QED BY <3>1, <3>2
  <2>5. 1 + n = n + 1
    BY <2>2
  <2>6. CASE f[n + 1] = None /\ g[n + 1] = None
    BY <2>3, <2>5, <2>6 DEF BestValue, r, HistoryUpTo
  <2>7. CASE f[n + 1] \in past /\ g[n + 1] = h[f[n + 1]].value
    <3>1. f[n + 1] # None /\ r[f[n + 1]] = h[f[n + 1]] /\ h[f[n + 1]] # None
      BY <1>1, <2>1, <2>2, <2>7
    <3> QED BY <2>3, <2>5, <2>7, <3>1 DEF BestValue, r, HistoryUpTo
  <2> QED BY <2>4, <2>6, <2>7
<1> QED BY <1>2, <1>3

=============================================================================
