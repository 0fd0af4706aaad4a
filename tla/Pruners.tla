------------------------------- MODULE Pruners -------------------------------
(***************************************************************************)
(* The pruners (hyperopt-pruners) as functions of a direction, the history *)
(* h a trial is compared with, and the trial t.  The values collected from *)
(* a history are indexed by trial: their order tells nothing to a median   *)
(* or a rank.                                                              *)
(*                                                                         *)
(* Floats are integers or NaN; infinite reports are not modelled.  The     *)
(* median of an even number of values is a half, so medians are doubled.   *)
(***************************************************************************)
EXTENDS Trials

CONSTANTS NStartupTrials, NWarmupSteps, MinTrialsAtStep,          \* MedianPruner
          MinResource, ReductionFactor, MinEarlyStoppingRate,     \* SuccessiveHalvingPruner
          U64                                                     \* 2^64, or a small stand-in

ASSUME PrunerAssumption ==
    /\ {NStartupTrials, NWarmupSteps, MinTrialsAtStep, MinEarlyStoppingRate} \subseteq Nat
    /\ MinResource \in Nat \ {0} /\ ReductionFactor \in Nat \ {0, 1}
    /\ U64 \in Nat \ {0}

\* Mutant of IsWorse: the direction is forgotten.
IsHigher(dir, a, b) == a # NaN /\ b # NaN /\ a > b

IsWorse(dir, a, b) ==
    /\ a # NaN /\ b # NaN
    /\ IF dir = "Minimize" THEN a > b ELSE a < b

\* Reports at exactly `step' of the trials that have completed or been pruned.
IntermediateValuesAt(h, step) ==
    LET reached == {n \in DOMAIN h : /\ h[n].state \in {"Complete", "Pruned"}
                                     /\ ValueAtStep(h[n], step) # None}
    IN  [n \in reached |-> ValueAtStep(h[n], step)]

\* One value for each trial that has got as far as `step', whatever its state.
ValuesAtOrAfter(h, step) ==
    LET reached == {n \in DOMAIN h : ValueAtOrAfter(h[n], step) # None}
    IN  [n \in reached |-> ValueAtOrAfter(h[n], step)]

\* The value at place k once the values are sorted: fewer than k of them are
\* below it, and k or more are not above it.
Smallest(values, k) ==
    CHOOSE x \in {values[n] : n \in DOMAIN values} :
        /\ Cardinality({n \in DOMAIN values : values[n] < x}) < k
        /\ Cardinality({n \in DOMAIN values : values[n] <= x}) >= k

Finite(values) == [n \in {m \in DOMAIN values : values[m] # NaN} |-> values[n]]

\* Mutant of DoubledMedian: no values have the median zero.
MedianOrZero(values) ==
    LET v == Finite(values)
        n == Cardinality(DOMAIN v)
    IN  IF n = 0 THEN 0
        ELSE IF n % 2 = 1 THEN 2 * Smallest(v, n \div 2 + 1)
        ELSE Smallest(v, n \div 2) + Smallest(v, n \div 2 + 1)

\* Twice the median of the finite values, None when there are none.
DoubledMedian(values) ==
    LET v == Finite(values)
        n == Cardinality(DOMAIN v)
    IN  IF n = 0 THEN None
        ELSE IF n % 2 = 1 THEN 2 * Smallest(v, n \div 2 + 1)
        ELSE Smallest(v, n \div 2) + Smallest(v, n \div 2 + 1)

\* Mutant of MedianShouldPrune: a tie with the median is pruned too.
PruneTies(dir, h, t) ==
    LET last   == LastIntermediate(t)
        others == IntermediateValuesAt(h, last.key)
        m      == DoubledMedian(others)
    IN  /\ NCompleted(h) >= NStartupTrials
        /\ last # None
        /\ last.key >= NWarmupSteps
        /\ Cardinality(DOMAIN others) >= MinTrialsAtStep
        /\ m # None /\ last.val # NaN
        /\ ~IsWorse(dir, m, 2 * last.val)

MedianShouldPrune(dir, h, t) ==
    LET last   == LastIntermediate(t)
        others == IntermediateValuesAt(h, last.key)
        m      == DoubledMedian(others)
    IN  /\ NCompleted(h) >= NStartupTrials
        /\ last # None
        /\ last.key >= NWarmupSteps
        /\ Cardinality(DOMAIN others) >= MinTrialsAtStep
        /\ m # None /\ last.val # NaN
        /\ IsWorse(dir, 2 * last.val, m)

-----------------------------------------------------------------------------
(* Successive halving.  eta.pow and the product with min_resource wrap, as  *)
(* they do in a release build; a build with overflow checks panics there    *)
(* instead, so the objective that asked fails (not modelled).  The climb    *)
(* multiplies with saturation, and never ends where it reaches a fixed      *)
(* point: at zero, or at the largest integer.                               *)

Power[k \in Nat] == IF k = 0 THEN 1 ELSE ReductionFactor * Power[k - 1]

\* Without overflow checks: both products modulo U64.
FirstRung == (MinResource * (Power[MinEarlyStoppingRate] % U64)) % U64

SaturatingMul(a, b) == IF a * b >= U64 THEN U64 - 1 ELSE a * b

Forever == "forever"

\* Mutant of RungResourceFor: a rung is reached one step late.
RungBelow(step) ==
    LET climb[rung \in 0 .. U64 - 1] ==
            LET next == SaturatingMul(rung, ReductionFactor)
            IN  IF next >= step THEN rung ELSE climb[next]
    IN  IF step < FirstRung THEN None ELSE climb[FirstRung]

RungResourceFor(step) ==
    LET climb[rung \in 0 .. U64 - 1] ==
            LET next == SaturatingMul(rung, ReductionFactor)
            IN  IF next > step THEN rung
                ELSE IF next = rung THEN Forever
                ELSE climb[next]
    IN  IF step < FirstRung THEN None ELSE climb[FirstRung]

\* Mutant of HalvingShouldPrune: ranks count from one.
RankFromOne(dir, h, t) ==
    LET last  == LastIntermediate(t)
        rung  == RungResourceFor(last.key)
        peers == ValuesAtOrAfter(h, rung)
        total == Cardinality(DOMAIN peers) + 1
    IN  /\ last # None
        /\ rung # None
        /\ total >= ReductionFactor
        /\ Cardinality({i \in DOMAIN peers : IsBetter(dir, peers[i], last.val)}) + 1
               >= total \div ReductionFactor

HalvingShouldPrune(dir, h, t) ==
    LET last  == LastIntermediate(t)
        rung  == RungResourceFor(last.key)
        peers == ValuesAtOrAfter(h, rung)
        total == Cardinality(DOMAIN peers) + 1
        topK  == IF total \div ReductionFactor > 1 THEN total \div ReductionFactor ELSE 1
    IN  /\ last # None
        /\ rung # None
        /\ total >= ReductionFactor
        /\ Cardinality({i \in DOMAIN peers : IsBetter(dir, peers[i], last.val)}) >= topK

ShouldPrune(pruner, dir, h, t) ==
    CASE pruner = "nop"     -> FALSE
      [] pruner = "median"  -> MedianShouldPrune(dir, h, t)
      [] pruner = "halving" -> HalvingShouldPrune(dir, h, t)

=============================================================================
