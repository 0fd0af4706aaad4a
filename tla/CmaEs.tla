-------------------------------- MODULE CmaEs --------------------------------
(***************************************************************************)
(* CmaEsSampler (hyperopt-samplers: cmaes.rs): which parameters it         *)
(* searches, what it replays to its engine, how a vector is drawn, cached, *)
(* repaired and decoded.                                                   *)
(*                                                                         *)
(* The engine's arithmetic is left out: after any replay, the normal       *)
(* distribution it keeps may yield any vector.  What it is told, and in    *)
(* which rank, is kept.  A coordinate counts halves of the unit box: 0 and *)
(* 2 are its ends.  c is the sampler's configuration: popsize, startup     *)
(* (None when not set), handling.                                          *)
(***************************************************************************)
EXTENDS Distributions

CONSTANT Raws   \* the coordinates a draw may have, some outside 0 .. 2

ASSUME RawsAssumption == Raws \subseteq Int

\* Trials in number order.
InOrder(S) ==
    [i \in 1 .. Cardinality(S) |-> CHOOSE n \in S : Cardinality({m \in S : m < n}) = i - 1]

NumericNames(t) ==
    {t.params[i].key : i \in {k \in DOMAIN t.params : IsNumeric(t.params[k].val.dist)}}

\* The numeric parameters of every completed trial, each with the distribution
\* that was recorded for it first.
SearchSpace(h) ==
    LET done   == CompletedTrials(h)
        common == {x \in UNION {NumericNames(h[n]) : n \in done} :
                      \A n \in done : x \in NumericNames(h[n])}
    IN  [x \in common |-> RecordOf(h[Min(done)], x).dist]

Encodable(d, v) ==
    /\ VariantMatches(d, v)
    /\ d.kind = "LogUniform" => d.low > 0 /\ v.num > 0

\* The completed trials that are points of the space.
Samples(h) ==
    LET space == SearchSpace(h)
    IN  InOrder({n \in CompletedTrials(h) :
                    \A x \in DOMAIN space : Encodable(space[x], RecordOf(h[n], x).value)})

\* 4 + floor(3 ln n): floor(e^k) < n^3 just when k <= 3 ln n.  Up to 28 parameters.
DefaultPopsize(n) ==
    4 + Cardinality({k \in 1 .. 10 :
            <<2, 7, 20, 54, 148, 403, 1096, 2980, 8103, 22026>>[k] < n * n * n})

Popsize(c, n) == IF c.popsize = None THEN DefaultPopsize(n) ELSE Max({c.popsize, 2})

NStartup(c, n) == IF c.startup = None THEN Popsize(c, n) ELSE c.startup

\* Mutant of Generations: a last, incomplete one is told too.
WithRemainder(samples, size) ==
    [g \in 1 .. (Len(samples) + size - 1) \div size |->
        SubSeq(samples, (g - 1) * size + 1, Min({g * size, Len(samples)}))]

Generations(samples, size) ==
    [g \in 1 .. Len(samples) \div size |-> SubSeq(samples, (g - 1) * size + 1, g * size)]

\* What is replayed: the generations told, in their order.
Told(c, h) ==
    LET n == Cardinality(DOMAIN SearchSpace(h))
    IN  IF n = 0 THEN <<>> ELSE Generations(Samples(h), Popsize(c, n))

\* The best mu of a generation recombine; of equals the earlier ones (a stable sort).
\* mu follows from n alone, whatever the population size is set to.
Selected(dir, h, gen, n) ==
    LET loss(i)      == Loss(dir, h[gen[i]].value)
        before(i, j) == loss(i) < loss(j) \/ (loss(i) = loss(j) /\ i < j)
    IN  {gen[i] : i \in {k \in DOMAIN gen :
            Cardinality({j \in DOMAIN gen : before(j, k)}) < DefaultPopsize(n) \div 2}}

\* The engine a vector is drawn from: each generation told, and what it selected.
Replayed(c, dir, h) ==
    LET n    == Cardinality(DOMAIN SearchSpace(h))
        told == Told(c, h)
    IN  [g \in DOMAIN told |-> [told |-> told[g], selected |-> Selected(dir, h, told[g], n)]]

\* Mutant of Repair: what lies above the box is not folded back.
RepairBelow(handling, z) ==
    IF handling = "Clamp" THEN Max({0, Min({z, 2})}) ELSE z % 4

Repair(handling, z) ==
    IF handling = "Clamp" THEN Max({0, Min({z, 2})})
    ELSE LET t == z % 4 IN IF t > 2 THEN 4 - t ELSE t

\* round() takes halves away from zero.
RoundHalf(x) == IF x >= 0 THEN (x + 1) \div 2 ELSE -((1 - x) \div 2)

Decode(d, z) ==
    CASE d.kind = "Uniform"    -> FloatOf(d.low + (z * (d.high - d.low)) \div 2)
      [] d.kind = "LogUniform" -> FloatOf(Exp[Ln(d.low) + (z * (Ln(d.high) - Ln(d.low))) \div 2])
      [] d.kind = "IntUniform" -> IntOf(RoundHalf(2 * d.low + z * (d.high - d.low)))

Vectors(c, h) ==
    LET space == SearchSpace(h)
    IN  {[x \in DOMAIN space |-> Decode(space[x], Repair(c.handling, raw[x]))] :
            raw \in [DOMAIN space -> Raws]}

Warm(c, h) ==
    LET n == Cardinality(DOMAIN SearchSpace(h))
    IN  n > 0 /\ Len(Samples(h)) >= NStartup(c, n)

-----------------------------------------------------------------------------
(* The cache: vectors by trial number.  Beside the vector an entry notes,   *)
(* for the properties only, the engine it was drawn from and how many       *)
(* parameters its trial had by then.                                        *)

Entries(c, dir, h, t) ==
    LET engine == Replayed(c, dir, h)
    IN  {[vector |-> v, engine |-> engine, had |-> Len(t.params)] : v \in Vectors(c, h)}

Cached(cache, n, e) == [m \in DOMAIN cache \cup {n} |-> IF m = n THEN e ELSE cache[m]]

\* Mutant of CachesAfter: the cache is written but never read.
CachesRedrawn(c, dir, h, t, cache) ==
    IF Warm(c, h) THEN {Cached(cache, t.number, e) : e \in Entries(c, dir, h, t)} ELSE {cache}

\* candidate_for: the caches it may leave behind.
CachesAfter(c, dir, h, t, cache) ==
    IF t.number \notin DOMAIN cache /\ Warm(c, h)
    THEN {Cached(cache, t.number, e) : e \in Entries(c, dir, h, t)}
    ELSE {cache}

FromVector(cache, n, name, d) ==
    IF /\ n \in DOMAIN cache /\ name \in DOMAIN cache[n].vector
       /\ VariantMatches(d, cache[n].vector[name])
    THEN {cache[n].vector[name]} ELSE SampleValues(d)

\* What suggest may answer, each with the cache it then leaves.
CmaAnswers(c, dir, h, t, name, d, cache) ==
    IF ~IsNumeric(d)
    THEN {[value |-> v, cache |-> cache] : v \in SampleValues(d)}
    ELSE UNION {{[value |-> v, cache |-> k] : v \in FromVector(k, t.number, name, d)} :
                    k \in CachesAfter(c, dir, h, t, cache)}

=============================================================================
