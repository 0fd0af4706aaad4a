----------------------------- MODULE SampledStudy -----------------------------
(***************************************************************************)
(* Studies run by the real samplers.  A study of `setup' is run by         *)
(* optimize (width 1), by optimize_parallel (study.rs) or, `remote', by    *)
(* workers of a coordinator (coordinator.rs): there every suggest reads    *)
(* the history anew, elsewhere a trial reads it once.                      *)
(*                                                                         *)
(* The objective is define-by-run: a trial runs one of the programs of     *)
(* the study, a sequence of calls of suggest, and then completes with one  *)
(* of the values, or fails at any point.  To samplers a pruned trial is a  *)
(* failed one: neither is completed.                                       *)
(***************************************************************************)
EXTENDS CmaEs, Tpe, Grid

CONSTANT Setups   \* the studies

\* A call of suggest.
Call == [name : STRING, dist : Distribution]

\* Where logarithms of the ends of a range exist, they are powers of two.
Logarithmic(d) ==
    d.kind = "LogUniform" /\ 0 < d.low /\ 0 < d.high =>
        \A x \in {d.low, d.high} : \E k \in 0 .. x : Exp[k] = x

\* CMA-ES decodes a range without them to what is not a number.
Decodable(d) == d.kind = "LogUniform" => 0 < d.low /\ 0 < d.high

ASSUME SampledAssumption ==     \* None is no record
    {None} \cap ParamRecord = {}

ASSUME SetupsAssumption ==
    \A s \in Setups :
        /\ s.sampler \in {"random", "grid", "tpe", "cma"} /\ s.remote \in BOOLEAN
        /\ s.dir \in Directions /\ s.values \subseteq Int
        /\ s.programs \subseteq Seq(Call)
        /\ \A p \in s.programs : \A i \in DOMAIN p :
              Logarithmic(p[i].dist) /\ (s.sampler = "cma" => Decodable(p[i].dist))
        /\ s.axes \in Seq([name : STRING, values : Seq(Value)])
        /\ {s.popsize, s.startup} \subseteq Nat \cup {None}
        /\ s.sampler = "tpe" => s.startup # None
        /\ s.width \in Nat \ {0}     \* trials under way at a time
        /\ s.first \in Nat           \* trials the study holds already, failed ones
        /\ s.limit \in Nat           \* bound: trials begun, those included
        /\ s.losses \in Nat          \* bound: saves that fail

VARIABLES setup,
          trials,   \* every trial begun and not lost, by number
          live,     \* live[n]: what the thread of trial n holds
          cache,    \* CmaEsSampler's: vectors by trial number
          lost,     \* how many saves have failed
          err       \* whether one has in the call under way

vars == <<setup, trials, live, cache, lost, err>>

(* live[n].todo  the calls of suggest still to come                          *)
(*         loaded  whether it holds a history                                *)
(*         seen  the ended trials in the history it holds, which never change *)

Ended == DOMAIN trials \ DOMAIN live

View(seen) == [m \in seen |-> trials[m]]

Init ==
    /\ setup \in Setups
    /\ trials = [n \in 0 .. setup.first - 1 |->
                    FinishTrial(NewTrial(n), [kind |-> "Failed", value |-> None])]
    /\ live = <<>>
    /\ cache = <<>>
    /\ lost = 0
    /\ err = FALSE

With(f, n, v)  == [m \in DOMAIN f \cup {n} |-> IF m = n THEN v ELSE f[m]]
Without(f, n)  == [m \in DOMAIN f \ {n} |-> f[m]]

\* A thread or a worker begins a trial.  optimize numbers it by the history it has just
\* loaded; a thread of optimize_parallel draws a number first and loads later.  A call
\* in which a save has failed begins no more trials: once those under way have ended it
\* returns, and another call goes on from the length of the history.  Where the failure
\* has left a gap that would be the number of a stored trial (LocalStudy): such a history
\* is not gone on with here.
Begin(program) ==
    LET n == Cardinality(DOMAIN trials)
    IN  /\ n < setup.limit /\ Cardinality(DOMAIN live) < setup.width
        /\ err => live = <<>>
        /\ DOMAIN trials = 0 .. n - 1
        /\ err' = FALSE
        /\ trials' = With(trials, n, NewTrial(n))
        /\ live' = With(live, n,
                LET loaded == setup.width = 1 /\ ~setup.remote
                IN  [todo |-> program, loaded |-> loaded, seen |-> IF loaded THEN Ended ELSE {}])
        /\ UNCHANGED <<setup, cache, lost>>

\* A thread loads the history for its trial, the coordinator for a suggest.
LoadHistory(n) ==
    /\ live[n].todo # <<>> /\ ~live[n].loaded
    /\ live' = [live EXCEPT ![n].loaded = TRUE, ![n].seen = Ended]
    /\ UNCHANGED <<setup, trials, cache, lost, err>>

\* What the sampler may answer, and its cache afterwards.
Answers(h, t, name, d) ==
    LET plain(values) == {[value |-> v, cache |-> cache] : v \in values}
    IN  CASE setup.sampler = "random" -> plain(SampleValues(d))
          [] setup.sampler = "grid"   -> plain(GridAnswers(setup.axes, t.number, name, d))
          [] setup.sampler = "tpe"    -> plain(TpeAnswers(setup, h, name, d))
          [] setup.sampler = "cma"    -> CmaAnswers(setup, setup.dir, h, t, name, d, cache)

\* Mutant of Suggest: a local trial, too, loads the history before every call.
SuggestReloading(n) ==
    /\ live[n].todo # <<>> /\ live[n].loaded
    /\ LET ask == Head(live[n].todo)
       IN  \E a \in Answers(View(live[n].seen), trials[n], ask.name, ask.dist) :
              /\ trials' = [trials EXCEPT ![n] = Record(@, ask.name, Sampled(ask.dist, a.value))]
              /\ cache' = a.cache
    /\ live' = [live EXCEPT ![n].todo = Tail(@), ![n].loaded = ~setup.remote,
                            ![n].seen = IF setup.remote THEN {} ELSE Ended]
    /\ UNCHANGED <<setup, lost, err>>

\* The sampler, behind its mutex, answers; the value is recorded with its distribution.
Suggest(n) ==
    /\ live[n].todo # <<>> /\ live[n].loaded
    /\ LET ask == Head(live[n].todo)
       IN  \E a \in Answers(View(live[n].seen), trials[n], ask.name, ask.dist) :
              /\ trials' = [trials EXCEPT ![n] = Record(@, ask.name, Sampled(ask.dist, a.value))]
              /\ cache' = a.cache
    /\ live' = [live EXCEPT ![n].todo = Tail(@), ![n].loaded = ~setup.remote,
                            ![n].seen = IF setup.remote THEN {} ELSE @]
    /\ UNCHANGED <<setup, lost, err>>

\* The trial ends and is saved.
Finish(n, o) ==
    /\ o.kind = "Failed" \/ live[n].todo = <<>>
    /\ trials' = [trials EXCEPT ![n] = FinishTrial(@, o)]
    /\ live' = Without(live, n)
    /\ UNCHANGED <<setup, cache, lost, err>>

\* Its save fails and the call returns the error.  A later one may use the number again;
\* the sampler, and its cache, are the same.  A coordinator, which saves a trial at every
\* step of it, has it in the history already and leaves it running.
Lost(n) ==
    /\ lost < setup.losses /\ ~setup.remote
    /\ trials' = Without(trials, n)
    /\ live' = Without(live, n)
    /\ lost' = lost + 1
    /\ err' = TRUE
    /\ UNCHANGED <<setup, cache>>

Next ==
    \/ \E program \in setup.programs : Begin(program)
    \/ \E n \in DOMAIN live :
          \/ LoadHistory(n) \/ Suggest(n) \/ Lost(n)
          \/ \E o \in {out \in Outcome(setup.values) : out.kind \in setup.outcomes} : Finish(n, o)

Spec == Init /\ [][Next]_vars

-----------------------------------------------------------------------------
History == View(Ended)

Inhabited(d) == IF IsNumeric(d) THEN d.low <= d.high ELSE d.choices # <<>>

\* The calls of suggest that the programs of the study s make.
Calls(s) == UNION {{p[j] : j \in DOMAIN p} : p \in s.programs}

\* What the study asks for can be answered: no range CMA-ES decodes for is empty, and
\* values registered for a name lie in the ranges it is asked for with.
WellAsked(s) ==
    \A c \in Calls(s) :
        /\ s.sampler = "cma" /\ IsNumeric(c.dist) => Inhabited(c.dist)
        /\ s.sampler = "grid" /\ HasGrid(s.axes, c.name) /\ Inhabited(c.dist) =>
              \A v \in ToSet(GridValues(s.axes, c.name)) : InSupportOf(c.dist, v)

\* The grid of the study s is one, small enough for a usize, and every program asks for
\* all of it: no name has two axes, no axis a value twice.
WholeGrid(s) ==
    /\ \A i, j \in DOMAIN s.axes : s.axes[i].name = s.axes[j].name => i = j
    /\ \A i \in DOMAIN s.axes :
          /\ IsInjective(s.axes[i].values)
          /\ s.axes[i].values # <<>> =>
                \A p \in s.programs : \E j \in DOMAIN p : p[j].name = s.axes[i].name
    /\ TailProduct(s.axes, Len(s.axes)) < USize - 1

\* The distributions a name has been given in the study.
DistsOf(name) ==
    {RecordOf(trials[n], name).dist : n \in {m \in DOMAIN trials : RecordOf(trials[m], name) # None}}

\* A value is of the type asked for and lies in the range asked for
\* (traits.rs:11-13, distribution.rs:12-20).  CMA-ES is held to less: it uses a vector
\* decoded for the range a name first had in whatever range it is asked for later
\* (cmaes.rs:160, 254-258), so that of a name that has had several ranges its value
\* need only lie in one of them.
InSupport ==
    \A n \in DOMAIN trials : \A i \in DOMAIN trials[n].params :
        LET p     == trials[n].params[i]
            moved == setup.sampler = "cma" /\ DistsOf(p.key) # {p.val.dist}
        IN  Inhabited(p.val.dist) =>
                /\ VariantMatches(p.val.dist, p.val.value)
                /\ ~moved => InSupportOf(p.val.dist, p.val.value)
                /\ moved => \E d \in DistsOf(p.key) : InSupportOf(d, p.val.value)

\* A trial tries one point: once its vector is drawn, every parameter that is a
\* coordinate of it takes its value from it, though a coordinator shows the sampler a
\* longer history at every call (cmaes.rs:24-27, 221-222).  Local trials never mix.
OnePoint ==
    \A n \in DOMAIN cache \cap DOMAIN trials : \A i \in DOMAIN trials[n].params :
        LET p == trials[n].params[i]
            v == cache[n].vector
        IN  /\ p.key \in DOMAIN v /\ VariantMatches(p.val.dist, v[p.key])
            /\ setup.remote => i > cache[n].had
            => p.val.value = v[p.key]

\* The vector a local trial works with comes from the history it was given: always
\* under optimize, where the trial before may have been lost and its number, which is
\* the cache's key, used again (cmaes.rs:180-182, study.rs:90-97), and under
\* optimize_parallel as long as no save has failed.  Used again after a failed save
\* there, a number finds the vector of the lost trial: drawn from some of the trials
\* this one was given, but not from those that ended in between.
CacheIsFresh ==
    \A n \in DOMAIN cache \cap DOMAIN live :
        ~setup.remote /\ live[n].loaded =>
            IF setup.width = 1 \/ lost = 0
            THEN cache[n].engine = Replayed(setup, setup.dir, View(live[n].seen))
            ELSE \E S \in SUBSET live[n].seen :
                     cache[n].engine = Replayed(setup, setup.dir, View(S))

\* Whatever the engine recombines is as good, in the study's direction, as what it
\* drops of the same generation (cmaes.rs:200-203, 434-436).
SelectedAreBetter ==
    \A n \in DOMAIN cache : \A g \in ToSet(cache[n].engine) :
        \A s \in g.selected, r \in ToSet(g.told) \ g.selected :
            ~IsBetter(setup.dir, trials[r].value, trials[s].value)

\* Trials complete in any order, and what a late one changes is bounded: whichever came
\* last, while it leaves the search space alone the generations wholly below its number
\* are replayed as before (cmaes.rs:23-25, 36-38, "correct under both parallel
\* execution and reload").
ReplayGrows ==
    setup.sampler = "cma" =>
        \A n \in CompletedTrials(History) :
            LET old == Told(setup, View(Ended \ {n}))
                new == Told(setup, History)
            IN  SearchSpace(View(Ended \ {n})) = SearchSpace(History) =>
                    \A g \in DOMAIN old : (\A m \in ToSet(old[g]) : m < n) =>
                        g \in DOMAIN new /\ new[g] = old[g]

Points(axes) ==
    LET names == {x \in {axes[i].name : i \in DOMAIN axes} : HasGrid(axes, x)}
    IN  {p \in [names -> UNION {ToSet(GridValues(axes, x)) : x \in names}] :
            \A x \in names : p[x] \in ToSet(GridValues(axes, x))}

\* grid_size() trials in a row cover the whole grid exactly once, from whatever number
\* the study starts (grid.rs:65-66; hyperopt/tests/phase15_samplers.rs:65).
CoversOnce ==
    LET lap == {n \in CompletedTrials(trials) : n < setup.first + GridSize(setup.axes)}
    IN  setup.sampler = "grid" /\ Cardinality(lap) = GridSize(setup.axes) =>
            \A p \in Points(setup.axes) :
                Cardinality({n \in lap : \A x \in DOMAIN p : RecordOf(trials[n], x).value = p[x]}) = 1

=============================================================================
