------------------------------ MODULE MCSampled ------------------------------
(* The studies of SampledStudy for TLC. *)
EXTENDS SampledStudy

Ask(name, dist) == [name |-> name, dist |-> dist]

Base == [sampler |-> "random", remote |-> FALSE, dir |-> "Minimize", values |-> {0},
         outcomes |-> {"Complete"}, width |-> 1, first |-> 0, limit |-> 0, losses |-> 0,
         programs |-> {}, axes |-> <<>>, popsize |-> None, startup |-> None,
         handling |-> "Reflect"]

\* Every kind of distribution, twice over where a name's may change, and empty ones.
Unit   == Numeric("Uniform", 0, 2)
Shift  == Numeric("Uniform", 2, 4)
Log    == Numeric("LogUniform", 1, 4)
Log0   == Numeric("LogUniform", 0, 4)
IntTo1 == Numeric("IntUniform", 0, 1)
Minus  == Numeric("IntUniform", -3, 0)
Only   == Numeric("IntUniform", 0, 0)
Empty  == Numeric("Uniform", 2, 0)
AB     == Categorical(<<"a", "b">>)
BC     == Categorical(<<"b", "c">>)
NoCat  == Categorical(<<>>)

AnyDist == {Unit, Shift, Log, Log0, IntTo1, Minus, Empty, AB, BC, NoCat}

Random == [Base EXCEPT !.limit = 1, !.programs = {<<Ask("x", d)>> : d \in AnyDist}]

TpeSetups ==
    {[Base EXCEPT !.sampler = "tpe", !.startup = 1, !.limit = 2, !.remote = r, !.width = 2,
                  !.programs = {<<Ask("x", d)>> : d \in AnyDist}] : r \in BOOLEAN}

\* Up to three axes of up to three values, in a study that holds trials or not.
GridSetups ==
    LET axis(k, size) == Axis(<<"x", "y", "z">>[k], [v \in 1 .. size |-> IntOf(v - 1)])
        dist(size)    == IF size = 0 THEN Only ELSE Numeric("IntUniform", 0, 2)
    IN  {LET axes == [k \in DOMAIN sizes |-> axis(k, sizes[k])]
         IN  [Base EXCEPT
                !.sampler = "grid", !.axes = axes, !.first = f, !.limit = f + GridSize(axes),
                !.programs = {[k \in DOMAIN sizes |-> Ask(axes[k].name, dist(sizes[k]))]}] :
             sizes \in UNION {[1 .. k -> 0 .. 3] : k \in 0 .. 3}, f \in 0 .. 1}

\* One parameter and the default population of four, two of which are selected.
CmaOne ==
    {[Base EXCEPT !.sampler = "cma", !.limit = 5, !.dir = d, !.values = {0, 1}, !.losses = 1,
                  !.handling = h, !.programs = {<<Ask("x", Numeric("IntUniform", 0, 2))>>}] :
        d \in Directions, h \in {"Reflect", "Clamp"}}

\* Two parameters, one of which a trial may leave out for another kind; in a local
\* study the save of one trial may fail while another is under way.
CmaTwo ==
    LET x == Ask("x", Unit)
        y == Ask("y", IntTo1)
    IN  {[Base EXCEPT !.sampler = "cma", !.popsize = 2, !.startup = 1, !.limit = 3, !.width = 2,
                      !.losses = IF r THEN 0 ELSE 1,
                      !.remote = r, !.programs = {<<x, y>>, <<Ask("c", AB), x>>}] : r \in BOOLEAN}

\* Two generations and a late trial, with failed ones in between.
CmaLate ==
    {[Base EXCEPT !.sampler = "cma", !.popsize = 2, !.limit = 5, !.width = 2, !.remote = r,
                  !.outcomes = {"Complete", "Failed"}, !.programs = {<<Ask("x", Only)>>}] :
        r \in BOOLEAN}

\* Names whose type or range changes from trial to trial.
CmaMixed ==
    [Base EXCEPT !.sampler = "cma", !.popsize = 2, !.startup = 1, !.limit = 3, !.width = 2,
                 !.programs = {<<Ask("x", d)>> : d \in {Unit, Shift, Log, Minus}}]

MCSetups ==
    {Random, CmaMixed} \cup TpeSetups \cup GridSetups \cup CmaOne \cup CmaTwo \cup CmaLate

MCRaws == {-2, 1, 3, 4}

\* What the theorems on values and on grids assume of a study holds of these.
ASSUME \A s \in MCSetups : WellAsked(s) /\ (s.sampler = "grid" => WholeGrid(s))

=============================================================================
