----------------------------- MODULE PrunedStudy -----------------------------
(***************************************************************************)
(* A study whose objectives follow the pruner: every trial reports at the  *)
(* steps 0, 1, ... in turn, asks should_prune after a report, stops as     *)
(* Pruned when told to, and completes with its last report otherwise.  Up  *)
(* to Width trials run at once.                                            *)
(*                                                                         *)
(* What a trial is compared with depends on who runs it: a local study     *)
(* gives it the history loaded when it began, which holds ended trials     *)
(* only; the coordinator gives it the other trials as they are now,        *)
(* running ones included (coordinator.rs:247-291).                         *)
(***************************************************************************)
EXTENDS Pruners

CONSTANTS Setups,      \* who prunes what where, each in [pruner, direction, remote]
          Width,       \* trials at once
          NTrials,     \* bound: trials
          LastStep,    \* bound: the last step a trial reports at
          Vals         \* Vals[s]: the values it may report at step s

ASSUME PrunedAssumption ==
    /\ Setups \subseteq [pruner : {"nop", "median", "halving"}, direction : Directions,
                          remote : BOOLEAN]     \* under a coordinator, or a local study
    /\ {Width, NTrials, LastStep} \subseteq Nat
    /\ Vals \in [0 .. LastStep -> SUBSET Floats]
    /\ {None} \cap Entry(0 .. LastStep, Floats) = {}     \* None is not a report

VARIABLES setup,      \* the setup of this study
          trials,     \* the history, running trials included
          snapshot,   \* snapshot[n]: the history trial n began with
          asked       \* asked[n]: the verdicts trial n has been given, in order

vars == <<setup, trials, snapshot, asked>>

Running == {n \in DOMAIN trials : ~Terminal(trials[n])}
Reports(n) == Len(trials[n].intermediate_values)

Without(h, n) == [m \in DOMAIN h \ {n} |-> h[m]]

\* The trials that trial n is compared with.
View(n) == IF setup.remote THEN Without(trials, n) ELSE snapshot[n]

\* Types and ranges of the variables: trials are numbered from zero without gaps and a
\* snapshot holds trials of the study only (study_state.rs:10-20).
TypeOK ==
    /\ setup \in Setups
    /\ DOMAIN trials = 0 .. Cardinality(DOMAIN trials) - 1
    /\ \A n \in DOMAIN trials :
          trials[n] \in TrialType({}, 0 .. LastStep, Floats) /\ trials[n].number = n
    /\ DOMAIN snapshot = DOMAIN trials /\ DOMAIN asked = DOMAIN trials
    /\ \A n \in DOMAIN trials : DOMAIN snapshot[n] \subseteq DOMAIN trials \ {n}
    /\ \A n \in DOMAIN trials : asked[n] \in Seq(BOOLEAN) /\ Len(asked[n]) <= Reports(n)

Init == setup \in Setups /\ trials = <<>> /\ snapshot = <<>> /\ asked = <<>>

Extend(f, n, v) == [m \in DOMAIN f \cup {n} |-> IF m = n THEN v ELSE f[m]]

Ended == {n \in DOMAIN trials : Terminal(trials[n])}

Begin ==
    LET n == Cardinality(DOMAIN trials)
    IN  /\ n < NTrials /\ Cardinality(Running) < Width
        /\ trials' = Extend(trials, n, NewTrial(n))
        /\ snapshot' = Extend(snapshot, n, [m \in Ended |-> trials[m]])
        /\ asked' = Extend(asked, n, <<>>)
        /\ UNCHANGED setup

\* A report, right after the verdict on the one before.
Report(n, v) ==
    /\ n \in Running /\ Reports(n) <= LastStep /\ Len(asked[n]) = Reports(n)
    /\ v \in Vals[Reports(n)]
    /\ trials' = [trials EXCEPT ![n] = AddReport(trials[n], Reports(n), v)]
    /\ UNCHANGED <<setup, snapshot, asked>>

\* should_prune, and the objective does as it says.
Ask(n) ==
    LET verdict == ShouldPrune(setup.pruner, setup.direction, View(n), trials[n])
    IN  /\ n \in Running /\ Len(asked[n]) < Reports(n)
        /\ asked' = [asked EXCEPT ![n] = Append(@, verdict)]
        /\ trials' = IF verdict
                     THEN [trials EXCEPT ![n] = FinishTrial(trials[n], [kind |-> "Pruned"])]
                     ELSE trials
        /\ UNCHANGED <<setup, snapshot>>

Complete(n) ==
    /\ n \in Running /\ Reports(n) = LastStep + 1 /\ Len(asked[n]) = Reports(n)
    /\ trials' = [trials EXCEPT ![n] =
                     FinishTrial(trials[n], [kind |-> "Complete",
                                             value |-> LastIntermediate(trials[n]).val])]
    /\ UNCHANGED <<setup, snapshot, asked>>

Next == Begin \/ \E n \in DOMAIN trials :
                     Ask(n) \/ Complete(n) \/ \E v \in UNION {Vals[s] : s \in 0 .. LastStep} : Report(n, v)

Spec == Init /\ [][Next]_vars

-----------------------------------------------------------------------------
JustPruned(n) == n \in Running /\ trials'[n].state = "Pruned"

\* The step at which the pruner compares trial n with the others.
Compared(n) ==
    IF setup.pruner = "halving" THEN RungResourceFor(Reports(n) - 1) ELSE Reports(n) - 1

Beats(v, w) == v # None /\ IsBetter(setup.direction, v, w)

\* A trial no other trial beats where it is compared is never pruned, so a
\* study's leader goes on (successive_halving.rs:108-111, median.rs:72-75).
LeaderSurvives ==
    [][\A n \in DOMAIN trials : JustPruned(n) =>
          \E m \in DOMAIN trials \ {n} :
              Beats(ValueAtOrAfter(trials[m], Compared(n)),
                    LastIntermediate(trials[n]).val)]_vars

\* A trial the median pruner stops is behind at least half of the ended trials
\* that reported at its step (median.rs:7-13, 64-76).
PrunedByHalf ==
    [][setup.pruner = "median" => \A n \in DOMAIN trials : JustPruned(n) =>
          LET step   == Reports(n) - 1
              peers  == {m \in DOMAIN trials : /\ trials[m].state \in {"Complete", "Pruned"}
                                               /\ m \in DOMAIN View(n)
                                               /\ ValueAtStep(trials[m], step) \notin {None, NaN}}
              better == {m \in peers : Beats(ValueAtStep(trials[m], step),
                                              LastIntermediate(trials[n]).val)}
          IN  better # {} /\ 2 * Cardinality(better) >= Cardinality(peers)]_vars

\* Pruning never eats a whole study: of the trials that were compared with each
\* other some go on to the end (successive_halving.rs:7-9, "only the top
\* 1/reduction_factor fraction of the trials that reached that rung are promoted
\* to continue").
NotAllPruned ==
    Cardinality(DOMAIN trials) = NTrials /\ Running = {} /\ NTrials > 0
        => \E n \in DOMAIN trials : trials[n].state = "Complete"

\* ... with one exception: successive halving over trials that are still running
\* compares each trial's last report with the reports of the others at its rung,
\* so that two trials can each lose against the other.
OnlyLiveHalvingPrunesAll ==
    ~NotAllPruned => setup.pruner = "halving" /\ setup.remote

Opposite(dir) == IF dir = "Minimize" THEN "Maximize" ELSE "Minimize"
Negated(v)    == IF v \in Int THEN -v ELSE v
Mirrored(t)   ==
    [t EXCEPT !.value = Negated(@),
              !.intermediate_values =
                  [i \in DOMAIN @ |-> [key |-> @[i].key, val |-> Negated(@[i].val)]]]

\* Maximizing is minimizing the negated objective: the verdict is the same.
DirectionSymmetry ==
    \A n \in Running :
        Reports(n) > 0 =>
            ShouldPrune(setup.pruner, setup.direction, View(n), trials[n])
                = ShouldPrune(setup.pruner, Opposite(setup.direction),
                              [m \in DOMAIN View(n) |-> Mirrored(View(n)[m])],
                              Mirrored(trials[n]))

\* The first rung is within a u64, and the steps are below what the climb saturates at.
RungsFit == MinResource * Power[MinEarlyStoppingRate] < U64 /\ LastStep < U64 - 1

\* The rung of a step some trial is at is the highest of the ladder
\* min_resource * eta^k that the step has reached (successive_halving.rs:59-60).
Ladder == {MinResource * Power[k] : k \in MinEarlyStoppingRate .. LastStep + 5}

RungIsHighest ==
    \A n \in DOMAIN trials : \A step \in Keys(trials[n].intermediate_values) :
        LET reached == {r \in Ladder : r <= step}
        IN  IF reached = {} THEN RungResourceFor(step) = None
            ELSE /\ RungResourceFor(step) \in reached
                 /\ \A r \in reached : r <= RungResourceFor(step)

=============================================================================
