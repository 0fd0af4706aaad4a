------------------------------- MODULE Trials -------------------------------
(***************************************************************************)
(* The data every other module works on: a trial, the history of a study   *)
(* and the questions samplers, pruners and users ask of it                 *)
(* (hyperopt-core: trial.rs, study_state.rs, lib.rs).                      *)
(*                                                                         *)
(* Abstractions.  A float is an integer or NaN, the one value that         *)
(* compares false with everything.  A distribution is its support, the     *)
(* finite set of values it contains.  `params' and `intermediate_values'   *)
(* are both lists of (key, value) pairs in the order of first insertion.   *)
(* A history is a function from trial numbers to trials, which is what     *)
(* both storage backends keep; "in number order" is then the order of Nat. *)
(***************************************************************************)
EXTENDS Integers, Sequences, FiniteSets

CONSTANTS NaN,    \* the float that compares false with every float
          None    \* Rust's Option::None

ASSUME SpecialValues == NaN \notin Int /\ None \notin Int /\ None # NaN

Directions == {"Minimize", "Maximize"}
Floats     == Int \cup {NaN}

TrialStates == {"Running", "Complete", "Pruned", "Failed"}

(* Lists of (key, value) pairs with at most one entry per key. *)
Entry(K, V) == [key : K, val : V]

Slots(s, k) == {i \in DOMAIN s : s[i].key = k}

FirstSlot(s, k) == CHOOSE i \in Slots(s, k) : \A j \in Slots(s, k) : i <= j

\* Overwrite the slot of k if there is one, else push: Trial::record, and report.
Upsert(s, k, v) ==
    IF Slots(s, k) = {}
    THEN Append(s, [key |-> k, val |-> v])
    ELSE [s EXCEPT ![FirstSlot(s, k)] = [key |-> k, val |-> v]]

Lookup(s, k) == IF Slots(s, k) = {} THEN None ELSE s[FirstSlot(s, k)].val

Keys(s) == {s[i].key : i \in DOMAIN s}

DistinctKeys(s) == \A i, j \in DOMAIN s : s[i].key = s[j].key => i = j

-----------------------------------------------------------------------------
(* Trial *)

\* Mutant of NewTrial: numbers from one.
NumberedFromOne(n) == [number |-> n + 1, params |-> <<>>, intermediate_values |-> <<>>,
                       value |-> None, state |-> "Running"]

NewTrial(n) == [number |-> n, params |-> <<>>, intermediate_values |-> <<>>,
                value |-> None, state |-> "Running"]

\* The trials over given names, steps and floats.
TrialType(Names, Steps, Values) ==
    [number : Nat,
     params : Seq(Entry(Names, Int)),
     intermediate_values : Seq(Entry(Steps, Values)),
     value : Values \cup {None},
     state : TrialStates]

Record(t, name, v) == [t EXCEPT !.params = Upsert(@, name, v)]

AddReport(t, step, v) == [t EXCEPT !.intermediate_values = Upsert(@, step, v)]

\* An objective's result: a value, Pruned, or Failed (an Err or a caught panic).
Outcome(Vals) == [kind : {"Complete"}, value : Vals]
                     \cup [kind : {"Pruned", "Failed"}, value : {None}]

FinishTrial(t, o) ==
    IF o.kind = "Complete"
    THEN [t EXCEPT !.value = o.value, !.state = "Complete"]
    ELSE [t EXCEPT !.state = o.kind]

Terminal(t) == t.state # "Running"

ValueAtStep(t, step) == Lookup(t.intermediate_values, step)

ValueAtOrAfter(t, step) ==
    LET reached == {s \in Keys(t.intermediate_values) : s >= step}
    IN  IF reached = {}
        THEN None
        ELSE ValueAtStep(t, CHOOSE s \in reached : \A r \in reached : s <= r)

\* The last element pushed, or None.
LastIntermediate(t) ==
    LET iv == t.intermediate_values
    IN  IF iv = <<>> THEN None ELSE iv[Len(iv)]

-----------------------------------------------------------------------------
(* StudyState: what a sampler or a pruner sees, a direction and a history.  *)

IsBetter(dir, a, b) ==
    /\ a # NaN /\ b # NaN
    /\ IF dir = "Minimize" THEN a < b ELSE a > b

CompletedTrials(h) == {n \in DOMAIN h : h[n].state = "Complete" /\ h[n].value # None}

NCompleted(h) == Cardinality(CompletedTrials(h))

\* Mutant of BestTrial: the scan stops at the first completed trial.
FirstCompleted(dir, h) ==
    LET done == CompletedTrials(h)
    IN  IF done = {} THEN None ELSE h[CHOOSE n \in done : \A m \in done : n <= m]

\* best_trial scans in number order and replaces the trial it holds by a
\* strictly better one only; scan[k] is what it holds after the numbers below k.
BestTrial(dir, h) ==
    LET done    == CompletedTrials(h)
        scan[k \in Nat] ==
            IF k = 0 THEN None
            ELSE LET held == scan[k - 1]
                 IN  IF /\ k - 1 \in done
                        /\ held = None \/ IsBetter(dir, h[k - 1].value, h[held].value)
                     THEN k - 1 ELSE held
        best    == IF done = {} THEN None
                   ELSE scan[1 + CHOOSE n \in done : \A m \in done : m <= n]
    IN  IF best = None THEN None ELSE h[best]

BestValue(dir, h) ==
    LET b == BestTrial(dir, h) IN IF b = None THEN None ELSE b.value

=============================================================================
