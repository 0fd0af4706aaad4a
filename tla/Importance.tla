------------------------------ MODULE Importance ------------------------------
(***************************************************************************)
(* The decision-stump importance of a parameter (hyperopt-viz:             *)
(* importance.rs): how much of the variance of the objective the best      *)
(* single split on it explains.                                            *)
(*                                                                         *)
(* A variance is kept as Scale times the sum of squared errors, which is   *)
(* an integer while Scale is a multiple of the number of samples.          *)
(***************************************************************************)
EXTENDS Distributions

CONSTANT Scale

ASSUME ScaleAssumption == Scale \in Nat \ {0}

\* Scale times the squared errors of n samples with the sum s and sum of squares q.
Errors(n, s, q) == IF n = 0 THEN 0 ELSE (Scale \div n) * (n * q - s * s)

\* ... of the objective over some trials of h.
Spread(h, S) ==
    Errors(Cardinality(S), SumFunction([n \in S |-> h[n].value]),
           SumFunction([n \in S |-> h[n].value * h[n].value]))

Having(h, name) == {n \in CompletedTrials(h) : RecordOf(h[n], name) # None}

IsLabel(v) == v.type = "Categorical"

\* The squared errors that remain when the trials are grouped by label, and when
\* they are cut in two between distinct numbers; none is left out but the labels.
Grouped(h, S, name) ==
    LET label(n) == RecordOf(h[n], name).value.label
    IN  SumFunction([l \in {label(n) : n \in S} |-> Spread(h, {n \in S : label(n) = l})])

Cut(h, S, name, x) ==
    Spread(h, {n \in S : RecordOf(h[n], name).value.num <= x})
        + Spread(h, {n \in S : RecordOf(h[n], name).value.num > x})

\* stump_variance_explained, as a fraction: explained of total.
Stump(h, name) ==
    LET S     == Having(h, name)
        total == Spread(h, S)
        value(n) == RecordOf(h[n], name).value
        nums  == {n \in S : ~IsLabel(value(n))}
        best  == IF nums = {}
                 THEN Grouped(h, S, name)
                 ELSE Min({total} \cup {Cut(h, nums, name, value(n).num) :
                                n \in {m \in nums : \E k \in nums : value(k).num > value(m).num}})
    IN  [explained |-> IF total = 0 THEN 0 ELSE total - best, total |-> total]

=============================================================================
