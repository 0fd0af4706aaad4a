---------------------------- MODULE Distributions ----------------------------
(***************************************************************************)
(* Search spaces and the values taken from them (hyperopt-core:            *)
(* distribution.rs, value.rs) for the modules in which it matters which    *)
(* value a sampler answers with, and the random draw every sampler falls   *)
(* back on (hyperopt-samplers: random.rs).                                 *)
(*                                                                         *)
(* A float is an integer here, so a draw from [low, high) is one of the    *)
(* integers in it; where a logarithm is taken it is a power of two, and    *)
(* its logarithm the exponent.                                             *)
(***************************************************************************)
EXTENDS Trials, SequencesExt

NumericKinds == {"Uniform", "LogUniform", "IntUniform"}

Numeric(kind, low, high) == [kind |-> kind, low |-> low, high |-> high]
Categorical(choices)     == [kind |-> "Categorical", choices |-> choices]

FloatOf(x) == [type |-> "Float", num |-> x]
IntOf(x)   == [type |-> "Int", num |-> x]
LabelOf(c) == [type |-> "Categorical", label |-> c]

IsNumeric(d) == d.kind \in NumericKinds

Distribution ==
    [kind : NumericKinds, low : Int, high : Int] \cup [kind : {"Categorical"}, choices : Seq(STRING)]

NoLabel == ""    \* drawn where there is nothing to choose from

Value ==
    [type : {"Float", "Int"}, num : Int]
        \cup [type : {"Categorical"}, label : STRING \cup {NoLabel}]

TypeOf(d) == CASE d.kind \in {"Uniform", "LogUniform"} -> "Float"
               [] d.kind = "IntUniform"                -> "Int"
               [] d.kind = "Categorical"               -> "Categorical"

VariantMatches(d, v) == v.type = TypeOf(d)

\* Distribution::contains.
InSupportOf(d, v) ==
    /\ VariantMatches(d, v)
    /\ IF IsNumeric(d) THEN d.low <= v.num /\ v.num <= d.high
                       ELSE v.label \in ToSet(d.choices)

Exp[k \in Nat] == IF k = 0 THEN 1 ELSE 2 * Exp[k - 1]
Ln(x) == CHOOSE k \in 0 .. x : Exp[k] = x

\* What sample_value may draw.  A range that is empty, or not positive where a
\* logarithm is taken, is its lower end.
SampleValues(d) ==
    CASE d.kind = "Uniform" ->
            {FloatOf(x) : x \in IF d.low < d.high THEN d.low .. d.high - 1 ELSE {d.low}}
      [] d.kind = "LogUniform" ->
            {FloatOf(x) : x \in IF 0 < d.low /\ d.low < d.high
                                THEN {Exp[k] : k \in Ln(d.low) .. Ln(d.high) - 1} ELSE {d.low}}
      [] d.kind = "IntUniform" ->
            {IntOf(x) : x \in IF d.low <= d.high THEN d.low .. d.high ELSE {d.low}}
      [] d.kind = "Categorical" ->
            IF d.choices = <<>> THEN {LabelOf(NoLabel)} ELSE {LabelOf(c) : c \in ToSet(d.choices)}

-----------------------------------------------------------------------------
\* The record of a parameter: ParamRecord, keyed by its name.
ParamRecord == [dist : Distribution, value : Value]

Sampled(d, v) == [dist |-> d, value |-> v]

RecordOf(t, name) == Lookup(t.params, name)

\* Mutant of Loss: the direction is forgotten.
LossUnsigned(dir, v) == v

\* What adaptive samplers minimize.
Loss(dir, v) == IF dir = "Minimize" THEN v ELSE -v

=============================================================================
