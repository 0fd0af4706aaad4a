--------------------------------- MODULE Tpe ---------------------------------
(***************************************************************************)
(* TpeSampler (hyperopt-samplers: tpe_sampler.rs) around the optimizers of *)
(* the tpe crate, which may answer with any coordinate of their range.     *)
(* Coordinates of ranges that are rounded off count halves.                *)
(***************************************************************************)
EXTENDS Distributions

\* May the recorded value be told for d?
Observable(d, v) ==
    /\ VariantMatches(d, v)
    /\ d.kind = "Categorical" => v.label \in ToSet(d.choices)

Observations(h, name, d) ==
    {n \in CompletedTrials(h) :
        /\ RecordOf(h[n], name) # None
        /\ Observable(d, RecordOf(h[n], name).value)}

\* Is there an optimizer for d?  Not for an empty range.
Buildable(d) ==
    CASE d.kind = "Uniform"     -> d.low < d.high
      [] d.kind = "LogUniform"  -> 0 < d.low /\ d.low < d.high
      [] d.kind = "IntUniform"  -> d.low < d.high + 1
      [] d.kind = "Categorical" -> d.choices # <<>>

\* ask and decode.
AskValues(d) ==
    CASE d.kind = "Uniform"     -> {FloatOf(x) : x \in d.low .. d.high - 1}
      [] d.kind = "LogUniform"  -> {FloatOf(Exp[k]) : k \in Ln(d.low) .. Ln(d.high) - 1}
      [] d.kind = "IntUniform"  -> {IntOf(x \div 2) : x \in 2 * d.low .. 2 * d.high + 1}
      [] d.kind = "Categorical" ->
            {LabelOf(d.choices[1 + x \div 2]) : x \in 0 .. 2 * Len(d.choices) - 1}

TpeAnswers(c, h, name, d) ==
    IF Cardinality(Observations(h, name, d)) < c.startup \/ ~Buildable(d)
    THEN SampleValues(d) ELSE AskValues(d)

=============================================================================
