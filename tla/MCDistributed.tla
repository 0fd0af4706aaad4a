---------------------------- MODULE MCDistributed ----------------------------
(* Instances of Distributed for TLC. *)
EXTENDS Distributed, TLC

CONSTANTS s1, s2, k1, k2     \* study names and tokens

MCStudies == {s1, s2}
MCTokens  == {k1, k2}

\* One distribution, of a single value.
Unary == {{1}}

\* Everyone in the right study, with nothing to prove.
AllInStudy == [w \in Workers |-> s1]
NoToken    == [w \in Workers |-> None]

CONSTANTS w1, w2, w3

One       == [w \in Workers |-> 1]
TwoAndOne == [w \in Workers |-> IF w = w1 THEN 2 ELSE 1]

\* w1 may work; w2 has the wrong token; w3 has the right one but names another study.
MixedStudy == [w \in Workers |-> IF w = w3 THEN s2 ELSE s1]
MixedToken == [w \in Workers |-> IF w = w2 THEN k2 ELSE k1]

\* A new study, and one with a trial that failed and one whose worker died over it.
New     == {<<>>}
Resumed == {[n \in 0 .. 1 |-> IF n = 0 THEN [NewTrial(0) EXCEPT !.state = "Failed"]
                              ELSE NewTrial(1)]}

\* Distributed!TrialEnds for every number the workers can draw.
TrialsEnd == \A n \in 0 .. 1 : TrialEnds(n)

WorkerSymmetry == Permutations(Workers)
=============================================================================
