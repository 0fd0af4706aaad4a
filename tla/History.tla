------------------------------- MODULE History -------------------------------
(***************************************************************************)
(* The incumbent curve of a study (hyperopt-viz: history.rs), the data of  *)
(* the optimization-history plot.                                          *)
(***************************************************************************)
EXTENDS Trials

\* Mutant of BestSoFar: each trial's own value.
ValueSoFar(dir, h) == [n \in CompletedTrials(h) |-> h[n].value]

\* best_so_far: for each completed trial the best value up to it, in number order;
\* best[k] is the best of the trials below k.
BestSoFar(dir, h) ==
    LET done == CompletedTrials(h)
        best[k \in Nat] ==
            IF k = 0 THEN None
            ELSE LET b == best[k - 1]
                     v == h[k - 1].value
                 IN  IF k - 1 \notin done THEN b
                     ELSE IF b = None THEN v
                     ELSE IF IsBetter(dir, v, b) THEN v ELSE b
    IN  [n \in done |-> best[n + 1]]

=============================================================================
