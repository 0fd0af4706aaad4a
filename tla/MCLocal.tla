------------------------------- MODULE MCLocal -------------------------------
(* Instances of LocalStudy for TLC. *)
EXTENDS LocalStudy

CONSTANTS p1, p2, t1, t2

OneProc  == [t \in Threads |-> p1]
TwoProcs == [t \in Threads |-> IF t = t1 THEN p1 ELSE p2]

\* One distribution, of a single value.
Unary == {{1}}

=============================================================================
