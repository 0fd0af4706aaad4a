------------------------------ MODULE MCPruned ------------------------------
(* Instances of PrunedStudy for TLC. *)
EXTENDS PrunedStudy

Study(pruner, direction, remote) ==
    [pruner |-> pruner, direction |-> direction, remote |-> remote]

\* Each pruner in a local study and under a coordinator, in one direction each:
\* DirectionSymmetry says that the other shows nothing new.
AllSetups ==
    {Study("median", "Maximize", FALSE), Study("median", "Minimize", TRUE),
     Study("halving", "Maximize", FALSE), Study("halving", "Minimize", TRUE),
     Study("nop", "Minimize", FALSE)}

Bits == [s \in 0 .. LastStep |-> {0, 1}]

\* A report that is not a number, in the middle of a trial.
BitsAndNaN == [s \in 0 .. LastStep |-> IF s = 1 THEN {0, 1, NaN} ELSE {0, 1}]

RemoteHalving == {Study("halving", "Minimize", TRUE)}

\* What the theorem on rungs assumes of the options.
ASSUME RungsFit

=============================================================================
