------------------------------- MODULE MCSqlite -------------------------------
(* Instances of Sqlite for TLC. *)
EXTENDS Sqlite

CONSTANTS o1, o2, o3, o4

\* Three processes of this version, one of a newer one.
Versions == [o \in Openers |-> IF o = o4 THEN 2 ELSE 1]

=============================================================================
