------------------------------- MODULE Sqlite -------------------------------
(***************************************************************************)
(* Opening a study file (hyperopt-storage/src/sqlite.rs): several          *)
(* processes, each built with its own SCHEMA_VERSION, open the same file.  *)
(* Every SQL statement is atomic and from_connection runs them outside any *)
(* transaction, so other openers come in between.  What happens to the     *)
(* trials once a file is open is in Storage.                               *)
(***************************************************************************)
EXTENDS Integers, TLAPS

CONSTANTS Openers,
          SchemaVersion,    \* SchemaVersion[o]: the version opener o is built with
          None              \* no row in hyperopt_meta

ASSUME SqliteAssumption == SchemaVersion \in [Openers -> Int] /\ None \notin Int

VARIABLES version,   \* the one row of hyperopt_meta, or None
          pc         \* pc[o]: how far opener o is

vars == <<version, pc>>

\* The version row and how far each opener is (sqlite.rs:40-88).
TypeOK ==
    /\ version \in Int \cup {None}
    /\ pc \in [Openers -> {"closed", "created", "unversioned", "open", "mismatch", "error"}]

Init == version = None /\ pc = [o \in Openers |-> "closed"]

Goto(o, l) == pc' = [pc EXCEPT ![o] = l]

\* CREATE TABLE IF NOT EXISTS, for the three tables: done by the first opener,
\* nothing to the others.
CreateTables(o) == pc[o] = "closed" /\ Goto(o, "created") /\ UNCHANGED version

\* SELECT schema_version, and compare.
SelectVersion(o) ==
    /\ pc[o] = "created"
    /\ Goto(o, IF version = None THEN "unversioned"
               ELSE IF version = SchemaVersion[o] THEN "open" ELSE "mismatch")
    /\ UNCHANGED version

\* Mutant of InsertVersion: the row is replaced.
InsertOrReplace(o) ==
    pc[o] = "unversioned" /\ version' = SchemaVersion[o] /\ Goto(o, "open")

\* INSERT ... (1, SCHEMA_VERSION): a second row would break the primary key.
InsertVersion(o) ==
    /\ pc[o] = "unversioned"
    /\ IF version = None
       THEN version' = SchemaVersion[o] /\ Goto(o, "open")
       ELSE version' = version /\ Goto(o, "error")

\* The process drops the connection or the error, or dies on its way.
Leave(o) == pc[o] # "closed" /\ Goto(o, "closed") /\ UNCHANGED version

Next == \E o \in Openers :
    CreateTables(o) \/ SelectVersion(o) \/ InsertVersion(o) \/ Leave(o)

Spec == Init /\ [][Next]_vars

-----------------------------------------------------------------------------
\* No process ever has a file open that another version wrote, whatever openings
\* race (sqlite.rs:6-8, "refuses to read a file written by a newer, incompatible
\* version rather than silently misreading it").
NeverMisreads == \A o \in Openers : pc[o] = "open" => version = SchemaVersion[o]

-----------------------------------------------------------------------------
(* Proofs, for any number of openers of any versions. *)

\* Every step of an opener keeps the version row and the places in their types.
LEMMA TypingStep == TypeOK /\ [Next]_vars => TypeOK'
<1> SUFFICES ASSUME TypeOK, [Next]_vars PROVE TypeOK'
  OBVIOUS
<1> USE DEF TypeOK, Goto
<1>1. ASSUME NEW o \in Openers, CreateTables(o) PROVE TypeOK'
  BY <1>1 DEF CreateTables
<1>2. ASSUME NEW o \in Openers, SelectVersion(o) PROVE TypeOK'
  BY <1>2 DEF SelectVersion
<1>3. ASSUME NEW o \in Openers, InsertVersion(o) PROVE TypeOK'
  BY <1>3, SqliteAssumption DEF InsertVersion
<1>4. ASSUME NEW o \in Openers, Leave(o) PROVE TypeOK'
  BY <1>4 DEF Leave
<1>5. CASE UNCHANGED vars
  BY <1>5 DEF vars
<1> QED BY <1>1, <1>2, <1>3, <1>4, <1>5 DEF Next

\* While the version is missing nobody has the file open, so the first INSERT
\* cannot pull the version from under an opener.
LEMMA NeverMisreadsStep == TypeOK /\ NeverMisreads /\ [Next]_vars => NeverMisreads'
<1> SUFFICES ASSUME TypeOK, NeverMisreads, [Next]_vars,
                    NEW p \in Openers, pc'[p] = "open"
             PROVE  version' = SchemaVersion[p]
  BY DEF NeverMisreads
<1> USE DEF TypeOK, Goto, NeverMisreads
<1>1. ASSUME NEW o \in Openers, CreateTables(o) PROVE version' = SchemaVersion[p]
  BY <1>1 DEF CreateTables
<1>2. ASSUME NEW o \in Openers, SelectVersion(o) PROVE version' = SchemaVersion[p]
  BY <1>2 DEF SelectVersion
<1>3. ASSUME NEW o \in Openers, InsertVersion(o) PROVE version' = SchemaVersion[p]
  <2>1. CASE version = None
    <3>1. \A q \in Openers : pc[q] # "open"
      BY <2>1, SqliteAssumption
    <3> QED BY <1>3, <2>1, <3>1 DEF InsertVersion
  <2>2. CASE version # None
    BY <1>3, <2>2 DEF InsertVersion
  <2> QED BY <2>1, <2>2
<1>4. ASSUME NEW o \in Openers, Leave(o) PROVE version' = SchemaVersion[p]
  BY <1>4 DEF Leave
<1>5. CASE UNCHANGED vars
  BY <1>5 DEF vars
<1> QED BY <1>1, <1>2, <1>3, <1>4, <1>5 DEF Next

\* However the openings of a file race, no process of another version than the
\* file's ever works on it (sqlite.rs:6-8).
THEOREM NoMisreading == Spec => []NeverMisreads
<1>1. Init => TypeOK /\ NeverMisreads
  BY DEF Init, TypeOK, NeverMisreads
<1>2. TypeOK /\ NeverMisreads /\ [Next]_vars => (TypeOK /\ NeverMisreads)'
  BY TypingStep, NeverMisreadsStep
<1> QED BY <1>1, <1>2, PTL DEF Spec

=============================================================================
