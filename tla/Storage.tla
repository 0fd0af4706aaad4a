------------------------------- MODULE Storage -------------------------------
(***************************************************************************)
(* The trial history and the metadata of one study in a storage backend    *)
(* (hyperopt-core/storage.rs, hyperopt-storage: memory.rs, sqlite.rs).     *)
(* Both backends guard every call with a mutex (and SQLite with its file   *)
(* lock), so each call is atomic; a sequence of calls is not.              *)
(*                                                                         *)
(* InMemoryStorage keeps clones.  SqliteStorage keeps each trial as JSON,  *)
(* in which a NaN becomes null: read back, a null `value' is None, and a   *)
(* null inside `intermediate_values' makes the row, and with it the whole  *)
(* load, fail to deserialize.                                              *)
(***************************************************************************)
EXTENDS Trials

CONSTANTS Backend,   \* "memory" or "sqlite"
          Corrupt    \* a row serde_json cannot read back

ASSUME StorageAssumption == Backend \in {"memory", "sqlite"}

VARIABLES rows,      \* function from trial numbers to stored trials
          meta       \* the recorded direction, or None

Encode(t) ==
    CASE Backend = "memory" -> t
      [] Backend = "sqlite" /\ \E e \in DOMAIN t.intermediate_values :
                                   t.intermediate_values[e].val = NaN -> Corrupt
      [] OTHER -> [t EXCEPT !.value = IF @ = NaN THEN None ELSE @]

\* Mutant of SaveTrial: a trial is added at the end, whatever its number.
PushTrial(t) ==
    LET end == Cardinality(DOMAIN rows)
    IN  rows' = [n \in DOMAIN rows \cup {end} |-> IF n = end THEN Encode(t) ELSE rows[n]]

\* Insert or update by trial number.
SaveTrial(t) ==
    rows' = [n \in DOMAIN rows \cup {t.number} |->
                IF n = t.number THEN Encode(t) ELSE rows[n]]

\* load_trials succeeds when every row can be read back; it then returns rows.
Loadable == \A n \in DOMAIN rows : rows[n] # Corrupt

\* Mutant of CountTrials: counts completed trials only.
CountCompleted == NCompleted(rows)

CountTrials == Cardinality(DOMAIN rows)

SaveMeta(d) == meta' = d

\* Mutant of Adopted: the recorded direction is not looked at.
AdoptCallers(d) == d

\* The direction an opening study or coordinator adopts: the recorded one if
\* there is one, else the caller's.
Adopted(d) == IF meta = None THEN d ELSE meta

StorageInit == rows = <<>> /\ meta = None

=============================================================================
