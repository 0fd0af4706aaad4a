----------------------------- MODULE LocalStudy -----------------------------
(***************************************************************************)
(* Studies run on the spot (hyperopt-core: study.rs, context.rs): the      *)
(* processes of Procs each open the same study in the same storage, one    *)
(* after the other or side by side, and run optimize (one thread) or       *)
(* optimize_parallel (a pool) on it.  A process may die and start anew.    *)
(*                                                                         *)
(* A trial lives in its thread until it has ended: only then is it saved.  *)
(* The objective, the sampler and the pruner are arbitrary, as in Worker;  *)
(* should_prune changes nothing, and a caught panic is a Failed outcome.   *)
(***************************************************************************)
EXTENDS Storage, History

CONSTANTS Procs,        \* processes that open the study
          Threads,      \* their threads
          Proc,         \* Proc[t]: the process of thread t
          Parallel,     \* the processes that call optimize_parallel
          NTrials,      \* n_trials of each call
          Names, Dists, Steps, Vals,
          Faults,       \* what may go wrong, some of {"storage", "threads", "crash"}
          MaxCalls,     \* bound: calls an objective makes in one trial
          MaxRuns,      \* bound: how often a process calls optimize
          MaxOpens      \* bound: how often a process opens the study

ASSUME LocalAssumption ==
    /\ IsFiniteSet(Threads) /\ Proc \in [Threads -> Procs]
    /\ \A p \in Procs \ Parallel : Cardinality({t \in Threads : Proc[t] = p}) <= 1
    /\ NTrials \in Nat /\ MaxCalls \in Nat /\ MaxRuns \in Nat /\ MaxOpens \in Nat
    /\ Steps \subseteq Nat /\ Vals \subseteq Floats
    /\ Dists \subseteq (SUBSET Int) \ {{}}
    /\ Backend = "memory" => Cardinality(Procs) = 1
    /\ Faults \subseteq {"storage", "threads", "crash"}
    /\ Corrupt # None /\ {Corrupt, None} \cap TrialType(Names, Steps, Floats) = {}

VARIABLES study,    \* study[p]: the Study of process p, and the call it is in
          task,     \* task[t]: the trial thread t works on
          saved     \* aux: how many trials save_trial has accepted

localVars == <<rows, meta, study, task, saved>>

(* study[p].pc  "closed", "adopting" (no metadata found, not yet saved),     *)
(*              "open" (no call under way), "running" (inside optimize)      *)
(* counter      optimize_parallel's counter;  todo: trials not yet begun     *)
(* err          a storage call of this run has failed: no new trial begins   *)
Study == [pc : {"closed", "adopting", "open", "running"}, direction : Directions \cup {None},
          counter : Nat, todo : Nat, err : BOOLEAN, runs : Nat, opens : Nat]

(* task[t].pc   "idle", "drawn" (number taken, history not yet loaded),      *)
(*              "objective".  snapshot: the StudyState the trial is given    *)
Idle == [pc |-> "idle", number |-> None, trial |-> None, snapshot |-> None, calls |-> 0]

LocalTrial == TrialType(Names, Steps, Floats)

\* Types and ranges of the variables: a stored trial sits under its number or cannot
\* be read back, and a trial under way keeps the number it was given (study.rs:84-147).
LocalTypeOK ==
    /\ DOMAIN rows \subseteq Nat
    /\ \A n \in DOMAIN rows :
          rows[n] = Corrupt \/ (rows[n] \in LocalTrial /\ rows[n].number = n)
    /\ meta \in Directions \cup {None}
    /\ study \in [Procs -> Study]
    /\ \A t \in Threads :
          /\ task[t].pc \in {"idle", "drawn", "objective"}
          /\ task[t].number \in Nat \cup {None}
          /\ task[t].trial \in LocalTrial \cup {None}
          /\ task[t].pc = "objective" =>
                DOMAIN task[t].snapshot \subseteq Nat /\ task[t].trial.number = task[t].number
          /\ task[t].calls \in 0 .. MaxCalls
    /\ saved \in Nat

LocalInit ==
    /\ StorageInit
    /\ study = [p \in Procs |-> [pc |-> "closed", direction |-> None, counter |-> 0,
                                 todo |-> 0, err |-> FALSE, runs |-> 0, opens |-> 0]]
    /\ task = [t \in Threads |-> Idle]
    /\ saved = 0

SetStudy(p, s) == study' = [study EXCEPT ![p] = s]
SetTask(t, s)  == task' = [task EXCEPT ![t] = s]

ThreadsOf(p) == {t \in Threads : Proc[t] = p}

-----------------------------------------------------------------------------
(* Study::new: read the metadata and, if there is none, write it.           *)

OpenLoad(p, d) ==
    /\ study[p].pc = "closed" /\ study[p].opens < MaxOpens
    /\ SetStudy(p, [study[p] EXCEPT !.pc = IF meta = None THEN "adopting" ELSE "open",
                                    !.direction = Adopted(d), !.opens = @ + 1])
    /\ UNCHANGED <<rows, meta, task, saved>>

OpenSave(p) ==
    /\ study[p].pc = "adopting"
    /\ SaveMeta(study[p].direction)
    /\ SetStudy(p, [study[p] EXCEPT !.pc = "open"])
    /\ UNCHANGED <<rows, task, saved>>

OpenFails(p) ==
    /\ "storage" \in Faults
    /\ \/ study[p].pc = "adopting"
       \/ study[p].pc = "closed" /\ study[p].opens < MaxOpens
    /\ SetStudy(p, [study[p] EXCEPT !.pc = "closed", !.direction = None, !.opens = @ + 1])
    /\ UNCHANGED <<rows, meta, task, saved>>

-----------------------------------------------------------------------------
(* optimize and optimize_parallel.                                          *)

\* The call begins; optimize_parallel numbers from the length of the history.
Begin(p) ==
    /\ study[p].pc = "open" /\ study[p].runs < MaxRuns
    /\ p \in Parallel => Loadable
    /\ SetStudy(p, [study[p] EXCEPT !.pc = "running", !.todo = NTrials, !.err = FALSE,
                                    !.runs = @ + 1,
                                    !.counter = IF p \in Parallel THEN CountTrials ELSE @])
    /\ UNCHANGED <<rows, meta, task, saved>>

\* ... unless that first load fails, or the pool cannot start its threads: the
\* call returns the error.
BeginFails(p) ==
    /\ study[p].pc = "open" /\ study[p].runs < MaxRuns /\ p \in Parallel
    /\ Faults \cap {"storage", "threads"} # {} \/ ~Loadable
    /\ SetStudy(p, [study[p] EXCEPT !.runs = @ + 1, !.err = TRUE])
    /\ UNCHANGED <<rows, meta, task, saved>>

\* A free thread takes the next trial of the call.
Takes(t) ==
    LET s == study[Proc[t]]
    IN  s.pc = "running" /\ task[t].pc = "idle" /\ s.todo > 0 /\ ~s.err

\* Mutant of Working: the history is not passed on.
WorkingBlind(n) == [Idle EXCEPT !.pc = "objective", !.number = n,
                                !.trial = NewTrial(n), !.snapshot = <<>>]

Working(n) == [Idle EXCEPT !.pc = "objective", !.number = n,
                           !.trial = NewTrial(n), !.snapshot = rows]

\* optimize: one load gives both the number and the snapshot.
Load(t) ==
    /\ Takes(t) /\ Proc[t] \notin Parallel
    /\ Loadable
    /\ SetStudy(Proc[t], [study[Proc[t]] EXCEPT !.todo = @ - 1])
    /\ SetTask(t, Working(CountTrials))
    /\ UNCHANGED <<rows, meta, saved>>

\* Mutant of Draw: a load of the counter instead of a fetch_add.
DrawAgain(t) ==
    /\ Takes(t) /\ Proc[t] \in Parallel
    /\ SetStudy(Proc[t], [study[Proc[t]] EXCEPT !.todo = @ - 1])
    /\ SetTask(t, [Idle EXCEPT !.pc = "drawn", !.number = study[Proc[t]].counter])
    /\ UNCHANGED <<rows, meta, saved>>

\* optimize_parallel: fetch_add first, then the load.
Draw(t) ==
    /\ Takes(t) /\ Proc[t] \in Parallel
    /\ SetStudy(Proc[t], [study[Proc[t]] EXCEPT !.todo = @ - 1, !.counter = @ + 1])
    /\ SetTask(t, [Idle EXCEPT !.pc = "drawn", !.number = study[Proc[t]].counter])
    /\ UNCHANGED <<rows, meta, saved>>

LoadSnapshot(t) ==
    /\ task[t].pc = "drawn"
    /\ Loadable
    /\ SetTask(t, Working(task[t].number))
    /\ UNCHANGED <<rows, meta, study, saved>>

Loads(t) == task[t].pc = "drawn" \/ (Takes(t) /\ Proc[t] \notin Parallel)

\* The load or the save of a trial fails: the trial is lost, the run ends with
\* an error once the other threads are through with theirs.
TrialLost(t) ==
    /\ \/ Loads(t) /\ ("storage" \in Faults \/ ~Loadable)
       \/ task[t].pc = "objective" /\ "storage" \in Faults
    /\ SetTask(t, Idle)
    /\ SetStudy(Proc[t], [study[Proc[t]] EXCEPT !.err = TRUE])
    /\ UNCHANGED <<rows, meta, saved>>

\* The objective has returned, or panicked: fold the outcome in and save.
Save(t, o) ==
    /\ task[t].pc = "objective"
    /\ SaveTrial(FinishTrial(task[t].trial, o))
    /\ saved' = saved + 1
    /\ SetTask(t, Idle)
    /\ UNCHANGED <<meta, study>>

\* Mutant of Return: the call does not wait for the trials under way.
ReturnEarly(p) ==
    /\ study[p].pc = "running" /\ study[p].todo = 0
    /\ SetStudy(p, [study[p] EXCEPT !.pc = "open"])
    /\ UNCHANGED <<rows, meta, task, saved>>

\* Mutant of Return: a failed run is never over.
ReturnWhenDone(p) ==
    /\ study[p].pc = "running" /\ study[p].todo = 0
    /\ \A t \in ThreadsOf(p) : task[t].pc = "idle"
    /\ SetStudy(p, [study[p] EXCEPT !.pc = "open"])
    /\ UNCHANGED <<rows, meta, task, saved>>

\* The call returns: Ok when every trial has been run, else the first error.
Return(p) ==
    /\ study[p].pc = "running"
    /\ study[p].todo = 0 \/ study[p].err
    /\ \A t \in ThreadsOf(p) : task[t].pc = "idle"
    /\ SetStudy(p, [study[p] EXCEPT !.pc = "open", !.todo = 0])
    /\ UNCHANGED <<rows, meta, task, saved>>

-----------------------------------------------------------------------------
(* TrialContext, between the load and the save.                             *)

ContextCall(t, trial) ==
    /\ task[t].pc = "objective" /\ task[t].calls < MaxCalls
    /\ SetTask(t, [task[t] EXCEPT !.trial = trial, !.calls = @ + 1])
    /\ UNCHANGED <<rows, meta, study, saved>>

Suggest(t, name, dist, v) ==
    v \in dist /\ ContextCall(t, Record(task[t].trial, name, v))

Report(t, step, v) == ContextCall(t, AddReport(task[t].trial, step, v))

-----------------------------------------------------------------------------
\* The process ends, or dies in the middle of anything.
Exit(p) ==
    /\ study[p].pc # "closed"
    /\ "crash" \in Faults \/ study[p].pc = "open"
    /\ SetStudy(p, [study[p] EXCEPT !.pc = "closed", !.direction = None, !.counter = 0,
                                    !.todo = 0, !.err = FALSE])
    /\ task' = [t \in Threads |-> IF Proc[t] = p THEN Idle ELSE task[t]]
    /\ rows' = IF Backend = "memory" THEN <<>> ELSE rows
    /\ meta' = IF Backend = "memory" THEN None ELSE meta
    /\ saved' = IF Backend = "memory" THEN 0 ELSE saved

\* The steps a running process takes by itself.
RunStep(p) ==
    \/ OpenSave(p) \/ Return(p)
    \/ \E t \in ThreadsOf(p) :
          \/ Load(t) \/ Draw(t) \/ LoadSnapshot(t) \/ TrialLost(t)
          \/ \E name \in Names, dist \in Dists : \E v \in dist : Suggest(t, name, dist, v)
          \/ \E step \in Steps, v \in Vals : Report(t, step, v)
          \/ \E o \in Outcome(Vals) : Save(t, o)

Next == \E p \in Procs :
    \/ \E d \in Directions : OpenLoad(p, d)
    \/ OpenFails(p) \/ Begin(p) \/ BeginFails(p) \/ Exit(p)
    \/ RunStep(p)

Spec == LocalInit /\ [][Next]_localVars

\* A process that runs goes on running: its threads are scheduled, and every
\* objective ends.
FairSpec == Spec /\ \A p \in Procs : WF_localVars(RunStep(p))

-----------------------------------------------------------------------------
\* Every trial that was saved is in the history, under a number of its own
\* (hyperopt/tests/phase4_parallel.rs:33-38, "Every trial was recorded exactly
\* once, with a unique number"; study.rs:89-97, 125-143).
RecordedOnce == Cardinality(DOMAIN rows) = saved

\* The direction a process optimizes in is the recorded one (study.rs:24-26,
\* "a resumed study can't silently flip direction").
DirectionAgrees ==
    \A p \in Procs :
        study[p].pc \in {"open", "running"} => study[p].direction = meta

\* optimize leaves no gaps, whatever fails and wherever the process dies, so the
\* length of the history is the next free number (study.rs:90).
Contiguous == DOMAIN rows = 0 .. Cardinality(DOMAIN rows) - 1

InObjective == {t \in Threads : task[t].pc = "objective"}

\* No trial finds itself in the history it is compared with
\* (successive_halving.rs:89, "the current trial is not in the snapshot").
SnapshotExcludesSelf == \A t \in InObjective : task[t].number \notin DOMAIN task[t].snapshot

\* What a snapshot says of a trial stays true: later saves only add to it, so a
\* stale view is a partial one (study.rs:104-108).
SnapshotIsPast ==
    \A t \in InObjective : \A n \in DOMAIN task[t].snapshot :
        n \in DOMAIN rows /\ rows[n] = task[t].snapshot[n]

\* ... and at most one trial per other thread is missing from it: how stale
\* optimize_parallel's view can be ("slightly stale", study.rs:104-106).
StaleBound ==
    \A t \in InObjective :
        Cardinality((0 .. task[t].number - 1) \ DOMAIN task[t].snapshot)
            < Cardinality(ThreadsOf(Proc[t]))

\* A call that has returned Ok has run all its trials
\* (hyperopt/tests/phase4_parallel.rs:34, phase3_storage.rs:30-31).
RunsComplete ==
    \A p \in Procs : study[p].pc = "open" /\ ~study[p].err =>
        Cardinality(DOMAIN rows) = NTrials * study[p].runs

\* The best value is one that no completed trial beats (study_state.rs:64,
\* "The best completed trial under the study direction").
BestIsBest ==
    \A d \in Directions : \A n \in CompletedTrials(rows) :
        ~IsBetter(d, rows[n].value, BestValue(d, rows)) /\ BestValue(d, rows) # NaN

\* The curve a user is shown tells the same story as best_value did at each point of it:
\* its value at a trial is the best of the history up to that trial, and two separate
\* scans agree on ties and gaps (history.rs:25-26; study_state.rs:64-83).
CurveAgrees ==
    \A d \in Directions :
        LET curve == BestSoFar(d, rows)
        IN  \A n \in DOMAIN curve :
                curve[n] = BestValue(d, [m \in {k \in DOMAIN rows : k <= n} |-> rows[m]])

\* The best value never gets worse, whatever order the trials end in and whatever
\* fails (study_state.rs:64-83 over a history that only grows).
BestNeverWorsens ==
    [][\A d \in Directions : BestValue(d, rows) # None =>
         /\ BestValue(d, rows)' # None
         /\ ~IsBetter(d, BestValue(d, rows), BestValue(d, rows)')]_localVars

\* What has been saved can be loaded (sqlite.rs:14-16, "faithfully round-tripping
\* ... every intermediate report").
CanLoad == Loadable

\* The history is a ledger: a number is used once, an ended trial stays as it is.
Ledger == INSTANCE TrialLedger WITH ledger <- rows

IsLedger == Ledger!LedgerSpec

\* Every call of optimize or optimize_parallel returns.
CallsReturn == \A p \in Procs : study[p].pc = "running" ~> study[p].pc # "running"

=============================================================================
