# A verification project for hyperopt-rs

TLA+ modules that model `hyperopt-rs`, the TLC runs that check them on small
instances, and proofs for TLAPS, for instances of any size, of the safety properties
of the distributed part, of local studies, of the pruners and samplers, of shared SQLite
files and of fANOVA's trees.
Source paths are relative to the repository; a bare file name such as
`coordinator.rs:208` is unambiguous in it.

## 1. The system

`hyperopt-rs` optimizes hyperparameters. A *study* has a direction and a history
of numbered *trials*; a *sampler* proposes parameter values, a user's *objective*
uses them and reports intermediate values, a *pruner* says when to give up, and a
*storage backend* keeps the history.

| Component | State it keeps | Operations | Interacts with |
|---|---|---|---|
| `Trial`, `StudyState`, `Direction`, `Distribution` (hyperopt-core) | none: data | record, report, finish; `value_at_step`, `value_at_or_after`, `last_intermediate`, `best_trial`, ... | everything |
| `Study`, `TrialContext` (study.rs, context.rs) | direction; the counter of one `optimize_parallel` call; the trial under way in each thread, with its snapshot of the history | `new`, `optimize`, `optimize_parallel`, `suggest_*`, `report`, `should_prune` | storage by calls, sampler behind a mutex, pruner by reference |
| `InMemoryStorage`, `SqliteStorage` | trials by number, metadata; SQLite also a schema version | save and load of trials and metadata, opening a file | several threads, several processes (SQLite file) |
| `Coordinator` (coordinator.rs) | direction, atomic trial counter, one thread per connection with its `authed` flag | `Auth`, `NewTrial`, `Suggest`, `Report`, `ShouldPrune`, `Finish`, `BestValue` | storage; workers by a socket each |
| `Worker`, `RemoteTrial` (worker.rs) | one connection, `net_error` of the trial under way | `connect`, `authenticate`, `optimize`, `best_value`, and the objective's calls as round trips | the coordinator |
| Protocol (protocol.rs) | what is under way on a connection | one request line, one response line | |
| Pruners: `NopPruner`, `MedianPruner`, `SuccessiveHalvingPruner` | configuration only | `should_prune` | history and trial |
| Samplers: random, grid, TPE, CMA-ES | a random generator; grid axes; CMA-ES a cache of vectors by trial number | `suggest` | history and trial; each other only through the random draw they fall back on |
| hyperopt-viz: history, importance, fANOVA | none (a tree under construction, its leaves) | reports over a finished history | trials as storage returns them |

What is hard in it:

* **Concurrency.** The coordinator's handlers load a trial, change it and write it
  back without a lock (coordinator.rs:213-264). They are right only because no two
  connections ever use the same number. `optimize_parallel` draws its numbers
  before it loads its snapshot, and trials end in any order.
* **Crashes and restarts.** Numbers come from the *length* of the history
  (study.rs:90, study.rs:125, coordinator.rs:67), so a gap makes a later process
  reuse a number. A sampler may panic with its mutex held; a worker, the
  coordinator or a local process may die anywhere.
* **Partial failure.** Every storage call may fail: between drawing and saving, in
  one of several threads, between the two calls that create a study.
* **Lost messages.** A connection may break after the coordinator has acted and
  before the worker has read the answer. There are no timeouts.
* **Several processes.** Two processes may create a study, or open a new SQLite
  file, at the same time.
* **Stale data.** The CMA-ES sampler rebuilds its engine from the history of every
  call but keeps a vector per trial number for good; the history grows between the
  calls of one trial under a coordinator; ranges may change from trial to trial.
* **Numeric edges.** NaN, which JSON turns into `null` and which compares false
  with everything; ties; the rungs of successive halving; the odometer of the grid;
  the ends of a box, of a discrete domain and of a dimension without width.

`PROJECT.json` lists each of these under `hazards`, at its line, with the
properties that watch it or the reason why none does.

What makes each component correct:

* *Coordinator and workers*: a number has one owner; no update is lost; what was
  acknowledged is recorded; a recorded trial that has ended never changes; numbers
  stay ahead of the history; calls return; only failures and refusals end a run; a
  refused connection gets no trial.
* *Local studies*: each saved trial is recorded under a number of its own; snapshots
  are past histories, almost complete and without the trial itself; the direction is
  the recorded one; a call returns after its trials have ended.
* *Storage*: saves are upserts by number; what was saved can be loaded; a file of
  another version is never opened.
* *Pruners*: the leader survives; a median cut is a majority; both directions are
  alike; a rung is the highest one reached; a study is never wiped out.
* *Samplers*: a value fits what was asked for; the points of one CMA-ES trial are
  coordinates of one vector, drawn from the history that trial was given; what
  recombines is the best of its generation; a trial that completes late leaves the
  generations below it alone; one lap of the grid visits each point exactly once.
* *Reports*: the incumbent curve ends at the best value; the leaves of a regression
  tree tile the domain; the variances read off them are those of the definition, and
  main effects and interaction add up.

## 2. The modules

| Module | Models | Extends |
|---|---|---|
| `Trials` | trials, histories, directions and the questions asked of them | |
| `TrialLedger` | the abstract promise of every runner: numbers are used once, running trials only grow, ended trials never change | `Trials` |
| `Storage` | a backend's calls, each atomic, with what SQLite's JSON does to NaN | `Trials` |
| `Protocol` | requests, responses and connections | `Trials` |
| `Coordinator` | the server process and its threads | `Protocol`, `Storage` |
| `Worker` | the worker processes and their objectives | `Protocol` |
| `Distributed` | coordinator, workers and network together; the properties; refines `TrialLedger` | `Coordinator`, `Worker` |
| `LocalStudy` | processes and threads that run studies on the spot; refines `TrialLedger` | `Storage` |
| `Pruners` | the pruners as functions | `Trials` |
| `PrunedStudy` | studies whose objectives obey their pruner | `Pruners` |
| `Sqlite` | opening one file from several processes, with its theorem | |
| `Distributions` | distributions with their ranges, values, the random draw | `Trials` |
| `CmaEs` | CMA-ES but for the arithmetic of its engine | `Distributions` |
| `Tpe` | the TPE sampler around the `tpe` crate | `Distributions` |
| `Grid` | the grid's odometer | `Distributions` |
| `SampledStudy` | studies run by any of the samplers; their properties | `CmaEs`, `Tpe`, `Grid` |
| `History` | the incumbent curve; its property is in `LocalStudy` | `Trials` |
| `Importance` | decision-stump importances | `Distributions` |
| `Fanova` | one regression tree of fANOVA, from its bootstrap to its variances | `Importance` |
| `MC*` | values for the constants | |
| `TrialsProofs` | recursion over numbers; facts about lists of entries, best trials and incumbent curves | `History` |
| `DistributedProofs` | each step of one connection; ownership of numbers | `Distributed`, `TrialsProofs` |
| `LedgerProofs` | acknowledgements, errors, admission and the ledger of the distributed part | `DistributedProofs` |
| `LocalProofs` | the theorems about local studies | `LocalStudy`, `TrialsProofs` |
| `PrunedProofs` | medians, verdicts, rungs and pruned studies | `PrunedStudy`, `TrialsProofs` |
| `SampledProofs` | what samplers answer, CMA-ES's vectors and generations, the grid's odometer | `SampledStudy`, `TrialsProofs` |
| `FanovaProofs` | laws of finite sums; the tiling, first split, marginals and variances of fANOVA's trees | `Fanova`, `TrialsProofs` |

The exact correspondence of definitions and lines is `map` in `PROJECT.json`.
The main choices:

**Data.** A float is an integer or `NaN`; parameters and reports are sequences of
key/value entries in the order of first insertion, because `last_intermediate`
depends on that order. Where any value will do, a distribution is the set of values it
contains; `Distributions` has its kind and range instead. A history is
a function from numbers to trials, as in both backends; its order is that of the
numbers. Text, logging and the wording of errors are left out.

**Storage calls are atomic, sequences of them are not.** Both backends hold a mutex
per call and SQLite locks its file, so a call is one step. A handler or a trial that
makes several calls is as many steps, and anything may happen in between:

* coordinator: `NewTrialDraw` then `NewTrialSave` (`fetch_add`, `save_trial`);
  `Partition` then `SuggestSave`, `ReportSave` or `FinishSave`. `thread[w].pc` says
  which half a thread is in, `thread[w].current` is the trial it has loaded.
  The sampler runs in the second half, where it may panic (`SamplerPanic`).
  `Coordinator::new` is one step: no worker can be connected while it runs and the
  model has one coordinator per study. It resumes one of the histories `Earlier`; a
  storage error ends it before or after the metadata is saved (`BootFails`).
* local: `OpenLoad` then `OpenSave` for `Study::new`; `Draw`, `LoadSnapshot`, `Save`
  for a trial of `optimize_parallel`; `Load`, `Save` for one of `optimize`, whose
  number and snapshot come from a single load.
* SQLite file: `CreateTables`, `SelectVersion`, `InsertVersion`.

**Connections.** `Conn::call` writes one line and blocks on one line, so a connection
is a slot for a request and one for a response. It goes from `none` to `up` to `down`
and never back. A request that was sent before a connection broke may still be
served (`Pending` does not ask for an open link) or be lost (`Hangup`); its answer
never arrives.

**Objectives** are arbitrary programs of at most `MaxCalls` calls that end: a value,
`Pruned`, or `Failed` for an error or a panic. In `PrunedStudy` they report at steps
0, 1, ... and stop when told to; in `SampledStudy` each trial runs one of the programs
of its study, a sequence of `suggest` calls. Elsewhere **samplers** answer any value of
a distribution and **pruners** any verdict.

**Samplers.** A random draw is any value the generator can yield. Of the CMA-ES engine
the model keeps what it is told and selects, in order, and lets `ask` yield any vector
(`Raws`, counted in halves of the unit box, partly outside it): so nothing depends on
the floating-point algebra, and everything on the control around it. `tpe`'s `ask` is
any coordinate of the range it was built for. A study runs by `optimize` (`width` 1:
number and snapshot from one load), `optimize_parallel` (`Begin` draws the number,
`LoadHistory` loads later) or a coordinator (`LoadHistory` before every `Suggest`). Local
studies may lose trials to a failed save (`Lost`): the call begins no more, and when those
under way have ended another one may go on, with the same sampler and its cache, from the
length of the history. It does so only if the history has no gap; with one, the next number
is that of a stored trial, which is the subject of `LocalStudy`.

**Trees.** `Tree::build` is recursive; the model builds the nodes of a tree in any
order, one action each (`MakeLeaf`, `Split`), with the node's box, rows and depth, which
`Tree::collect` computes again. Every bootstrap and, if `max_features` is set, every
choice of features is possible, and any of several equally good splits. A split is judged
as in the code: the error of its left side from the prefix sums up to the last value
before the cut (`Prefix`), that of the right side from the totals less these. Coordinates
are doubled and predictions multiplied by `Scale`, so that midpoints, half-unit margins
and means are integers and the sums over leaves are exact.

**Medians.** A pruner sorts what it collects from a history and takes the middle. The
model keeps the collected values indexed by trial and says which value has a place in
the sorted order by counting those below it and up to it (`Smallest`), which is what a
proof can reason about; medians are doubled, so that they are integers.

**Overflow.** `Pruners!FirstRung` wraps modulo `U64`, as a release build does. With the
overflow checks of a debug build `successive_halving.rs:63` panics instead; that build is
not modelled, and no run has settings that overflow.

**Auxiliary variables** (`failed`, `acked`, `worker[w].view`, `saved`) record what
the properties need and restrict nothing. So do the `engine` and `had` of an entry of the CMA-ES cache.

## 3. The runs

Unless said otherwise there is one parameter name with one value, one step, one
reported value, the SQLite backend, and no symmetry reduction.

| Run | Instance | What it shows |
|---|---|---|
| `Dist_Faults` | a study resumed with a failed trial and an abandoned one; two symmetric workers, one trial each; storage errors, sampler panics, broken connections, dying workers | types; one owner per number; no stale write-back; numbers start past the resumed history and stay ahead of it; acknowledged trials are recorded as the objective saw them; only failures and refusals end a run; the history is a ledger |
| `Dist_Live` | a token; a worker of two trials that has it and one that has another; sampler panics; the coordinator dies and is started again | the refused worker owns nothing; every call returns; every trial ends unless something failed |
| `Dist_Seed` | two workers, a coordinator that dies and is started again | **violation**: a number in use is handed out again |
| `Local_Sequential` | `optimize` of two trials, twice, two opens, values {0, 1}; storage errors, crashes | no gaps, the recorded direction holds, `best_trial` is best and the incumbent curve ends at it, the history is a ledger |
| `Local_Parallel` | `optimize_parallel` of three trials on two threads, values {0, 1}; storage errors, a thread pool that cannot start | unique numbers, sound and nearly complete snapshots, the best value never worsens, calls return complete |
| `Local_NaN` | values {1, NaN} | **violation**: a saved study that can never be loaded again |
| `Local_Direction` | two processes, one trial each | **violation**: a process that optimizes against the recorded direction |
| `Pruned_All` | median and halving, each local and remote, and nop; three trials, two at a time, three steps, values {0, 1} and NaN at the middle step | the leader survives, a median cut is a majority, both directions agree, rungs are right, only live halving wipes out a study |
| `Pruned_Wiped` | remote halving, two trials, four steps | **violation**: both trials pruned |
| `Sqlite_Open` | three processes of version 1, one of version 2 | no file is misread |
| `Sampled_All` | random and TPE over every kind of distribution, changing and empty ones included; grids of up to three axes of up to three values, from trial 0 or 1; CMA-ES in one and two dimensions, both directions, both repairs, local, parallel and remote, with categorical, missing and changing parameters, failed trials and lost saves, under `optimize` and `optimize_parallel` | values fit what was asked; one point per trial; a vector is of its trial's history, except that a number lost by `optimize_parallel` keeps an older one; the best are selected; earlier generations stay; each lap covers the grid once |
| `Fanova` | all studies of three trials over two parameters of five kinds, one with a missing parameter, and of four trials at the corners of a square; every bootstrap; the default options, one feature per split, and a shallow tree | leaves tile the domain; marginals and their variances are exact; effects add up; the first split is on the parameter the stumps call most important |

`IsLedger` is refinement: `Distributed` and `LocalStudy` implement
`TrialLedger!LedgerSpec` with `ledger <- rows`.

`SeededPast` and `ResumesPast` are about one line, coordinator.rs:67. `SeededPast` is what
the comment above it promises, that a coordinator always numbers past what is stored;
`Dist_Seed` violates it. `ResumesPast` is what is left of the promise: it is kept by every
coordinator that finds no gap, from its start over whatever history to its end.

**Why the bounds are enough.** Lost updates, shared numbers and stale snapshots need
two actors; a third repeats the roles of the second. In `Dist_Live` the admitted worker
has two trials, so that it returns to `NewTrial` on the same connection, before and
after a restart; elsewhere one trial each is enough for the handlers to interleave, and
the invariants are proved for any number. One objective call separates a loaded trial
from a changed one. A crash needs one restart to be found out (`MaxBoots` and
`MaxOpens` 2) and `optimize` a second call to number past the first. Three trials on
two threads let one thread finish two while the other stays. Median and halving with
a factor of two first disagree on three trials, and steps 0 to 2 contain two rungs
(1 and 2). Two values and NaN give every order, tie and incomparable pair. Three axes
have a first, a middle and a last, and sizes 0 to 3 include the empty and the
singleton axis. CMA-ES selects two of a generation of four, so five trials hold one
generation and a trial drawn from it; a population of two gives two generations, and a
trial that completes late, in five. `Raws` are below, above and inside the box, and one
whole period away. Two parameters are the fewest with an interaction, three trials the
fewest with a split on each of two levels; four corners are the smallest interaction
without main effects. `Scale` 12 is divisible by every number of rows. `U64` and
`USize` stand for 2^64; at 1024 nothing in these instances overflows. The bounds in the
guards are `MaxBoots`, `NTrials`, `MaxCalls`, `MaxRuns`, `MaxOpens`, `Width`,
`LastStep`, and a study's `limit` and `losses`.

**Deadlock** is checked in the distributed runs, in which the server waits for ever
(`Idle`) once its workers are done, and in `Sqlite_Open`. Local processes, pruned and
sampled studies and trees really come to an end, so their runs turn the check off.

**Fairness.** `Distributed!FairSpec` has weak fairness for each server thread and
each worker. Both are operating-system threads that wait on their socket or on a
mutex held for one call; no code waits on a condition another thread must set. It
assumes that objectives end. It does not assume that a coordinator is ever started,
that a network breaks or that anything fails. `LocalStudy!FairSpec` has weak fairness
for each process's own steps, and none for opening a study or calling `optimize`.
`CallsReturn` therefore says something of the code: an unanswered request or a
`try_for_each` that waits on a failed trial would break it.

**Mutants.** Every property of every passing run has a mutant in `PROJECT.json`, an
operator beside the one it replaces, with the bug it stands for in its comment.

## 4. What the runs found

1. `Dist_Seed`: `Coordinator::new` seeds the counter with the number of stored
   trials. A coordinator that dies between `fetch_add` and `save_trial` of one
   connection, after another has saved a higher number, is restarted below a number
   in use and overwrites that trial. The comment at coordinator.rs:46-48 promises the
   opposite. `NumbersAhead` proves that a gap is needed: over a history without one a
   coordinator numbers past it and stays ahead.
2. `Local_NaN`: one NaN report makes a SQLite study unreadable (sqlite.rs:97, 120),
   against sqlite.rs:14-16.
3. `Local_Direction`: two processes creating one study race between
   `load_study_metadata` and `save_study_metadata` (study.rs:35-44), against
   study.rs:24-26.
4. `Pruned_Wiped`: `SuccessiveHalvingPruner` compares a trial's last report with its
   peers' reports at the rung; among running trials each can lose to the other, so
   none is promoted, against successive_halving.rs:7-9.

Seen while exploring with other constants, and left out of the runs on purpose so
that the properties can be checked for everything else:

* two processes running `optimize` on one SQLite file share numbers (`Procs` of two:
  `RecordedOnce`);
* a failed save in `optimize_parallel` leaves a gap, and the next call overwrites a
  trial (`MaxRuns = 2`: `RecordedOnce`);
* a NaN that a remote objective returns or reports is written as `null` (worker.rs:230),
  which the coordinator calls a bad request; `optimize` returns an error, the rest of its
  trials are not run and this one stays `Running`, against worker.rs:67-70 (`NaN` in the
  `Vals` of a `Dist` run: `ErrorsAreFailures`). `ErrorsHaveCauses` proves that NaN, or a
  failure or refusal, is needed;
* `best_trial` keeps a first value of NaN with the in-memory backend (`BestIsBest`);
* an opener of a new SQLite file may fail on the `INSERT` another one won;
* the first rung of successive halving can wrap to zero, after which
  `rung_resource_for` does not end (small `U64`, large `MinEarlyStoppingRate`:
  `RungIsHighest`);
* a grid that registers one name twice does not cover its product (two axes of one
  name: `CoversOnce`);
* CMA-ES decodes a vector for the range a name was recorded with first and hands the
  value to a call that asks for another range (cmaes.rs:160, 254-258), although
  cmaes.rs:33-34 says that repaired draws "keep every suggestion valid"; `InSupport`
  asks less of this sampler for that reason, and does not catch it;
* under `Maximize` a NaN objective has its sign bit set when negated, and `total_cmp`
  ranks it before every number (cmaes.rs:202, 436): a failed measurement is selected
  (`values` are numbers in `SampledStudy`);
* `optimize_parallel` after a failed save hands a number out again, with a history
  that has moved on, and the CMA-ES cache still answers with the old vector. No text in
  the repository promises otherwise; `CacheIsFresh` says of this case only that the vector
  was drawn from some of the trials this one was given (its stronger form, without the
  second branch, fails in `Sampled_All`);
* under a coordinator the calls of a trial before the warm-up ends are random and
  those after it come from a vector: `OnePoint` excepts the first ones;
* fANOVA takes the domain recorded first; rows outside it make thresholds and leaf
  widths leave it (`InDomain` is a hypothesis of `Tiles`, `MarginalExact` and
  `Decomposes`).

## 5. What is proved

The theorems hold for every value of the constants their modules allow: any number of
workers, processes, threads, trials, names, steps and values, and every combination of
faults, but for the hypotheses in the last column. Each hypothesis names a case in which
the code does not keep the promise; a run or section 4 shows it.

| Theorem | Says | Unless excepted, for all constants |
|---|---|---|
| `TrialsProofs!UpsertThenLookup` | in a list with distinct keys, the value last written for a key is read back, and no other key changes | |
| `TrialsProofs!BestTrialIsBest` | `best_trial` finds a completed trial no other beats, if one has completed | no value is NaN |
| `TrialsProofs!CurveIsBestValue` | the incumbent curve is at the best value of the history so far, at every point | |
| `DistributedProofs!TypeCorrect` | `Spec => []TypeOK` | |
| `DistributedProofs!OneOwner` | `Spec => []SingleOwner` | |
| `DistributedProofs!NoLostUpdate` | `Spec => []ReadIsCurrent` | |
| `DistributedProofs!NumbersAhead` | `Spec => ResumesPast` | |
| `LedgerProofs!Admission` | `Spec => []OnlyAdmitted` | |
| `LedgerProofs!ErrorsHaveCauses` | `Spec => []ErrorsAreFailures` | no value is NaN |
| `LedgerProofs!NothingAckedIsLost` | `Spec => []AckedIsRecorded` | the coordinator lives, no gaps before |
| `LedgerProofs!DistributedIsLedger` | `Spec => IsLedger`: a refinement | the coordinator lives, no gaps before |
| `LocalProofs!LocalTypes` | `Spec => []LocalTypeOK` | |
| `LocalProofs!OneDirection` | `Spec => []DirectionAgrees` | `OneProcess` |
| `LocalProofs!NumbersUsedOnce` | `Spec => []RecordedOnce` | `OneProcess`, `Gapless` |
| `LocalProofs!NoGaps` | `Spec => []Contiguous` | `OneProcess`, only `optimize` |
| `LocalProofs!SnapshotsAreViews` | `Spec => []SnapshotIsPast` | `OneProcess`, `Gapless` |
| `LocalProofs!TrialsLeaveThemselvesOut` | `Spec => []SnapshotExcludesSelf` | `OneProcess`, `Gapless` |
| `LocalProofs!StaleByThreads` | `Spec => []StaleBound` | `OneProcess`, `Gapless` |
| `LocalProofs!LocalIsLedger` | `Spec => IsLedger`: a refinement | `OneProcess`, `Gapless`, SQLite, no NaN |
| `LocalProofs!CallsRunAll` | `Spec => []RunsComplete` | `OneProcess`, `Uninterrupted` |
| `LocalProofs!CurveIsBest` | `Spec => []CurveAgrees` | |
| `LocalProofs!BestIsUnbeaten` | `Spec => []BestIsBest` | no value is NaN |
| `LocalProofs!BestOnlyImproves` | `Spec => BestNeverWorsens` | `OneProcess`, `Gapless`, SQLite, no NaN |
| `PrunedProofs!LeadersGoOn` | `Spec => LeaderSurvives` | |
| `PrunedProofs!HalfWereAhead` | `Spec => PrunedByHalf` | |
| `PrunedProofs!SomeSurvive` | `Spec => []OnlyLiveHalvingPrunesAll` | |
| `PrunedProofs!MirrorsAgree` | `Spec => []DirectionSymmetry` | |
| `PrunedProofs!RungsAreHighest` | `Spec => []RungIsHighest` | `RungsFit` |
| `SampledProofs!SampledInvariant` | `Spec => []Inv`, the inductive invariant of sampled studies | |
| `SampledProofs!VectorsAreFresh` | `Spec => []CacheIsFresh` | |
| `SampledProofs!TrialsTryOnePoint` | `Spec => []OnePoint` | |
| `SampledProofs!ValuesInSupport` | `Spec => []InSupport` | every study is `WellAsked` |
| `SampledProofs!SelectionIsBetter` | `Spec => []SelectedAreBetter` | |
| `SampledProofs!ReplayOnlyGrows` | `Spec => []ReplayGrows` | |
| `SampledProofs!GridIsCovered` | `Spec => []CoversOnce` | every grid study has a `WholeGrid` |
| `Sqlite!NoMisreading` | `Spec => []NeverMisreads` | |
| `FanovaProofs!TreeTiles` | `Spec => []Tiles` | the rows lie in the recorded domain |
| `FanovaProofs!TreeStartsAtTopStump` | `Spec => []RootIsTopStump` | the same, and no value is NaN or a label |
| `FanovaProofs!MarginalsAreExact` | `Spec => []MarginalExact` | the same, and no value is NaN |
| `FanovaProofs!EffectsShareVariance` | `Spec => []Decomposes` | the same, and no value is NaN |

The hypotheses:

* *The coordinator lives* (`"coordinator" \notin Faults`): one that dies between drawing
  and saving a number seeds its successor too low (`Dist_Seed`), and a number is then
  used twice and a recorded trial overwritten.
* *No gaps before* (`Gapless`, of every history in `Earlier`): the same, had the process
  died before. (`NumbersAhead` has this condition in the property, and no hypothesis.)
* `OneProcess`: two processes may disagree about the direction (`Local_Direction`) and
  take the same numbers (study.rs:90).
* `Gapless`: no call of `optimize_parallel` is followed by another after a failure
  (study.rs:125). It holds if every process uses `optimize`, or nothing fails, or there
  is one call.
* `Uninterrupted`: nothing failed and the history outlived every opening of the study, or
  there was one call in one opening. A later call does not make up for the trials an
  earlier one lost.
* *SQLite*: `InMemoryStorage` forgets its history with its process; a ledger does not.
* *No NaN* (`NaN \notin Vals`): SQLite cannot read a NaN back (`Local_NaN`), a remote one
  is a bad request (worker.rs:230), and a first value of NaN is never beaten.
* `RungsFit`: the first rung `min_resource * eta^min_early_stopping_rate` is within a u64
  and steps are below the largest one. Otherwise the product wraps (a finding of section 4).
* `WellAsked`: values registered for a name of a grid lie in the ranges it is asked for
  with, and CMA-ES is given no empty range. `GridSampler` never compares the two, and a
  vector is decoded for whatever ends a range has.
* `WholeGrid`: every axis of the grid has its own name and distinct values, every program
  of the study asks for each axis that has values, and the product of the axes is below the
  largest usize. Names registered twice are in section 4; a value listed twice is tried
  twice.

* *The rows lie in the recorded domain* (`InDomain`): fANOVA takes the ranges of the trial
  that has a parameter first, and nothing stops a program from moving them (section 4).

`MCPruned` and `MCSampled` assume `RungsFit`, `WellAsked` and `WholeGrid` of the instances that TLC runs: the
theorems are about no other case than the runs.

The assumptions are the named `ASSUME`s of the modules, all of which TLC evaluates in the
runs: besides types and ranges, that there are finitely many threads, that `None` and the
`Corrupt` mark of an unreadable row are not trials, and that `None` is neither a report nor
the record of a parameter. `SetupsAssumption` types a sampled study. It restricts two
things that are data: where a logarithm of a range's ends is taken they are powers of two
(`Logarithmic`), and CMA-ES is given no log-uniform range that has none (`Decodable`; the
code decodes such a range to NaN). It leaves no combination of threads, coordinator and
failed saves out. `EarlierAssumption` types the histories a coordinator may resume, gaps
included. `USizeAssumption` only asks that a usize can count to one.

### Distributed

The inductive invariant behind the ownership of numbers is `IndInv`:

* `TypeOK` and `Shape` — what each place in a thread's and in a worker's program says
  of the connection between them. Without `Shape` an answer could be read by a worker
  that did not ask, and a number could come from nowhere.
* `OwnedBound` — every number in use on a connection that is served (drawn by its
  thread, carried by an answer, held by the `RemoteTrial`, named in a request) is
  below the counter. It makes a freshly drawn number nobody else's.
* `SingleOwner` — no number is in use on two served connections. It is not inductive
  without `OwnedBound`.
* `ReadIsCurrent` — needs `SingleOwner`: only another owner of the number could
  change the stored trial between a handler's load and its save.

`ResumesPast` is a property of steps. One that starts a coordinator over a history without
gaps sets the counter to its length, which is past all its numbers (`StartsSeeded`); one of
a coordinator that is ahead saves only a number that is owned, which by `OwnedBound` is
below the counter (`StaysSeeded`).

"Served" matters: after a crash the connections of the old process may still name old
numbers, but no thread serves them any more. The lemmas of `DistributedProofs` show,
action by action, that a step of one connection leaves every other alone, keeps its own
shape, adds at most the counter's value to what it owns and saves only a trial it owns;
its theorems follow from those facts without looking at the actions again. `Typed`, there, is `TypeOK /\ Shape` taken connection by connection.

`LedgerProofs` adds, again connection by connection:

* `LedgerInv`, for what is stored. `Posted`: the request under way is the one its worker
  waits on, and once an outcome is under way nothing else is asked for that trial.
  `Outstanding`: a number that is still to be finished is recorded and running, and one
  that is just drawn is not recorded. `InStep`: on an open connection what the objective
  has seen of its trial is the stored trial while a request waits, and the stored trial is
  ahead by the one change asked for once the answer is on its way; an outcome is in the
  worker's view first and in the stored trial later. `Acknowledged`: an acknowledgement not yet read is of a trial that
  is recorded as the worker sees it. `AckedEnded`: what was acknowledged is recorded and
  has ended. Of these only the last is what one wants to know; it is not inductive, since a
  step of *another* connection might write an ended trial, which `Outstanding` and
  `SingleOwner` exclude, and since the acknowledgement is worth nothing without `InStep`.
* `AdmitInv`, for who works. `Authed`: a thread is past authentication only if its worker
  holds the token. With `Posted` the study a request names is its worker's.
* `ErrorInv`, for errors. `Blameless`: as long as nothing has happened to a worker that may
  work, its connection is open, its requests can be read, no answer to it is an error, and
  it asks for a trial only after it has been authenticated.

For the refinement, every step is shown to leave `rows` alone or to be one of the three
steps of `TrialLedger`: `NewTrialSave` enters a fresh number because it was only drawn
(`Outstanding`), `SuggestSave` and `ReportSave` extend and `FinishSave` closes a trial that
is current (`ReadIsCurrent`) and running (`Outstanding`).

### Local studies

`LocalTyped` types every variable; it needs that a task in its objective has a trial of its
own number. `OneDirection` adds `Agreed`: until the direction is recorded nobody has one.

`NumberInv` is about numbers. `Apart`: a number in flight is nobody else's and not
recorded. It cannot stand alone, since a number is fresh only because of where it is taken
from: `InSequence` (`optimize`: the history has no gaps, and the one number in flight is
its length) and `Drawn` (`optimize_parallel`: what is recorded or in flight lies below the
counter, and at most one number per thread is missing below it, which is also what bounds
the staleness of a snapshot). Between calls the counter is forgotten, so `Resumable` says
that a history that may be run on has no gaps, which is where `Gapless` comes in; `AtRest`
and `Unused` say that nothing is in flight outside a call and nothing is recorded before
the first. `RecordedOnce`, the snapshots' properties and the refinement follow.

`CallInv` counts: what is recorded, in flight and still to begin is what has been asked
for (`Counted`), as long as nothing is lost.

`CurveIsBest` needs no invariant beyond types: it is `CurveIsBestValue` applied to the
stored history. `BestIsUnbeaten` needs `Legible`, that each stored trial can be read back;
`BestOnlyImproves` follows from `BestTrialIsBest` in both states, because ended trials
stay (the ledger).

`best_trial` and `best_so_far` are folds over the numbers of a history, in the model
functions defined by recursion over `Nat`. Induction over `Nat` in the library takes an
operator as a parameter and cannot be used; `TrialsProofs` argues by least elements
instead. Two partial unfoldings of one recursion agree (`PartialsAgree`: consider the least
number where they differ), there is one up to each number (`PartialExists`: consider the
least for which there is none), and so the recursive function satisfies its equation
everywhere (`Recursion`). The powers in a ladder of rungs and of a logarithmic range
(`PowersUnfold`) and the products of a grid's axes follow the same way. `ScanHoldsBest` and `ScanFollowsClimb` consider the least number up to which
the scan has gone wrong.

### Pruners

`PlaceExists` and `PlaceUnique` show that `Smallest` is well defined, `HalfAreAhead` that a
value worse than the median is behind at least half of the values and `MedianMirrors` that
negated values have the negated median; for an even number the two middle values change
places. `MedianVerdict` and `HalvingVerdict` say what a verdict to prune implies, for any
history. The invariant that lifts them to a study is `PrunedInv`: trials report at 0, 1, ...
in turn (`TrialsInOrder`), so that the report pushed last is the one at the highest step;
a snapshot holds other trials that have ended, as they still are (`SnapshotsStand`), so that
what a trial was compared with can be found in the study; and as soon as a trial has ended
one has completed (`SomeoneCompletes`), because the one that makes another be pruned has
itself ended, unless it is a running peer of successive halving. These theorems do not look
into the rung: they hold for whatever `rung_resource_for` answers.

`RungsAreHighest` does. The loop's rungs are powers (`PowerIs`) and grow (`RungGrows`), so
that some rung is the last one not above the step (`WayUpEnds`); saturating at the largest
u64 does not disturb the comparison, since no step gets there (`SaturatingGrows`). What is
the highest rung of the loop is then the highest of the ladder (`RungIs`).

### Samplers

The inductive invariant of `SampledStudy` is `Inv`:

* `TrialsTyped`, `LiveTyped` — under `optimize` trials are numbered without gaps, every
  parameter of a trial answers a call of one of the study's programs, and what is still to be asked is one too.
* `SeenFits` — a trial holds trials that have ended (which never change: `EndedKept`), and
  one that runs alone holds all of them.
* `CacheSound` — every vector, also that of a trial that has been lost, was drawn for some
  history of the study that has ended.
* `CacheFresh` — while `Unbroken` (trials run one at a time, or none has been lost), that
  history is a local trial's own. This is not inductive by itself: a number that was lost
  keeps its vector, and the next trial takes both. So it says as well that the number of a
  lost trial is the next one and that nothing has ended since. Otherwise a vector is drawn
  from some of the trials that have ended (`FromSome`): these never change, and a trial that
  takes its number later is given all of them (`FromSomeStep`).
* `Cold` — a local trial with a numeric parameter and no vector had nothing to draw one from;
  without it a vector could appear in the middle of the trial, and `OnePoint` fail.

`OnePoint` and `RecordsApt` (every recorded value is a draw, an answer of TPE, a point of
the grid or a coordinate of a vector decoded for a range the name has had) are inductive
with it. `InSupport` follows by looking at what each may be: `DrawsFit`, `AsksFit`,
`GridAnswersFit` and, for vectors, `RepairInBox` (both repairs end in the box) and
`DecodeFits` (a coordinate in the box is decoded into the range).

`SelectedAreBetter` rests on `SelectionIsBest`: whoever counts fewer than mu before it, and
one that does not, are in that order. `ReplayGrows` rests on ranks in finite sets of
numbers (`RankExists`, `InOrderIs`): a trial that completes late is put at the place of its
number, so all samples below it keep theirs (`InOrderGrows`), and with them the generations
made of them alone (`GenerationsGrow`).

The grid is an odometer. Let the weight of an axis be the product of the axes after it.
Weights divide one another (`WeightsDivide`); the digits of two numbers of one lap differ
somewhere unless the numbers are equal, and every sequence of digits is shown by some
number (`OdometerSplit`, `OdometerShows`), so each is shown exactly once in any lap
(`LapOnce`), wherever the lap begins, since the number is first taken modulo the size.
`GridWeights` shows that `TailProduct` and `GridSize` are these products while nothing
saturates or wraps. A completed trial has asked for every axis (`WantedAsked`: it has asked,
or will, or does not complete), the trials the study holds at first do not count
(`HeldFailed`), and so the trials of a lap that is full hold each point once.

### SQLite and fANOVA

For `Sqlite`, `NeverMisreads` is inductive with `TypeOK`: while there is no version row
nobody has the file open, so inserting one cannot change it under anybody.

For `Fanova` the inductive invariant of the tiling is `TreeInv`: beside `Tiles`, that
boxes have integer ends, that the rows of a node are rows of the data and lie in its box,
and that nodes and leaves are different things. `ThresholdInside` is the heart of it: a
midpoint of two neighbouring values of rows in a box lies in the box and strictly below its
upper end. Hence a split divides the cells of its node between its sides and gives none
away (`SidesPart`) and the rows with them (`ChildRows`); a leaf takes over its node's
cells. The theorem holds for any study whose rows lie in the recorded domain, any number of
parameters and rows, and any options.

The other theorems are about sums: over the rows of a node, the leaves, the cells. They are
the library's folds over sets. A fold cannot be unfolded by induction here, but *being a
fold up to a subset* can be stated as membership in a set, so that `Subsetwise` (if a
subset T of a finite set is a member as soon as its proper subsets are, for each T, then
all subsets are members) is an argument by least cardinality. From it: a fold exists and is unique
(`FoldExists`, `FoldsAgree`), any term may be taken out of it first if the operation lets
terms change places (`FoldAnyFirst`), and so sums and products are integers with their
usual laws: linear (`SumLinear`), by parts (`SumByParts`), renamed (`SumRenamed`), and
products in parts (`ProductParts`).

`TreeStartsAtTopStump` needs `RootInv`: pieces are side by side in some dimension in which
each has width (`Apart`), so two are never the same set element, and there is one node, or
the two sides of one best split, or there are three pieces and more (`Growth`); a tree does
not go back to two. The rest is that both programs look at the same thing: coordinates are
in the order of values (`CoordinatesOrder`), so the rows up to the last value before
a midpoint are those below it and those before a cut (`SplitIsCut`), what the prefix sums
lack of the totals are the sums of the other side (`SumOfRest`, `CostOfSides`), and the
error of a side is the spread of its trials (`ErrorIsSpread`);
the least cost is then the most explained (`BestIsTop`).

For the variances the invariant is `SizeInv`: the leaves are finitely many, their values
are integers (a mean is one of a positive number of drawn rows), their boxes lie in the
domain. Of a finished tree:

* a box holds as many unit cells as its sides multiply to (`GridSize`), and the leaves tile
  the cells, so the integral of the prediction over the cells above one, taken cell by cell,
  is the sum over the leaves above it of value times size (`IntegralByLeaves`);
* no boundary of a leaf runs through a cell of the grid the boundaries make, every unit
  cell lies in one of those cells (`CellAt`), and looking at the middle of such a cell is
  as good as looking at any unit cell in it (`CoversIsHolds`), so `Marginal` is that
  integral (`MarginalIsIntegral`), and the variance over the grid the one over the unit
  cells (`MarginalVarianceIsExact`): `MarginalsAreExact`;
* let `Averaged(D)` be the function of all unit cells whose value depends only on the
  dimensions D and is the marginal's distance from the mean. Averaging it over more
  dimensions gives that of fewer (`Tower`), and 0 if they are none of its own
  (`SkewFibre`). So the inner product of those of D and of a larger E is the variance over
  D (`InnerIsVariance`), and it is 0 if D and E are disjoint (`InnerOrthogonal`). The sum
  of the squares of what remains of the joint average without the two main ones is not
  negative (`SquaresOfRest`), which is `MainsWithinJoint`; likewise a variance over fewer
  dimensions is at most that over more (`VarianceGrows`), the largest of which is
  `TotalVar` (`TotalIsVariance`): `EffectsShareVariance`.

The hypotheses are those of the properties: `InDomain`, without which boxes leave the
domain, and `Measured`, since a NaN has no variance. `StudiesAssumption` says what a history
is: finitely many trials, with the parameters `Trials` types; and that the logarithm of the
model, which is one of powers of two, is only taken of these.

### Only model-checked

* All liveness (`TrialsEnd`, `CallsReturn`): fairness is out of the provers' reach.
* That the runs of section 3 that expect a violation have one: a theorem cannot say so.

## 6. What is not modelled

* Transport and TLS (transport.rs): plumbing around a byte stream.
* The arithmetic of the CMA-ES engine (weights, evolution paths, covariance, the Jacobi
  eigensolver): floating-point algebra TLC cannot compute. The estimators of the `tpe`
  crate are not part of the repository.
* Of hyperopt-viz: averaging over the trees of a forest, normalising, sorting, and
  drawing the SVG. A split whose threshold rounds onto a value, so that one side is
  empty, does not occur with exact midpoints.
* `StudyBuilder`: default arguments for `Study::new`.
* Infinite floats, builds with overflow checks, and the text of keys, labels and errors.
* A CMA-ES study that goes on after `optimize_parallel` has left a gap in its history.

## 7. Plan

Done, in this order: `Trials`, `Storage`, `Protocol`, `Coordinator`, `Worker`,
`Distributed`; `TrialLedger`; their proofs; `LocalStudy`; `Pruners`, `PrunedStudy`;
`Sqlite` and its proofs; `Distributions`, `Grid`, `Tpe`, `CmaEs`, `SampledStudy`;
`History`; `Importance`, `Fanova`.

Proofs since: best trials and curves (`TrialsProofs`); admission, errors,
acknowledgements and the ledger (`LedgerProofs`); local studies (`LocalProofs`); the
pruners and their rungs (`PrunedProofs`); the samplers and the grid (`SampledProofs`);
finite sums, and fANOVA's trees with their variances (`FanovaProofs`).

What could follow, in the model: a worker that dies in its objective together with a
coordinator that gives its trial up, if the code ever does.
