---------------------------- MODULE LocalProofs -----------------------------
(***************************************************************************)
(* Theorems about LocalStudy: the types of its variables, for any          *)
(* processes, threads and faults; and, for a study that one process runs,  *)
(* that trial numbers are used once, that snapshots are views of the past, *)
(* and that the history is a ledger.                                       *)
(***************************************************************************)
EXTENDS LocalStudy, TrialsProofs, FiniteSetTheorems

-----------------------------------------------------------------------------
(* Types.                                                                   *)

\* A trial that its objective works on, and what can be stored.
OwnTrial  == TrialType(Names, Steps, Vals)
Histories == UNION {[D -> LocalTrial \cup {Corrupt}] : D \in SUBSET Nat}

Task == [pc : {"idle", "drawn", "objective"}, number : Nat \cup {None},
         trial : OwnTrial \cup {None}, snapshot : Histories \cup {None},
         calls : 0 .. MaxCalls]

\* A task under way has a number, and in the objective a trial of that number.
InOrder(s) ==
    /\ s \in Task
    /\ s.pc # "idle" => s.number \in Nat
    /\ s.pc = "objective" =>
          s.trial \in OwnTrial /\ s.trial.number = s.number /\ s.snapshot \in Histories

Stored ==
    /\ rows \in Histories /\ IsFiniteSet(DOMAIN rows)
    /\ \A n \in DOMAIN rows : rows[n] = Corrupt \/ rows[n].number = n
    /\ meta \in Directions \cup {None} /\ saved \in Nat

LocalTyped ==
    /\ Stored
    /\ study \in [Procs -> Study]
    /\ task \in [Threads -> Task] /\ \A t \in Threads : InOrder(task[t])

\* A history is a function from numbers.
LEMMA HistoryParts ==
    ASSUME NEW h \in Histories
    PROVE  /\ DOMAIN h \subseteq Nat /\ h = [n \in DOMAIN h |-> h[n]]
           /\ \A n \in DOMAIN h : h[n] \in LocalTrial \cup {Corrupt}
BY DEF Histories

\* The empty history is one.
LEMMA EmptyHistory == <<>> \in Histories /\ DOMAIN <<>> = {}
<1>1. DOMAIN <<>> = {}
  OBVIOUS
<1>2. <<>> \in [{} -> LocalTrial \cup {Corrupt}]
  OBVIOUS
<1> QED BY <1>1, <1>2 DEF Histories

\* The trials an objective works on are trials, and what happens to them there
\* leaves them so, and of the same number (context.rs:44-111).
LEMMA OwnTrialType ==
    /\ \A n \in Nat : NewTrial(n) \in OwnTrial /\ NewTrial(n).number = n
    /\ \A t \in OwnTrial :
          /\ t \in LocalTrial /\ t.number \in Nat
          /\ \A name \in Names, v \in Int :
                Record(t, name, v) \in OwnTrial /\ Record(t, name, v).number = t.number
          /\ \A step \in Steps, v \in Vals :
                AddReport(t, step, v) \in OwnTrial /\ AddReport(t, step, v).number = t.number
          /\ \A o \in Outcome(Vals) :
                FinishTrial(t, o) \in OwnTrial /\ FinishTrial(t, o).number = t.number
<1>1. Vals \subseteq Floats
  BY LocalAssumption
<1>2. \A t \in OwnTrial : t \in LocalTrial
  BY <1>1, TrialTypeGrows DEF OwnTrial, LocalTrial
<1>3. \A t \in OwnTrial : t.number \in Nat
  BY DEF OwnTrial, TrialType
<1> QED
  BY <1>2, <1>3, NewTrialType, RecordType, AddReportType, FinishTrialType DEF OwnTrial

\* What the storage keeps of a trial keeps its number, if it can be read back
\* (memory.rs:30-38, sqlite.rs:96-125).
LEMMA EncodeType ==
    ASSUME NEW t \in LocalTrial
    PROVE  \/ Encode(t) = Corrupt
           \/ Encode(t) \in LocalTrial /\ Encode(t).number = t.number
<1>1. [t EXCEPT !.value = IF @ = NaN THEN None ELSE @] \in LocalTrial
  BY DEF LocalTrial, TrialType
<1>2. [t EXCEPT !.value = IF @ = NaN THEN None ELSE @].number = t.number
  BY DEF LocalTrial, TrialType
<1> QED BY <1>1, <1>2, StorageAssumption DEF Encode

\* Saving a trial under its number keeps the history well typed.
LEMMA SaveKeepsTypes ==
    ASSUME Stored, NEW t \in LocalTrial, SaveTrial(t)
    PROVE  /\ rows' \in Histories /\ IsFiniteSet(DOMAIN rows')
           /\ \A n \in DOMAIN rows' : rows'[n] = Corrupt \/ rows'[n].number = n
           /\ DOMAIN rows' = DOMAIN rows \cup {t.number}
           /\ \A n \in DOMAIN rows : n # t.number => rows'[n] = rows[n]
           /\ rows'[t.number] = Encode(t)
<1> DEFINE D == DOMAIN rows \cup {t.number}
<1>1. t.number \in Nat
  BY DEF LocalTrial, TrialType
<1>2. rows' = [n \in D |-> IF n = t.number THEN Encode(t) ELSE rows[n]]
  BY DEF SaveTrial
<1>3. D \in SUBSET Nat /\ \A n \in DOMAIN rows : rows[n] \in LocalTrial \cup {Corrupt}
  BY <1>1, HistoryParts DEF Stored
<1>4. Encode(t) \in LocalTrial \cup {Corrupt}
  BY EncodeType
<1>5. rows' \in [D -> LocalTrial \cup {Corrupt}]
  BY <1>2, <1>3, <1>4
<1>6. rows' \in Histories
  BY <1>3, <1>5 DEF Histories
<1>7. IsFiniteSet(D)
  BY FS_AddElement DEF Stored
<1> QED BY <1>2, <1>6, <1>7, EncodeType DEF Stored

\* What the two assignments come to.
LEMMA SetTypes ==
    ASSUME LocalTyped
    PROVE  /\ \A p \in Procs, s \in Study : SetStudy(p, s) =>
                 /\ study' \in [Procs -> Study] /\ study'[p] = s
                 /\ \A q \in Procs : q # p => study'[q] = study[q]
           /\ \A t \in Threads : \A s : InOrder(s) /\ SetTask(t, s) =>
                 /\ task' \in [Threads -> Task] /\ task'[t] = s
                 /\ \A u \in Threads : u # t => task'[u] = task[u]
                 /\ \A u \in Threads : InOrder(task'[u])
<1>1. ASSUME NEW t \in Threads, NEW s, InOrder(s), SetTask(t, s)
      PROVE  /\ task' \in [Threads -> Task] /\ task'[t] = s
             /\ \A u \in Threads : u # t => task'[u] = task[u]
  BY <1>1 DEF SetTask, LocalTyped, InOrder
<1> QED BY <1>1 DEF SetStudy, LocalTyped

\* The tasks a thread can be given are in order.
LEMMA TaskTypes ==
    ASSUME LocalTyped
    PROVE  /\ InOrder(Idle) /\ Idle.pc = "idle"
           /\ \A n \in Nat :
                 /\ InOrder(Working(n)) /\ Working(n).pc = "objective"
                 /\ Working(n).number = n /\ Working(n).snapshot = rows
                 /\ LET d == [Idle EXCEPT !.pc = "drawn", !.number = n]
                    IN  InOrder(d) /\ d.pc = "drawn" /\ d.number = n
<1>1. MaxCalls \in Nat /\ rows \in Histories
  BY LocalAssumption DEF LocalTyped, Stored
<1>2. InOrder(Idle) /\ Idle \in Task /\ Idle.pc = "idle"
  BY <1>1 DEF InOrder, Idle, Task
<1>3. ASSUME NEW n \in Nat PROVE InOrder(Working(n)) /\ Working(n).pc = "objective"
                                 /\ Working(n).number = n /\ Working(n).snapshot = rows
  BY <1>1, <1>2, OwnTrialType DEF Working, InOrder, Task
<1>4. ASSUME NEW n \in Nat
      PROVE  LET d == [Idle EXCEPT !.pc = "drawn", !.number = n]
             IN  InOrder(d) /\ d.pc = "drawn" /\ d.number = n
  BY <1>1, <1>2 DEF InOrder, Task
<1> QED BY <1>2, <1>3, <1>4

\* The history is counted by a natural number, and the direction adopted is one.
LEMMA CountType ==
    ASSUME Stored
    PROVE  CountTrials \in Nat /\ \A d \in Directions : Adopted(d) \in Directions \cup {None}
BY FS_CardinalityType DEF Stored, CountTrials, Adopted

\* A call of the objective on its context changes its trial and nothing else.
LEMMA CallTypes ==
    ASSUME LocalTyped, NEW t \in Threads, NEW trial, ContextCall(t, trial),
           trial \in OwnTrial, trial.number = task[t].trial.number
    PROVE  /\ task' \in [Threads -> Task] /\ \A u \in Threads : InOrder(task'[u])
           /\ \A u \in Threads : task'[u].pc = task[u].pc /\ task'[u].number = task[u].number
                                 /\ task'[u].snapshot = task[u].snapshot
           /\ task[t].pc = "objective" /\ UNCHANGED <<rows, meta, study, saved>>
<1> DEFINE s == [task[t] EXCEPT !.trial = trial, !.calls = @ + 1]
<1>1. task[t] \in Task /\ InOrder(task[t]) /\ task[t].pc = "objective" /\ SetTask(t, s)
  BY DEF LocalTyped, ContextCall
<1>2. task[t].calls + 1 \in 0 .. MaxCalls
  BY <1>1, LocalAssumption DEF ContextCall, Task
<1>3. InOrder(s) /\ s.pc = task[t].pc /\ s.number = task[t].number
      /\ s.snapshot = task[t].snapshot
  <2> DEFINE n == task[t].calls + 1
             r == [task[t] EXCEPT !.trial = trial, !.calls = n]
  <2> HIDE DEF n
  <2>1. r \in Task /\ r.trial = trial /\ r.pc = task[t].pc /\ r.number = task[t].number
        /\ r.snapshot = task[t].snapshot
    BY <1>1, <1>2 DEF Task, n
  <2>2. InOrder(r)
    BY <1>1, <2>1 DEF InOrder
  <2> QED BY <2>1, <2>2 DEF n
<1> HIDE DEF s
<1>4. /\ task' \in [Threads -> Task] /\ task'[t] = s
      /\ \A u \in Threads : u # t => task'[u] = task[u]
      /\ \A u \in Threads : InOrder(task'[u])
  BY <1>1, <1>3, SetTypes
<1> QED BY <1>1, <1>3, <1>4 DEF ContextCall

\* Each change a step makes to a Study leaves it one.
LEMMA StudyTypes ==
    ASSUME LocalTyped, NEW p \in Procs
    PROVE  LET s == study[p]
           IN  /\ s \in Study /\ [s EXCEPT !.pc = "open"] \in Study
               /\ \A x \in {"adopting", "open", "closed"}, d \in Directions \cup {None} :
                     [s EXCEPT !.pc = x, !.direction = d, !.opens = @ + 1] \in Study
               /\ \A n \in Nat :
                     [s EXCEPT !.pc = "running", !.todo = NTrials, !.err = FALSE,
                               !.runs = @ + 1, !.counter = n] \in Study
               /\ [s EXCEPT !.runs = @ + 1, !.err = TRUE] \in Study
               /\ [s EXCEPT !.pc = "open", !.todo = 0] \in Study
               /\ s.todo > 0 => /\ [s EXCEPT !.todo = @ - 1] \in Study
                               /\ [s EXCEPT !.todo = @ - 1, !.counter = @ + 1] \in Study
               /\ [s EXCEPT !.err = TRUE] \in Study
               /\ [s EXCEPT !.pc = "closed", !.direction = None, !.counter = 0,
                            !.todo = 0, !.err = FALSE] \in Study
<1> DEFINE o == study[p].opens + 1
           r == study[p].runs + 1
           c == study[p].counter + 1
           k == study[p].todo - 1
<1>1. study[p] \in Study /\ NTrials \in Nat
  BY LocalAssumption DEF LocalTyped
<1>2. o \in Nat /\ r \in Nat /\ c \in Nat /\ (study[p].todo > 0 => k \in Nat)
  BY <1>1 DEF Study
<1> HIDE DEF o, r, c, k
<1>3. ASSUME NEW x \in {"adopting", "open", "closed"}, NEW d \in Directions \cup {None}
      PROVE  [study[p] EXCEPT !.pc = x, !.direction = d, !.opens = o] \in Study
  BY <1>1, <1>2 DEF Study
<1>4. ASSUME NEW n \in Nat
      PROVE  [study[p] EXCEPT !.pc = "running", !.todo = NTrials, !.err = FALSE,
                              !.runs = r, !.counter = n] \in Study
  BY <1>1, <1>2 DEF Study
<1>5. /\ [study[p] EXCEPT !.runs = r, !.err = TRUE] \in Study
      /\ [study[p] EXCEPT !.pc = "open", !.todo = 0] \in Study
      /\ [study[p] EXCEPT !.pc = "open"] \in Study
      /\ [study[p] EXCEPT !.err = TRUE] \in Study
  BY <1>1, <1>2 DEF Study
<1>6. ASSUME study[p].todo > 0
      PROVE  /\ [study[p] EXCEPT !.todo = k] \in Study
             /\ [study[p] EXCEPT !.todo = k, !.counter = c] \in Study
  BY <1>1, <1>2, <1>6 DEF Study
<1>7. [study[p] EXCEPT !.pc = "closed", !.direction = None, !.counter = 0, !.todo = 0,
                       !.err = FALSE] \in Study
  BY <1>1 DEF Study
<1> QED BY <1>1, <1>3, <1>4, <1>5, <1>6, <1>7, Zenon DEF o, r, c, k

\* A process's own steps keep the types.
LEMMA LocalTypedStep == LocalTyped /\ [Next]_localVars => LocalTyped'
<1> SUFFICES ASSUME LocalTyped, [Next]_localVars PROVE LocalTyped'
  OBVIOUS
<1> USE DEF LocalTyped
<1>1. ASSUME UNCHANGED localVars PROVE LocalTyped'
  BY <1>1 DEF localVars, Stored
<1>2. ASSUME NEW p \in Procs, NEW s \in Study, SetStudy(p, s)
      PROVE  study' \in [Procs -> Study]
  BY <1>2, SetTypes
<1>3. ASSUME NEW p \in Procs
      PROVE  /\ study[p] \in Study /\ CountTrials \in Nat /\ NTrials \in Nat
             /\ study[p].counter \in Nat
             /\ \A d \in Directions : Adopted(d) \in Directions \cup {None}
  BY CountType, LocalAssumption DEF Study
<1>4. ASSUME UNCHANGED <<rows, meta, saved>> PROVE Stored'
  BY <1>4 DEF Stored
<1>5. ASSUME UNCHANGED task
      PROVE  task' \in [Threads -> Task] /\ \A t \in Threads : InOrder(task'[t])
  BY <1>5
<1>6. ASSUME NEW p \in Procs, NEW d \in Directions, OpenLoad(p, d) PROVE LocalTyped'
  <2>1. [study[p] EXCEPT !.pc = IF meta = None THEN "adopting" ELSE "open",
                         !.direction = Adopted(d), !.opens = @ + 1] \in Study
    BY <1>3, StudyTypes
  <2> QED BY <2>1, <1>2, <1>4, <1>5, <1>6 DEF OpenLoad
<1>7. ASSUME NEW p \in Procs, OpenSave(p) PROVE LocalTyped'
  <2>1. [study[p] EXCEPT !.pc = "open"] \in Study
    BY <1>3, StudyTypes
  <2>2. Stored'
    BY <1>3, <1>7 DEF Study, Stored, OpenSave, SaveMeta
  <2> QED BY <2>1, <2>2, <1>2, <1>5, <1>7 DEF OpenSave
<1>8. ASSUME NEW p \in Procs, OpenFails(p) PROVE LocalTyped'
  <2>1. [study[p] EXCEPT !.pc = "closed", !.direction = None, !.opens = @ + 1] \in Study
    BY <1>3, StudyTypes
  <2> QED BY <2>1, <1>2, <1>4, <1>5, <1>8 DEF OpenFails
<1>9. ASSUME NEW p \in Procs, Begin(p) PROVE LocalTyped'
  <2>1. [study[p] EXCEPT !.pc = "running", !.todo = NTrials, !.err = FALSE, !.runs = @ + 1,
                         !.counter = IF p \in Parallel THEN CountTrials ELSE @] \in Study
    BY <1>3, StudyTypes
  <2> QED BY <2>1, <1>2, <1>4, <1>5, <1>9 DEF Begin
<1>10. ASSUME NEW p \in Procs, BeginFails(p) PROVE LocalTyped'
  <2>1. [study[p] EXCEPT !.runs = @ + 1, !.err = TRUE] \in Study
    BY <1>3, StudyTypes
  <2> QED BY <2>1, <1>2, <1>4, <1>5, <1>10 DEF BeginFails
<1>11. ASSUME NEW p \in Procs, Return(p) PROVE LocalTyped'
  <2>1. [study[p] EXCEPT !.pc = "open", !.todo = 0] \in Study
    BY <1>3, StudyTypes
  <2> QED BY <2>1, <1>2, <1>4, <1>5, <1>11 DEF Return
<1>12. ASSUME NEW p \in Procs, NEW t \in ThreadsOf(p), Load(t) \/ Draw(t) PROVE LocalTyped'
  <2>1. t \in Threads /\ Proc[t] = p /\ study[p].todo \in Nat /\ study[p].todo > 0
        /\ study[p].counter \in Nat
    BY <1>3, <1>12 DEF ThreadsOf, Load, Draw, Takes, Study
  <2>2. /\ [study[p] EXCEPT !.todo = @ - 1] \in Study
        /\ [study[p] EXCEPT !.todo = @ - 1, !.counter = @ + 1] \in Study
    BY <1>3, <2>1, StudyTypes
  <2>3. study' \in [Procs -> Study] /\ Stored'
    BY <1>2, <1>4, <1>12, <2>1, <2>2 DEF Load, Draw
  <2>4. \E s : InOrder(s) /\ SetTask(t, s)
    BY <1>3, <1>12, <2>1, TaskTypes DEF Load, Draw
  <2> QED BY <2>1, <2>3, <2>4, SetTypes
<1>13. ASSUME NEW t \in Threads, LoadSnapshot(t) PROVE LocalTyped'
  <2>1. task[t].number \in Nat
    BY <1>13 DEF LoadSnapshot, InOrder
  <2> QED BY <2>1, <1>4, <1>13, TaskTypes, SetTypes DEF LoadSnapshot
<1>14. ASSUME NEW p \in Procs, NEW t \in ThreadsOf(p), TrialLost(t) PROVE LocalTyped'
  <2>1. t \in Threads /\ Proc[t] = p /\ [study[p] EXCEPT !.err = TRUE] \in Study
    BY <1>3, StudyTypes DEF ThreadsOf
  <2> QED BY <2>1, <1>2, <1>4, <1>14, TaskTypes, SetTypes DEF TrialLost
<1>15. ASSUME NEW t \in Threads, NEW o \in Outcome(Vals), Save(t, o) PROVE LocalTyped'
  <2>1. task[t].trial \in OwnTrial
    BY <1>15 DEF Save, InOrder
  <2>2. FinishTrial(task[t].trial, o) \in LocalTrial
    BY <2>1, OwnTrialType
  <2>3. SaveTrial(FinishTrial(task[t].trial, o)) /\ saved' = saved + 1 /\ meta' = meta
    BY <1>15 DEF Save
  <2>4. /\ rows' \in Histories /\ IsFiniteSet(DOMAIN rows')
        /\ \A n \in DOMAIN rows' : rows'[n] = Corrupt \/ rows'[n].number = n
    BY <2>2, <2>3, SaveKeepsTypes
  <2>5. Stored'
    BY <2>3, <2>4 DEF Stored
  <2> QED BY <2>5, <1>15, TaskTypes, SetTypes DEF Save
<1>16. ASSUME NEW t \in Threads, NEW name \in Names, NEW dist \in Dists, NEW v \in dist,
              Suggest(t, name, dist, v)
       PROVE  LocalTyped'
  <2>1. task[t].trial \in OwnTrial /\ v \in Int
    BY <1>16, LocalAssumption DEF Suggest, ContextCall, InOrder
  <2> QED BY <2>1, <1>4, <1>16, OwnTrialType, CallTypes DEF Suggest
<1>17. ASSUME NEW t \in Threads, NEW step \in Steps, NEW v \in Vals, Report(t, step, v)
       PROVE  LocalTyped'
  <2>1. task[t].trial \in OwnTrial
    BY <1>17 DEF Report, ContextCall, InOrder
  <2> QED BY <2>1, <1>4, <1>17, OwnTrialType, CallTypes DEF Report
<1>18. ASSUME NEW p \in Procs, Exit(p) PROVE LocalTyped'
  <2>1. [study[p] EXCEPT !.pc = "closed", !.direction = None, !.counter = 0,
                         !.todo = 0, !.err = FALSE] \in Study
    BY <1>3, StudyTypes
  <2>2. task' \in [Threads -> Task] /\ \A t \in Threads : InOrder(task'[t])
    BY <1>18, TaskTypes DEF Exit, InOrder
  <2>3. <<>> \in Histories /\ IsFiniteSet(DOMAIN <<>>) /\ DOMAIN <<>> = {}
    BY FS_EmptySet, EmptyHistory
  <2>4. Stored'
    BY <1>18, <2>3 DEF Exit, Stored
  <2> QED BY <1>2, <1>18, <2>1, <2>2, <2>4 DEF Exit
<1> QED BY <1>1, <1>6, <1>7, <1>8, <1>9, <1>10, <1>11, <1>12, <1>13, <1>14, <1>15, <1>16,
           <1>17, <1>18 DEF Next, RunStep, ThreadsOf

\* ... and hold at first.
LEMMA LocalTypedInit == LocalInit => LocalTyped
<1> SUFFICES ASSUME LocalInit PROVE LocalTyped
  OBVIOUS
<1>1. Stored
  BY EmptyHistory, FS_EmptySet DEF LocalInit, StorageInit, Stored
<1>2. study \in [Procs -> Study]
  BY DEF LocalInit, Study
<1>3. task \in [Threads -> Task] /\ \A t \in Threads : InOrder(task[t])
  <2>1. InOrder(Idle)
    BY LocalAssumption DEF InOrder, Idle, Task
  <2> QED BY <2>1 DEF LocalInit, InOrder
<1> QED BY <1>1, <1>2, <1>3 DEF LocalTyped

\* LocalTyped says what LocalTypeOK says.
LEMMA LocalTypedIsTypeOK == LocalTyped => LocalTypeOK
<1> SUFFICES ASSUME LocalTyped PROVE LocalTypeOK
  OBVIOUS
<1>1. /\ DOMAIN rows \subseteq Nat
      /\ \A n \in DOMAIN rows :
            rows[n] = Corrupt \/ (rows[n] \in LocalTrial /\ rows[n].number = n)
  BY HistoryParts DEF LocalTyped, Stored
<1>2. ASSUME NEW t \in Threads
      PROVE  /\ task[t].pc \in {"idle", "drawn", "objective"}
             /\ task[t].number \in Nat \cup {None}
             /\ task[t].trial \in LocalTrial \cup {None}
             /\ task[t].pc = "objective" =>
                   DOMAIN task[t].snapshot \subseteq Nat /\ task[t].trial.number = task[t].number
             /\ task[t].calls \in 0 .. MaxCalls
  <2>1. task[t] \in Task /\ InOrder(task[t])
    BY DEF LocalTyped
  <2>2. task[t].pc = "objective" => DOMAIN task[t].snapshot \subseteq Nat
    BY <2>1, HistoryParts DEF InOrder
  <2> QED BY <2>1, <2>2, OwnTrialType DEF InOrder, Task
<1> QED BY <1>1, <1>2 DEF LocalTyped, Stored, LocalTypeOK

\* The variables keep their types, a stored trial sits under its number or cannot be
\* read back, and a trial under way keeps the number it was given: for any processes,
\* threads, storage and faults (study.rs:84-147).
THEOREM LocalTypes == Spec => []LocalTypeOK
<1>1. LocalInit => LocalTyped
  BY LocalTypedInit
<1>2. LocalTyped /\ [Next]_localVars => LocalTyped'
  BY LocalTypedStep
<1>3. LocalTyped => LocalTypeOK
  BY LocalTypedIsTypeOK
<1> QED BY <1>1, <1>2, <1>3, PTL DEF Spec

-----------------------------------------------------------------------------
(* What each step makes of the Study of its process, field by field.        *)

Becomes(p, pc, direction, counter, todo, err, runs, opens) ==
    LET s == study'[p]
    IN  /\ s.pc = pc /\ s.direction = direction /\ s.counter = counter /\ s.todo = todo
        /\ s.err = err /\ s.runs = runs /\ s.opens = opens

\* Opening a study, in one step or in two, and failing to (study.rs:22-50).
LEMMA OpeningMoves ==
    ASSUME LocalTyped, NEW p \in Procs
    PROVE  LET s == study[p]
           IN  /\ \A d \in Directions : OpenLoad(p, d) =>
                     Becomes(p, IF meta = None THEN "adopting" ELSE "open", Adopted(d),
                             s.counter, s.todo, s.err, s.runs, s.opens + 1)
               /\ OpenSave(p) =>
                     Becomes(p, "open", s.direction, s.counter, s.todo, s.err, s.runs, s.opens)
               /\ OpenFails(p) =>
                     Becomes(p, "closed", None, s.counter, s.todo, s.err, s.runs, s.opens + 1)
               /\ Exit(p) => Becomes(p, "closed", None, 0, 0, FALSE, s.runs, s.opens)
<1>1. study \in [Procs -> Study] /\ study[p] \in Study
  BY DEF LocalTyped
<1>2. ASSUME NEW d \in Directions, OpenLoad(p, d)
      PROVE  study'[p] = [study[p] EXCEPT !.pc = IF meta = None THEN "adopting" ELSE "open",
                                          !.direction = Adopted(d), !.opens = @ + 1]
  BY <1>1, <1>2 DEF OpenLoad, SetStudy
<1>3. OpenSave(p) => study'[p] = [study[p] EXCEPT !.pc = "open"]
  BY <1>1 DEF OpenSave, SetStudy
<1>4. OpenFails(p) =>
         study'[p] = [study[p] EXCEPT !.pc = "closed", !.direction = None, !.opens = @ + 1]
  BY <1>1 DEF OpenFails, SetStudy
<1>5. Exit(p) => study'[p] = [study[p] EXCEPT !.pc = "closed", !.direction = None,
                                            !.counter = 0, !.todo = 0, !.err = FALSE]
  BY <1>1 DEF Exit, SetStudy
<1>6. ASSUME NEW d \in Directions, OpenLoad(p, d)
      PROVE  Becomes(p, IF meta = None THEN "adopting" ELSE "open", Adopted(d),
                     study[p].counter, study[p].todo, study[p].err, study[p].runs,
                     study[p].opens + 1)
  BY <1>1, <1>2, <1>6 DEF Becomes, Study
<1>7. OpenSave(p) => Becomes(p, "open", study[p].direction, study[p].counter, study[p].todo,
                             study[p].err, study[p].runs, study[p].opens)
  BY <1>1, <1>3 DEF Becomes, Study
<1>8. OpenFails(p) => Becomes(p, "closed", None, study[p].counter, study[p].todo,
                              study[p].err, study[p].runs, study[p].opens + 1)
  BY <1>1, <1>4 DEF Becomes, Study
<1>9. Exit(p) => Becomes(p, "closed", None, 0, 0, FALSE, study[p].runs, study[p].opens)
  BY <1>1, <1>5 DEF Becomes, Study
<1> QED BY <1>6, <1>7, <1>8, <1>9

\* Beginning a call and returning from it (study.rs:84-160).
LEMMA CallingMoves ==
    ASSUME LocalTyped, NEW p \in Procs
    PROVE  LET s == study[p]
           IN  /\ Begin(p) =>
                     Becomes(p, "running", s.direction,
                             IF p \in Parallel THEN CountTrials ELSE s.counter, NTrials,
                             FALSE, s.runs + 1, s.opens)
               /\ BeginFails(p) =>
                     Becomes(p, s.pc, s.direction, s.counter, s.todo, TRUE, s.runs + 1, s.opens)
               /\ Return(p) =>
                     Becomes(p, "open", s.direction, s.counter, 0, s.err, s.runs, s.opens)
<1>1. study \in [Procs -> Study] /\ study[p] \in Study
  BY DEF LocalTyped
<1>2. Begin(p) => study'[p] =
          [study[p] EXCEPT !.pc = "running", !.todo = NTrials, !.err = FALSE, !.runs = @ + 1,
                           !.counter = IF p \in Parallel THEN CountTrials ELSE @]
  BY <1>1 DEF Begin, SetStudy
<1>3. BeginFails(p) => study'[p] = [study[p] EXCEPT !.runs = @ + 1, !.err = TRUE]
  BY <1>1 DEF BeginFails, SetStudy
<1>4. Return(p) => study'[p] = [study[p] EXCEPT !.pc = "open", !.todo = 0]
  BY <1>1 DEF Return, SetStudy
<1>5. Begin(p) => Becomes(p, "running", study[p].direction,
                          IF p \in Parallel THEN CountTrials ELSE study[p].counter, NTrials,
                          FALSE, study[p].runs + 1, study[p].opens)
  BY <1>1, <1>2 DEF Becomes, Study
<1>6. BeginFails(p) => Becomes(p, study[p].pc, study[p].direction, study[p].counter,
                               study[p].todo, TRUE, study[p].runs + 1, study[p].opens)
  BY <1>1, <1>3 DEF Becomes, Study
<1>7. Return(p) => Becomes(p, "open", study[p].direction, study[p].counter, 0, study[p].err,
                           study[p].runs, study[p].opens)
  BY <1>1, <1>4 DEF Becomes, Study
<1> QED BY <1>5, <1>6, <1>7

\* Taking a trial, and losing one (study.rs:89-147).
LEMMA TrialMoves ==
    ASSUME LocalTyped, NEW p \in Procs, NEW t \in ThreadsOf(p)
    PROVE  LET s == study[p]
           IN  /\ Load(t) =>
                     Becomes(p, s.pc, s.direction, s.counter, s.todo - 1, s.err, s.runs, s.opens)
               /\ Draw(t) =>
                     Becomes(p, s.pc, s.direction, s.counter + 1, s.todo - 1, s.err,
                             s.runs, s.opens)
               /\ TrialLost(t) =>
                     Becomes(p, s.pc, s.direction, s.counter, s.todo, TRUE, s.runs, s.opens)
<1>1. study \in [Procs -> Study] /\ study[p] \in Study /\ Proc[t] = p
  BY DEF LocalTyped, ThreadsOf
<1>2. Load(t) => study'[p] = [study[p] EXCEPT !.todo = @ - 1]
  BY <1>1 DEF Load, SetStudy
<1>3. Draw(t) => study'[p] = [study[p] EXCEPT !.todo = @ - 1, !.counter = @ + 1]
  BY <1>1 DEF Draw, SetStudy
<1>4. TrialLost(t) => study'[p] = [study[p] EXCEPT !.err = TRUE]
  BY <1>1 DEF TrialLost, SetStudy
<1>5. Load(t) => Becomes(p, study[p].pc, study[p].direction, study[p].counter,
                         study[p].todo - 1, study[p].err, study[p].runs, study[p].opens)
  BY <1>1, <1>2 DEF Becomes, Study
<1>6. Draw(t) => Becomes(p, study[p].pc, study[p].direction, study[p].counter + 1,
                         study[p].todo - 1, study[p].err, study[p].runs, study[p].opens)
  BY <1>1, <1>3 DEF Becomes, Study
<1>7. TrialLost(t) => Becomes(p, study[p].pc, study[p].direction, study[p].counter,
                              study[p].todo, TRUE, study[p].runs, study[p].opens)
  BY <1>1, <1>4 DEF Becomes, Study
<1> QED BY <1>5, <1>6, <1>7

-----------------------------------------------------------------------------
(* One process.  Two that open a study together may disagree about its      *)
(* direction, and two that run it together take the same numbers.           *)

OneProcess == \E p : Procs = {p}

\* Until the direction has been recorded there is none, and the process that
\* records it keeps it (study.rs:24-47).
Agreed ==
    /\ DirectionAgrees
    /\ \A p \in Procs : study[p].pc = "adopting" => meta = None

\* Each step keeps that.
LEMMA AgreedStep ==
    ASSUME OneProcess
    PROVE  LocalTyped /\ Agreed /\ [Next]_localVars => Agreed'
<1> SUFFICES ASSUME LocalTyped, Agreed, [Next]_localVars PROVE Agreed'
  OBVIOUS
<1>1. ASSUME NEW p \in Procs PROVE \A q \in Procs : q = p
  BY DEF OneProcess
<1>2. ASSUME NEW p \in Procs, meta' = meta, study'[p].pc \in {"open", "running"},
             study[p].pc \in {"open", "running"}, study'[p].direction = study[p].direction
      PROVE  Agreed'
  BY <1>1, <1>2 DEF Agreed, DirectionAgrees
<1>3. ASSUME NEW p \in Procs, study'[p].pc = "closed" PROVE Agreed'
  BY <1>1, <1>3 DEF Agreed, DirectionAgrees
<1>4. ASSUME UNCHANGED <<meta, study>> PROVE Agreed'
  BY <1>4 DEF Agreed, DirectionAgrees
<1>5. ASSUME NEW p \in Procs, NEW d \in Directions, OpenLoad(p, d) PROVE Agreed'
  <2>1. /\ study'[p].pc = IF meta = None THEN "adopting" ELSE "open"
        /\ study'[p].direction = Adopted(d) /\ meta' = meta
    BY <1>5, OpeningMoves DEF OpenLoad, Becomes
  <2> QED BY <1>1, <2>1 DEF Agreed, DirectionAgrees, Adopted
<1>6. ASSUME NEW p \in Procs, OpenSave(p) PROVE Agreed'
  <2>1. study'[p].pc = "open" /\ study'[p].direction = meta'
    BY <1>6, OpeningMoves DEF OpenSave, SaveMeta, Becomes
  <2> QED BY <1>1, <2>1 DEF Agreed, DirectionAgrees
<1>7. ASSUME NEW p \in Procs, OpenFails(p) \/ Exit(p) PROVE Agreed'
  BY <1>3, <1>7, OpeningMoves DEF Becomes
<1>8. ASSUME NEW p \in Procs, Begin(p) \/ Return(p) PROVE Agreed'
  BY <1>2, <1>8, CallingMoves DEF Begin, Return, Becomes
<1>9. ASSUME NEW p \in Procs, BeginFails(p) PROVE Agreed'
  BY <1>2, <1>9, CallingMoves DEF BeginFails, Becomes
<1>10. ASSUME NEW p \in Procs, NEW t \in ThreadsOf(p), Load(t) \/ Draw(t) \/ TrialLost(t)
       PROVE  Agreed'
  <2>1. meta' = meta /\ study'[p].pc = study[p].pc /\ study'[p].direction = study[p].direction
    BY <1>10, TrialMoves DEF Load, Draw, TrialLost, Becomes
  <2> QED BY <1>1, <2>1 DEF Agreed, DirectionAgrees
<1>11. ASSUME NEW t \in Threads,
              \/ LoadSnapshot(t) \/ \E o \in Outcome(Vals) : Save(t, o)
              \/ \E trial : ContextCall(t, trial)
       PROVE  Agreed'
  BY <1>4, <1>11 DEF LoadSnapshot, Save, ContextCall
<1> QED BY <1>4, <1>5, <1>6, <1>7, <1>8, <1>9, <1>10, <1>11
        DEF Next, RunStep, ThreadsOf, Suggest, Report, localVars

\* A study that one process opens, as often as it likes and whatever fails, is run in
\* the direction that is recorded (study.rs:24-26, "a resumed study can't silently flip
\* direction").  Local_Direction shows two processes that open it at once.
THEOREM OneDirection ==
    ASSUME OneProcess
    PROVE  Spec => []DirectionAgrees
<1>1. LocalInit => LocalTyped /\ Agreed
  BY LocalTypedInit DEF LocalInit, Agreed, DirectionAgrees
<1>2. LocalTyped /\ Agreed /\ [Next]_localVars => LocalTyped' /\ Agreed'
  BY LocalTypedStep, AgreedStep
<1>3. Agreed => DirectionAgrees
  BY DEF Agreed
<1> QED BY <1>1, <1>2, <1>3, PTL DEF Spec

-----------------------------------------------------------------------------
(* The numbers one process gives out.                                       *)

\* A call of optimize_parallel that fails may leave a gap below the numbers it saved,
\* and the next call then counts its way into numbers already used (study.rs:125):
\* either there is no such call, or nothing fails, or there is no next one.
Gapless == Parallel = {} \/ Faults = {} \/ MaxRuns <= 1

InFlight == {t \in Threads : task[t].pc # "idle"}

\* The numbers that are recorded or being worked on.
Taken == DOMAIN rows \cup {task[t].number : t \in InFlight}

\* A number in flight is nobody else's, and not recorded.
Apart ==
    /\ \A t \in InFlight : task[t].number \notin DOMAIN rows
    /\ \A t, u \in InFlight : task[t].number = task[u].number => t = u

\* optimize numbers from the length of a history without gaps.
InSequence == \A p \in Procs \ Parallel :
    /\ Contiguous
    /\ \A t \in InFlight : task[t].number = Cardinality(DOMAIN rows)

\* optimize_parallel has given out the numbers below its counter: as long as nothing has
\* failed every one of them is taken, and then at most one per thread is not recorded.
Missing(p) == (0 .. study[p].counter - 1) \ DOMAIN rows

Drawn == \A p \in Procs \cap Parallel : study[p].pc = "running" =>
    /\ \A n \in Taken : n < study[p].counter
    /\ ~study[p].err => 0 .. study[p].counter - 1 \subseteq Taken
    /\ Cardinality(Missing(p)) <= Cardinality(ThreadsOf(p))

\* When optimize_parallel may be called again the history has no gaps.
Resumable == \A p \in Procs \cap Parallel : study[p].runs < MaxRuns /\ Loadable =>
    IF study[p].pc = "running" THEN ~study[p].err ELSE Contiguous

\* Trials are in flight during a call only, and before the first one there are none.
AtRest == \A t \in InFlight : study[Proc[t]].pc = "running"

Unused == \A p \in Procs : study[p].runs = 0 => rows = <<>> /\ study[p].pc # "running"

TaskInv == Apart /\ InSequence /\ RecordedOnce /\ SnapshotIsPast /\ StaleBound
RunInv  == AtRest /\ Unused /\ Drawn /\ Resumable

\* The inductive invariant of the theorems below.
NumberInv == LocalTyped /\ TaskInv /\ RunInv

-----------------------------------------------------------------------------
(* Counting.                                                                *)

\* The length of a history without gaps is the next free number.
LEMMA CountUp ==
    ASSUME NEW D, IsFiniteSet(D), D = 0 .. Cardinality(D) - 1
    PROVE  LET E == D \cup {Cardinality(D)}
           IN  /\ Cardinality(D) \notin D /\ Cardinality(E) = Cardinality(D) + 1
               /\ E = 0 .. Cardinality(E) - 1
<1>1. Cardinality(D) \in Nat
  BY FS_CardinalityType
<1>2. Cardinality(D) \notin D
  BY <1>1
<1>3. Cardinality(D \cup {Cardinality(D)}) = Cardinality(D) + 1
  BY <1>2, FS_AddElement
<1>4. D \cup {Cardinality(D)} = 0 .. Cardinality(D)
  BY <1>1
<1>5. Cardinality(D \cup {Cardinality(D)}) - 1 = Cardinality(D)
  BY <1>1, <1>3
<1> QED BY <1>2, <1>3, <1>4, <1>5, Zenon

\* The numbers below a natural number have no gaps.
LEMMA UpTo ==
    ASSUME NEW D, NEW c \in Nat, D = 0 .. c - 1
    PROVE  Cardinality(D) = c /\ D = 0 .. Cardinality(D) - 1
BY FS_Interval

\* What a process drew and did not record is finite.
LEMMA MissingFinite ==
    ASSUME NEW p, study[p].counter \in Nat
    PROVE  IsFiniteSet(Missing(p))
<1> DEFINE c == study[p].counter
<1>1. c - 1 \in Int /\ 0 \in Int
  OBVIOUS
<1>2. Missing(p) \in SUBSET (0 .. c - 1)
  BY DEF Missing
<1> HIDE DEF c
<1>3. IsFiniteSet(0 .. c - 1)
  BY <1>1, FS_Interval
<1> QED BY <1>2, <1>3, FS_Subset

\* With one process every thread is its, and optimize has one thread.
LEMMA Alone ==
    ASSUME OneProcess, NEW p \in Procs
    PROVE  /\ \A q \in Procs : q = p
           /\ \A t \in Threads : Proc[t] = p
           /\ ThreadsOf(p) = Threads /\ IsFiniteSet(Threads) /\ Cardinality(Threads) \in Nat
           /\ p \notin Parallel => \A t, u \in Threads : t = u
<1>1. IsFiniteSet(Threads) /\ \A t \in Threads : Proc[t] = p
  BY LocalAssumption DEF OneProcess
<1>2. ThreadsOf(p) = Threads
  BY <1>1 DEF ThreadsOf
<1>3. ASSUME p \notin Parallel, NEW t \in Threads, NEW u \in Threads PROVE t = u
  <2>1. Cardinality(Threads) <= 1
    BY <1>2, <1>3, LocalAssumption DEF ThreadsOf
  <2>2. IsFiniteSet(Threads \ {t}) /\ Cardinality(Threads \ {t}) = Cardinality(Threads) - 1
    BY <1>1, FS_RemoveElement
  <2>3. Cardinality(Threads \ {t}) = 0
    BY <1>1, <2>1, <2>2, FS_CardinalityType
  <2>4. Threads \ {t} = {}
    BY <2>2, <2>3, FS_EmptySet
  <2> QED BY <2>4
<1> QED BY <1>1, <1>2, <1>3, FS_CardinalityType DEF OneProcess

\* Things that some threads have one of each are at most as many as the threads.
LEMMA OnePerThread ==
    ASSUME IsFiniteSet(Threads), NEW F, F \subseteq Threads, NEW has,
           NEW S, S \subseteq {has[t] : t \in F}
    PROVE  Cardinality(S) <= Cardinality(Threads)
<1> DEFINE f == [n \in S |-> CHOOSE t \in F : has[t] = n]
<1>1. \A n \in S : f[n] \in F /\ has[f[n]] = n
  OBVIOUS
<1>2. f \in Injection(S, Threads)
  BY <1>1 DEF Injection, IsInjective
<1> QED BY <1>2, FS_Injection

\* What a snapshot taken now would miss below a number in flight is less than one trial
\* per thread: the trial of that number is missing too, and is not counted.
LEMMA ViewBound ==
    ASSUME OneProcess, NumberInv, NEW t \in InFlight
    PROVE  Cardinality((0 .. task[t].number - 1) \ DOMAIN rows)
               < Cardinality(ThreadsOf(Proc[t]))
<1> DEFINE p == Proc[t]
           n == task[t].number
           V == (0 .. n - 1) \ DOMAIN rows
<1>1. /\ t \in Threads /\ p \in Procs /\ n \in Nat /\ n \notin DOMAIN rows
      /\ study[p].pc = "running" /\ study[p].counter \in Nat
  BY LocalAssumption
     DEF InFlight, NumberInv, LocalTyped, InOrder, TaskInv, RunInv, Apart, AtRest, Study
<1>2. /\ ThreadsOf(p) = Threads /\ IsFiniteSet(Threads) /\ Cardinality(Threads) \in Nat
      /\ p \notin Parallel => \A u \in Threads : u = t
  BY <1>1, Alone
<1>3. CASE p \notin Parallel
  <2>1. V = {}
    <3>1. n = Cardinality(DOMAIN rows) /\ DOMAIN rows = 0 .. Cardinality(DOMAIN rows) - 1
      BY <1>1, <1>3 DEF NumberInv, TaskInv, InSequence, Contiguous
    <3> QED BY <3>1
  <2>2. Cardinality(V) = 0 /\ Cardinality(Threads) # 0
    BY <1>1, <1>2, <2>1, FS_EmptySet
  <2> QED BY <1>2, <2>2
<1>4. CASE p \in Parallel
  <2>1. n < study[p].counter /\ Cardinality(Missing(p)) <= Cardinality(Threads)
    BY <1>1, <1>2, <1>4 DEF NumberInv, RunInv, Drawn, Taken
  <2>2. V \subseteq Missing(p) \ {n} /\ n \in Missing(p)
    BY <1>1, <2>1 DEF Missing
  <2>3. IsFiniteSet(Missing(p))
    BY <1>1, MissingFinite
  <2>4. /\ IsFiniteSet(Missing(p) \ {n})
        /\ Cardinality(Missing(p) \ {n}) = Cardinality(Missing(p)) - 1
    BY <2>2, <2>3, FS_RemoveElement
  <2>5. Cardinality(V) <= Cardinality(Missing(p) \ {n}) /\ IsFiniteSet(V)
    BY <2>2, <2>4, FS_Subset
  <2>6. Cardinality(V) \in Nat /\ Cardinality(Missing(p)) \in Nat
    BY <2>3, <2>5, FS_CardinalityType
  <2> QED BY <1>2, <2>1, <2>4, <2>5, <2>6
<1> QED BY <1>3, <1>4

-----------------------------------------------------------------------------
(* Steps.                                                                   *)

\* What NumberInv says of one process and its threads.
LEMMA InvParts ==
    ASSUME OneProcess, NumberInv, NEW p \in Procs
    PROVE  /\ study[p] \in Study /\ IsFiniteSet(DOMAIN rows) /\ DOMAIN rows \subseteq Nat
           /\ Cardinality(DOMAIN rows) \in Nat /\ saved = Cardinality(DOMAIN rows)
           /\ \A t \in Threads : Proc[t] = p /\ InOrder(task[t]) /\ task[t] \in Task
           /\ \A t \in InFlight : task[t].number \in Nat /\ study[p].pc = "running"
           /\ InFlight \subseteq Threads
<1>1. Stored /\ study \in [Procs -> Study] /\ AtRest /\ RecordedOnce
      /\ \A t \in Threads : InOrder(task[t]) /\ task[t] \in Task
  BY DEF NumberInv, LocalTyped, TaskInv, RunInv
<1>2. /\ IsFiniteSet(DOMAIN rows) /\ DOMAIN rows \subseteq Nat
      /\ Cardinality(DOMAIN rows) \in Nat
  BY <1>1, HistoryParts, FS_CardinalityType DEF Stored
<1> QED BY <1>1, <1>2, Alone DEF InFlight, AtRest, RecordedOnce, InOrder

\* The history stands still, no task begins or ends, and a snapshot that is new is the
\* history: then nothing changes about the numbers.
LEMMA SteadyTasks ==
    ASSUME OneProcess, NumberInv, UNCHANGED <<rows, saved>>,
           \A t \in Threads :
              /\ task'[t].pc = "idle" <=> task[t].pc = "idle"
              /\ task'[t].number = task[t].number
              /\ task'[t].pc = "objective" =>
                    \/ task[t].pc = "objective" /\ task'[t].snapshot = task[t].snapshot
                    \/ task'[t].snapshot = rows
    PROVE  TaskInv' /\ InFlight' = InFlight /\ Taken' = Taken
<1>1. InFlight' = InFlight /\ \A t \in InFlight : t \in Threads
  BY DEF InFlight
<1>2. Taken' = Taken
  BY <1>1 DEF Taken
<1>3. Apart' /\ InSequence' /\ RecordedOnce'
  BY <1>1 DEF NumberInv, TaskInv, Apart, InSequence, RecordedOnce, Contiguous
<1>4. SnapshotIsPast'
  BY DEF NumberInv, TaskInv, SnapshotIsPast, InObjective
<1>5. StaleBound'
  <2> SUFFICES ASSUME NEW t \in InObjective'
               PROVE  Cardinality((0 .. task'[t].number - 1) \ DOMAIN task'[t].snapshot)
                          < Cardinality(ThreadsOf(Proc[t]))
    BY DEF StaleBound, ThreadsOf
  <2>1. t \in Threads /\ task'[t].pc = "objective" /\ t \in InFlight
    BY DEF InObjective, InFlight
  <2>2. CASE task[t].pc = "objective" /\ task'[t].snapshot = task[t].snapshot
    BY <2>1, <2>2 DEF NumberInv, TaskInv, StaleBound, InObjective
  <2>3. CASE task'[t].snapshot = rows
    BY <2>1, <2>3, ViewBound
  <2> QED BY <2>1, <2>2, <2>3
<1> QED BY <1>1, <1>2, <1>3, <1>4, <1>5 DEF TaskInv

\* A call on the context, and the load of a snapshot.
LEMMA QuietStep ==
    ASSUME OneProcess, NumberInv, LocalTyped', NEW t \in Threads,
           LoadSnapshot(t) \/ \E trial : ContextCall(t, trial)
    PROVE  NumberInv'
<1>1. task \in [Threads -> Task] /\ task[t] \in Task /\ InOrder(task[t])
  BY DEF NumberInv, LocalTyped
<1>2. ASSUME LoadSnapshot(t)
      PROVE  TaskInv' /\ InFlight' = InFlight /\ Taken' = Taken /\ UNCHANGED <<rows, study>>
  <2> DEFINE n == task[t].number
  <2>1. n \in Nat /\ task[t].pc = "drawn" /\ SetTask(t, Working(n))
        /\ UNCHANGED <<rows, study, saved>>
    BY <1>1, <1>2 DEF LoadSnapshot, InOrder
  <2>2. Working(n).pc = "objective" /\ Working(n).number = n /\ Working(n).snapshot = rows
        /\ InOrder(Working(n)) /\ LocalTyped
    BY <2>1, TaskTypes DEF NumberInv
  <2>3. task'[t] = Working(n) /\ \A u \in Threads : u # t => task'[u] = task[u]
    BY <2>1, <2>2, SetTypes
  <2> QED BY <2>1, <2>2, <2>3, SteadyTasks
<1>3. ASSUME NEW trial, ContextCall(t, trial)
      PROVE  TaskInv' /\ InFlight' = InFlight /\ Taken' = Taken /\ UNCHANGED <<rows, study>>
  <2>1. /\ task'[t] = [task[t] EXCEPT !.trial = trial, !.calls = @ + 1]
        /\ \A u \in Threads : u # t => task'[u] = task[u]
        /\ UNCHANGED <<rows, study, saved>> /\ task[t].pc = "objective"
    BY <1>1, <1>3 DEF ContextCall, SetTask
  <2>2. task'[t].pc = task[t].pc /\ task'[t].number = task[t].number
        /\ task'[t].snapshot = task[t].snapshot
    BY <1>1, <2>1 DEF Task
  <2> QED BY <2>1, <2>2, SteadyTasks
<1>4. TaskInv' /\ InFlight' = InFlight /\ Taken' = Taken /\ UNCHANGED <<rows, study>>
  BY <1>2, <1>3
<1>5. RunInv'
  BY <1>4 DEF NumberInv, RunInv, AtRest, Unused, Drawn, Missing, Resumable, Loadable, Contiguous
<1> QED BY <1>4, <1>5 DEF NumberInv

\* A study is opened, or cannot be, and a call that cannot begin returns.
LEMMA OpeningStep ==
    ASSUME OneProcess, NumberInv, LocalTyped', NEW p \in Procs,
           \/ OpenSave(p) \/ OpenFails(p) \/ BeginFails(p)
           \/ \E d \in Directions : OpenLoad(p, d)
    PROVE  NumberInv'
<1>1. /\ study[p].pc # "running" /\ study'[p].pc # "running"
      /\ study'[p].runs \in {study[p].runs, study[p].runs + 1}
      /\ UNCHANGED <<rows, task, saved>>
  BY OpeningMoves, CallingMoves
     DEF NumberInv, OpenSave, OpenFails, BeginFails, OpenLoad, Becomes
<1>2. study[p].runs \in Nat /\ MaxRuns \in Nat /\ LocalTyped
  BY LocalAssumption, InvParts DEF Study, NumberInv
<1>3. TaskInv' /\ InFlight' = InFlight
  <2>1. \A t \in Threads : /\ task'[t].pc = "idle" <=> task[t].pc = "idle"
                           /\ task'[t].number = task[t].number
                           /\ task'[t].pc = "objective" =>
                                 task[t].pc = "objective" /\ task'[t].snapshot = task[t].snapshot
    BY <1>1
  <2> QED BY <1>1, <2>1, SteadyTasks
<1>4. RunInv'
  BY <1>1, <1>2, <1>3, Alone
     DEF NumberInv, RunInv, AtRest, Unused, Drawn, Resumable, Loadable, Contiguous, InFlight
<1> QED BY <1>3, <1>4 DEF NumberInv

\* A call begins.
LEMMA BeginStep ==
    ASSUME OneProcess, NumberInv, LocalTyped', NEW p \in Procs, Begin(p)
    PROVE  NumberInv'
<1>1. /\ study[p].pc = "open" /\ study'[p].pc = "running" /\ ~study'[p].err
      /\ study'[p].runs = study[p].runs + 1
      /\ p \in Parallel => Loadable /\ study'[p].counter = Cardinality(DOMAIN rows)
      /\ study[p].runs < MaxRuns /\ UNCHANGED <<rows, task, saved>>
  BY CallingMoves DEF NumberInv, Begin, Becomes, CountTrials
<1>2. /\ study[p].runs \in Nat /\ \A q \in Procs : q = p
      /\ Cardinality(DOMAIN rows) \in Nat /\ ThreadsOf(p) = Threads
      /\ Cardinality(Threads) \in Nat
  BY InvParts, Alone DEF Study
<1>3. InFlight = {}
  BY <1>1, InvParts
<1>4. TaskInv' /\ InFlight' = {} /\ Taken' = DOMAIN rows
  <2>1. \A t \in Threads : /\ task'[t].pc = "idle" <=> task[t].pc = "idle"
                           /\ task'[t].number = task[t].number
                           /\ task'[t].pc = "objective" =>
                                 task[t].pc = "objective" /\ task'[t].snapshot = task[t].snapshot
    BY <1>1
  <2> QED BY <1>1, <1>3, <2>1, SteadyTasks DEF Taken
<1>5. Drawn'
  <2> SUFFICES ASSUME p \in Parallel
               PROVE  /\ \A n \in DOMAIN rows : n < Cardinality(DOMAIN rows)
                      /\ 0 .. Cardinality(DOMAIN rows) - 1 \subseteq DOMAIN rows
                      /\ Cardinality((0 .. Cardinality(DOMAIN rows) - 1) \ DOMAIN rows)
                             <= Cardinality(Threads)
    BY <1>1, <1>2, <1>4 DEF Drawn, Missing, ThreadsOf
  <2>1. DOMAIN rows = 0 .. Cardinality(DOMAIN rows) - 1
    BY <1>1 DEF NumberInv, RunInv, Resumable, Contiguous
  <2>2. (0 .. Cardinality(DOMAIN rows) - 1) \ DOMAIN rows = {}
    BY <2>1
  <2>3. Cardinality((0 .. Cardinality(DOMAIN rows) - 1) \ DOMAIN rows) <= Cardinality(Threads)
    BY <1>2, <2>2, FS_EmptySet
  <2>4. \A n \in DOMAIN rows : n < Cardinality(DOMAIN rows)
    BY <1>2, <2>1
  <2>5. 0 .. Cardinality(DOMAIN rows) - 1 \subseteq DOMAIN rows
    BY <2>1
  <2> QED BY <2>3, <2>4, <2>5
<1>6. AtRest' /\ Unused' /\ Resumable'
  BY <1>1, <1>2, <1>4 DEF AtRest, Unused, Resumable
<1> QED BY <1>4, <1>5, <1>6 DEF NumberInv, RunInv

\* A call returns: if nothing has failed the numbers drawn are all recorded.
LEMMA ReturnStep ==
    ASSUME OneProcess, NumberInv, LocalTyped', NEW p \in Procs, Return(p)
    PROVE  NumberInv'
<1>1. /\ study[p].pc = "running" /\ study'[p].pc = "open" /\ study'[p].runs = study[p].runs
      /\ \A t \in ThreadsOf(p) : task[t].pc = "idle"
  BY CallingMoves DEF NumberInv, Return, Becomes
<1>2. /\ study[p] \in Study /\ \A q \in Procs : q = p
      /\ DOMAIN rows \subseteq Nat /\ ThreadsOf(p) = Threads
  BY InvParts, Alone
<1>3. InFlight = {}
  BY <1>1, <1>2 DEF InFlight
<1>4. UNCHANGED <<rows, task, saved>>
  BY DEF Return
<1>5. TaskInv' /\ InFlight' = {} /\ Taken = DOMAIN rows
  <2>1. \A t \in Threads : /\ task'[t].pc = "idle" <=> task[t].pc = "idle"
                           /\ task'[t].number = task[t].number
                           /\ task'[t].pc = "objective" =>
                                 task[t].pc = "objective" /\ task'[t].snapshot = task[t].snapshot
    BY <1>4
  <2> QED BY <1>3, <1>4, <2>1, SteadyTasks DEF Taken
<1>6. Resumable'
  <2> SUFFICES ASSUME p \in Parallel, study[p].runs < MaxRuns, Loadable PROVE Contiguous
    BY <1>1, <1>2, <1>4 DEF Resumable, Loadable, Contiguous
  <2>1. /\ \A n \in DOMAIN rows : n < study[p].counter
        /\ 0 .. study[p].counter - 1 \subseteq DOMAIN rows
    BY <1>1, <1>5 DEF NumberInv, RunInv, Resumable, Drawn
  <2>2. study[p].counter \in Nat
    BY <1>2 DEF Study
  <2>3. \A n \in DOMAIN rows : n \in 0 .. study[p].counter - 1
    BY <1>2, <2>1, <2>2
  <2>4. DOMAIN rows = 0 .. study[p].counter - 1
    BY <2>1, <2>3
  <2> QED BY <2>2, <2>4, UpTo DEF Contiguous
<1>7. AtRest' /\ Unused' /\ Drawn'
  BY <1>1, <1>2, <1>4, <1>5 DEF NumberInv, RunInv, AtRest, Unused, Drawn
<1> QED BY <1>5, <1>6, <1>7 DEF NumberInv, RunInv

\* optimize takes a trial: it has one thread, and the number is free.
LEMMA LoadStep ==
    ASSUME OneProcess, NumberInv, LocalTyped', NEW p \in Procs, NEW t \in ThreadsOf(p), Load(t)
    PROVE  NumberInv'
<1> DEFINE n == Cardinality(DOMAIN rows)
<1>1. /\ LocalTyped /\ t \in Threads /\ Proc[t] = p /\ n \in Nat /\ study[p] \in Study
      /\ \A q \in Procs : q = p
  BY InvParts, Alone DEF ThreadsOf, NumberInv
<1>2. /\ p \notin Parallel /\ study[p].pc = "running" /\ SetTask(t, Working(n))
      /\ UNCHANGED <<rows, saved>>
      /\ study'[p].pc = "running" /\ study'[p].runs = study[p].runs
  BY <1>1, TrialMoves DEF Load, Takes, Becomes, CountTrials
<1>3. /\ Threads = {t} /\ task'[t].pc = "objective" /\ task'[t].number = n
      /\ task'[t].snapshot = rows
  <2>1. /\ InOrder(Working(n)) /\ Working(n).pc = "objective"
        /\ Working(n).number = n /\ Working(n).snapshot = rows
    BY <1>1, TaskTypes
  <2>2. task'[t] = Working(n)
    BY <1>1, <1>2, <2>1, SetTypes
  <2>3. \A u \in Threads : u = t
    BY <1>1, <1>2, Alone
  <2> QED BY <1>1, <2>1, <2>2, <2>3
<1>4. InFlight' = {t}
  BY <1>3 DEF InFlight
<1>5. DOMAIN rows = 0 .. n - 1 /\ n \notin DOMAIN rows
  BY <1>1, <1>2 DEF NumberInv, TaskInv, InSequence, Contiguous
<1>6. Apart' /\ InSequence' /\ RecordedOnce' /\ SnapshotIsPast'
  BY <1>2, <1>3, <1>4, <1>5
     DEF NumberInv, TaskInv, Apart, InSequence, RecordedOnce, Contiguous, SnapshotIsPast,
         InObjective
<1>7. StaleBound'
  <2>1. (0 .. n - 1) \ DOMAIN rows = {}
    BY <1>5
  <2>2. ThreadsOf(p) = {t} /\ Cardinality({t}) = 1
    BY <1>1, <1>3, FS_Singleton DEF ThreadsOf
  <2>3. Cardinality((0 .. n - 1) \ DOMAIN rows) = 0
    BY <2>1, FS_EmptySet, Zenon
  <2>4. Cardinality((0 .. n - 1) \ DOMAIN rows) < Cardinality(ThreadsOf(p))
    BY <2>2, <2>3
  <2> QED BY <1>1, <1>3, <2>4 DEF StaleBound, InObjective, ThreadsOf
<1>8. RunInv'
  BY <1>1, <1>2, <1>4 DEF NumberInv, RunInv, AtRest, Unused, Drawn, Resumable
<1> QED BY <1>6, <1>7, <1>8 DEF NumberInv, TaskInv

\* optimize_parallel draws a number: the counter is above every number taken.
LEMMA DrawStep ==
    ASSUME OneProcess, NumberInv, LocalTyped', NEW p \in Procs, NEW t \in ThreadsOf(p), Draw(t)
    PROVE  NumberInv'
<1> DEFINE n == study[p].counter
<1>1. /\ LocalTyped /\ t \in Threads /\ Proc[t] = p /\ n \in Nat
      /\ (\A q \in Procs : q = p) /\ \A u \in Threads : Proc[u] = p
      /\ ThreadsOf(p) = Threads /\ IsFiniteSet(Threads) /\ DOMAIN rows \subseteq Nat
      /\ \A u \in InFlight : u \in Threads /\ task[u].number \in Nat
  BY InvParts, Alone DEF ThreadsOf, NumberInv, Study
<1>2. /\ p \in Parallel /\ study[p].pc = "running" /\ task[t].pc = "idle" /\ ~study[p].err
      /\ SetTask(t, [Idle EXCEPT !.pc = "drawn", !.number = n]) /\ UNCHANGED <<rows, saved>>
      /\ study'[p].pc = "running" /\ study'[p].runs = study[p].runs /\ ~study'[p].err
      /\ study'[p].counter = n + 1
  BY <1>1, TrialMoves DEF Draw, Takes, Becomes
<1>3. /\ task'[t].pc = "drawn" /\ task'[t].number = n
      /\ \A u \in Threads : u # t => task'[u] = task[u]
  <2> DEFINE d == [Idle EXCEPT !.pc = "drawn", !.number = n]
  <2>1. InOrder(d) /\ d.pc = "drawn" /\ d.number = n
    BY <1>1, TaskTypes
  <2> HIDE DEF d
  <2>2. task'[t] = d /\ \A u \in Threads : u # t => task'[u] = task[u]
    BY <1>1, <1>2, <2>1, SetTypes DEF d
  <2> QED BY <2>1, <2>2
<1>4. InFlight' = InFlight \cup {t} /\ t \notin InFlight
  BY <1>1, <1>2, <1>3 DEF InFlight
<1>5. Taken' = Taken \cup {n}
  BY <1>1, <1>2, <1>3, <1>4 DEF Taken
<1>6. /\ \A m \in Taken : m < n /\ m \in Nat
      /\ 0 .. n - 1 \subseteq Taken
  BY <1>1, <1>2 DEF NumberInv, RunInv, Drawn, Taken
<1>7. Apart'
  <2>1. n \notin DOMAIN rows /\ \A u \in InFlight : task[u].number # n
    BY <1>1, <1>6 DEF Taken
  <2> QED BY <1>1, <1>2, <1>3, <1>4, <2>1 DEF NumberInv, TaskInv, Apart
<1>8. InSequence' /\ RecordedOnce'
  BY <1>1, <1>2 DEF NumberInv, TaskInv, InSequence, RecordedOnce
<1>9. SnapshotIsPast' /\ StaleBound'
  BY <1>1, <1>2, <1>3
     DEF NumberInv, TaskInv, SnapshotIsPast, StaleBound, InObjective, ThreadsOf
<1>10. Drawn'
  <2>1. \A m \in Taken' : m < n + 1
    BY <1>1, <1>5, <1>6
  <2>2. 0 .. n \subseteq Taken'
    BY <1>1, <1>5, <1>6
  <2>3. (0 .. n) \ DOMAIN rows \subseteq {task'[u].number : u \in InFlight'}
    BY <1>2, <2>2 DEF Taken
  <2>4. Cardinality((0 .. n) \ DOMAIN rows) <= Cardinality(Threads)
    <3> DEFINE has == [u \in Threads |-> task'[u].number]
    <3>1. (0 .. n) \ DOMAIN rows \subseteq {has[u] : u \in InFlight'} /\ InFlight' \subseteq Threads
      BY <1>1, <1>4, <2>3
    <3> HIDE DEF has
    <3> QED BY <1>1, <3>1, OnePerThread
  <2>5. study'[p].counter - 1 = n /\ ThreadsOf(p)' = Threads
    BY <1>1, <1>2 DEF ThreadsOf
  <2>6. Missing(p)' = (0 .. n) \ DOMAIN rows
    BY <1>2, <2>5 DEF Missing
  <2> QED BY <1>1, <1>2, <2>1, <2>2, <2>4, <2>5, <2>6 DEF Drawn
<1>11. AtRest' /\ Unused' /\ Resumable'
  BY <1>1, <1>2, <1>4 DEF NumberInv, RunInv, AtRest, Unused, Resumable, InFlight
<1> QED BY <1>7, <1>8, <1>9, <1>10, <1>11 DEF NumberInv, TaskInv, RunInv

\* A trial is lost.
LEMMA LostStep ==
    ASSUME OneProcess, Gapless, NumberInv, LocalTyped', NEW p \in Procs, NEW t \in ThreadsOf(p),
           TrialLost(t)
    PROVE  NumberInv'
<1>1. /\ LocalTyped /\ t \in Threads /\ Proc[t] = p /\ study[p].runs \in Nat
      /\ (\A q \in Procs : q = p) /\ \A u \in Threads : Proc[u] = p
      /\ \A u \in InFlight : u \in Threads /\ study[p].pc = "running"
  BY InvParts, Alone DEF ThreadsOf, NumberInv, Study
<1>2. /\ study[p].pc = "running" /\ SetTask(t, Idle) /\ UNCHANGED <<rows, saved>>
      /\ study'[p].pc = "running" /\ study'[p].runs = study[p].runs /\ study'[p].err
      /\ study'[p].counter = study[p].counter
      /\ "storage" \in Faults \/ ~Loadable
  BY <1>1, TrialMoves DEF TrialLost, Loads, Takes, Becomes, InFlight
<1>3. task'[t].pc = "idle" /\ \A u \in Threads : u # t => task'[u] = task[u]
  <2>1. InOrder(Idle) /\ Idle.pc = "idle"
    BY <1>1, TaskTypes
  <2> QED BY <1>1, <1>2, <2>1, SetTypes
<1>4. InFlight' = InFlight \ {t} /\ \A u \in InFlight' : u # t /\ task'[u] = task[u]
  BY <1>1, <1>3 DEF InFlight
<1>5. Taken' \subseteq Taken
  BY <1>2, <1>4 DEF Taken
<1>6. Apart' /\ InSequence' /\ RecordedOnce'
  BY <1>2, <1>4 DEF NumberInv, TaskInv, Apart, InSequence, RecordedOnce, Contiguous
<1>7. SnapshotIsPast' /\ StaleBound'
  BY <1>1, <1>2, <1>3
     DEF NumberInv, TaskInv, SnapshotIsPast, StaleBound, InObjective, ThreadsOf
<1>8. Drawn'
  BY <1>1, <1>2, <1>5 DEF NumberInv, RunInv, Drawn, Missing, ThreadsOf
<1>9. Resumable'
  <2> SUFFICES ASSUME p \in Parallel, study[p].runs < MaxRuns, Loadable PROVE FALSE
    BY <1>1, <1>2 DEF Resumable, Loadable
  <2>1. MaxRuns <= 1 /\ MaxRuns \in Nat
    BY <1>2, LocalAssumption DEF Gapless
  <2>2. study[p].runs = 0
    BY <1>1, <2>1
  <2> QED BY <1>2, <2>2 DEF NumberInv, RunInv, Unused
<1>10. AtRest' /\ Unused'
  BY <1>1, <1>2, <1>4 DEF NumberInv, RunInv, AtRest, Unused
<1> QED BY <1>6, <1>7, <1>8, <1>9, <1>10 DEF NumberInv, TaskInv, RunInv

\* A trial is saved, under the number it was given.
LEMMA SaveStep ==
    ASSUME OneProcess, NumberInv, LocalTyped', NEW p \in Procs, NEW t \in ThreadsOf(p),
           NEW o \in Outcome(Vals), Save(t, o)
    PROVE  NumberInv'
<1> DEFINE n == task[t].number
           u == FinishTrial(task[t].trial, o)
<1>1. /\ LocalTyped /\ t \in Threads /\ t \in InFlight /\ IsFiniteSet(DOMAIN rows)
      /\ (\A q \in Procs : q = p) /\ \A v \in Threads : Proc[v] = p
      /\ study[p].pc = "running" /\ study[p] \in Study
      /\ InOrder(task[t]) /\ task[t].pc = "objective"
      /\ p \notin Parallel => \A v \in Threads : v = t
  BY InvParts, Alone DEF ThreadsOf, NumberInv, Save, InFlight
<1>2. u \in LocalTrial /\ u.number = n
  BY <1>1, OwnTrialType DEF InOrder
<1>3. SaveTrial(u) /\ SetTask(t, Idle) /\ saved' = saved + 1 /\ study' = study
  BY DEF Save
<1>4. /\ DOMAIN rows' = DOMAIN rows \cup {n}
      /\ \A m \in DOMAIN rows : m # n => rows'[m] = rows[m]
  BY <1>1, <1>2, <1>3, SaveKeepsTypes DEF LocalTyped
<1>5. task'[t].pc = "idle" /\ \A v \in Threads : v # t => task'[v] = task[v]
  <2>1. InOrder(Idle) /\ Idle.pc = "idle"
    BY <1>1, TaskTypes
  <2> QED BY <1>1, <1>3, <2>1, SetTypes
<1>6. /\ InFlight' = InFlight \ {t} /\ \A v \in InFlight' : v # t /\ task'[v] = task[v]
      /\ \A v \in InFlight : v \in Threads
  BY <1>5 DEF InFlight
<1>7. n \notin DOMAIN rows /\ \A v \in InFlight' : task[v].number # n
  BY <1>1, <1>6 DEF NumberInv, TaskInv, Apart
<1>8. \A m \in DOMAIN rows : m \in DOMAIN rows' /\ rows'[m] = rows[m]
  BY <1>4, <1>7
<1>9. Taken' = Taken
  BY <1>1, <1>4, <1>6 DEF Taken
<1>10. Loadable' => Loadable
  BY <1>8 DEF Loadable
<1>11. Apart'
  BY <1>4, <1>6, <1>7 DEF NumberInv, TaskInv, Apart
<1>12. InSequence'
  <2> SUFFICES ASSUME p \notin Parallel PROVE Contiguous' /\ InFlight' = {}
    BY <1>1 DEF InSequence
  <2>1. Contiguous /\ n = Cardinality(DOMAIN rows)
    BY <1>1 DEF NumberInv, TaskInv, InSequence
  <2> QED BY <1>1, <1>4, <1>6, <2>1, CountUp DEF Contiguous
<1>13. RecordedOnce'
  <2>1. RecordedOnce /\ IsFiniteSet(DOMAIN rows) /\ saved' = saved + 1
    BY <1>1, <1>3 DEF NumberInv, TaskInv
  <2>2. DOMAIN rows' = DOMAIN rows \cup {n} /\ n \notin DOMAIN rows
    BY <1>4, <1>7
  <2> HIDE DEF n, u
  <2>3. Cardinality(DOMAIN rows') = Cardinality(DOMAIN rows) + 1
    BY <2>1, <2>2, FS_AddElement
  <2> QED BY <2>1, <2>3 DEF RecordedOnce
<1>14. SnapshotIsPast'
  <2> SUFFICES ASSUME NEW v \in InObjective', NEW m \in DOMAIN task'[v].snapshot
               PROVE  m \in DOMAIN rows' /\ rows'[m] = task'[v].snapshot[m]
    BY DEF SnapshotIsPast
  <2>1. v \in InObjective /\ task'[v] = task[v]
    BY <1>1, <1>5 DEF InObjective
  <2>2. m \in DOMAIN rows /\ rows[m] = task[v].snapshot[m]
    BY <2>1 DEF NumberInv, TaskInv, SnapshotIsPast
  <2> QED BY <1>8, <2>1, <2>2
<1>15. StaleBound'
  BY <1>1, <1>5 DEF NumberInv, TaskInv, StaleBound, InObjective, ThreadsOf
<1>16. Drawn'
  <2> SUFFICES ASSUME p \in Parallel
               PROVE  Cardinality(Missing(p)') <= Cardinality(ThreadsOf(p))
    BY <1>1, <1>3, <1>9 DEF NumberInv, RunInv, Drawn, ThreadsOf, Missing
  <2>1. Cardinality(Missing(p)) <= Cardinality(ThreadsOf(p))
    BY <1>1 DEF NumberInv, RunInv, Drawn
  <2>2. Missing(p)' \in SUBSET Missing(p)
    BY <1>3, <1>4 DEF Missing
  <2>3. IsFiniteSet(Missing(p))
    BY <1>1, MissingFinite DEF Study
  <2>4. /\ Cardinality(Missing(p)') <= Cardinality(Missing(p)) /\ IsFiniteSet(Missing(p)')
    BY <2>2, <2>3, FS_Subset
  <2>5. Cardinality(Missing(p)') \in Nat /\ Cardinality(Missing(p)) \in Nat
        /\ Cardinality(ThreadsOf(p)) \in Nat
    BY <2>3, <2>4, FS_CardinalityType, Alone
  <2> QED BY <2>1, <2>4, <2>5
<1>17. AtRest' /\ Unused' /\ Resumable'
  BY <1>1, <1>3, <1>6, <1>10 DEF NumberInv, RunInv, AtRest, Unused, Resumable
<1> QED BY <1>11, <1>12, <1>13, <1>14, <1>15, <1>16, <1>17 DEF NumberInv, TaskInv, RunInv

\* The process ends, and what it was working on with it: a history in memory is gone.
LEMMA ExitStep ==
    ASSUME OneProcess, Gapless, NumberInv, LocalTyped', NEW p \in Procs, Exit(p)
    PROVE  NumberInv'
<1>1. /\ LocalTyped /\ study[p].runs \in Nat /\ DOMAIN rows \subseteq Nat
      /\ (\A q \in Procs : q = p) /\ \A t \in Threads : Proc[t] = p
      /\ saved = Cardinality(DOMAIN rows)
  BY InvParts, Alone DEF NumberInv, Study
<1>2. /\ study'[p].pc = "closed" /\ study'[p].runs = study[p].runs
      /\ "crash" \in Faults \/ study[p].pc = "open"
      /\ \A t \in Threads : task'[t] = Idle
      /\ \/ rows' = <<>> /\ saved' = 0
         \/ UNCHANGED <<rows, saved>>
  BY <1>1, OpeningMoves DEF Exit, Becomes
<1>3. InFlight' = {} /\ InObjective' = {}
  BY <1>2 DEF InFlight, InObjective, Idle
<1>4. DOMAIN <<>> = {} /\ Cardinality({}) = 0 /\ {} = 0 .. 0 - 1
  BY FS_EmptySet
<1>5. Contiguous => Contiguous'
  BY <1>2, <1>4 DEF Contiguous
<1>6. Apart' /\ InSequence' /\ SnapshotIsPast' /\ StaleBound'
  BY <1>3, <1>5 DEF NumberInv, TaskInv, Apart, InSequence, SnapshotIsPast, StaleBound
<1>7. RecordedOnce'
  BY <1>1, <1>2, <1>4 DEF RecordedOnce
<1>8. AtRest' /\ Unused' /\ Drawn'
  BY <1>1, <1>2, <1>3 DEF NumberInv, RunInv, AtRest, Unused, Drawn
<1>9. Resumable'
  <2> SUFFICES ASSUME p \in Parallel, study[p].runs < MaxRuns, Loadable' PROVE Contiguous'
    BY <1>1, <1>2 DEF Resumable
  <2>1. CASE rows' = <<>>
    BY <1>4, <2>1 DEF Contiguous
  <2>2. CASE rows' = rows /\ study[p].pc = "open"
    BY <1>5, <2>2 DEF NumberInv, RunInv, Resumable, Loadable
  <2>3. CASE rows' = rows /\ "crash" \in Faults
    <3>1. MaxRuns <= 1 /\ MaxRuns \in Nat
      BY <2>3, LocalAssumption DEF Gapless
    <3>2. study[p].runs = 0
      BY <1>1, <3>1
    <3>3. rows = <<>>
      BY <3>2 DEF NumberInv, RunInv, Unused
    <3> QED BY <1>4, <2>3, <3>3 DEF Contiguous
  <2> QED BY <1>2, <2>1, <2>2, <2>3
<1> QED BY <1>6, <1>7, <1>8, <1>9 DEF NumberInv, TaskInv, RunInv

\* Every step keeps the invariant ...
LEMMA NumberInvStep ==
    ASSUME OneProcess, Gapless
    PROVE  NumberInv /\ [Next]_localVars => NumberInv'
<1> SUFFICES ASSUME NumberInv, [Next]_localVars PROVE NumberInv'
  OBVIOUS
<1>1. LocalTyped'
  BY LocalTypedStep DEF NumberInv
<1>2. CASE UNCHANGED localVars
  BY <1>1, <1>2
     DEF localVars, NumberInv, TaskInv, RunInv, InFlight, Taken, Apart, InSequence,
         Contiguous, RecordedOnce, SnapshotIsPast, StaleBound, InObjective, ThreadsOf, AtRest,
         Unused, Drawn, Missing, Resumable, Loadable
<1>3. ASSUME NEW p \in Procs, RunStep(p) PROVE NumberInv'
  <2>1. CASE OpenSave(p) \/ Return(p)
    BY <1>1, <2>1, OpeningStep, ReturnStep
  <2>2. ASSUME NEW t \in ThreadsOf(p), Load(t) \/ Draw(t) \/ TrialLost(t) PROVE NumberInv'
    BY <1>1, <2>2, LoadStep, DrawStep, LostStep
  <2>3. ASSUME NEW t \in ThreadsOf(p), LoadSnapshot(t) \/ \E trial : ContextCall(t, trial)
        PROVE  NumberInv'
    BY <1>1, <2>3, QuietStep DEF ThreadsOf
  <2>4. ASSUME NEW t \in ThreadsOf(p), NEW o \in Outcome(Vals), Save(t, o) PROVE NumberInv'
    BY <1>1, <2>4, SaveStep
  <2> QED BY <1>3, <2>1, <2>2, <2>3, <2>4 DEF RunStep, Suggest, Report
<1>4. ASSUME NEW p \in Procs,
             \/ OpenFails(p) \/ Begin(p) \/ BeginFails(p) \/ Exit(p)
             \/ \E d \in Directions : OpenLoad(p, d)
      PROVE  NumberInv'
  BY <1>1, <1>4, OpeningStep, BeginStep, ExitStep
<1> QED BY <1>2, <1>3, <1>4 DEF Next

\* ... and it holds of a study that does not exist yet.
LEMMA NumberInvInit == LocalInit => NumberInv
<1> SUFFICES ASSUME LocalInit PROVE NumberInv
  OBVIOUS
<1>1. LocalTyped
  BY LocalTypedInit
<1>2. /\ rows = <<>> /\ saved = 0 /\ DOMAIN <<>> = {} /\ Cardinality({}) = 0
      /\ {} = 0 .. 0 - 1 /\ \A p \in Procs : study[p].pc = "closed"
  BY FS_EmptySet DEF LocalInit, StorageInit
<1>3. InFlight = {} /\ InObjective = {}
  BY DEF LocalInit, InFlight, InObjective, Idle
<1>4. Contiguous
  BY <1>2 DEF Contiguous
<1>5. TaskInv
  BY <1>2, <1>3, <1>4
     DEF TaskInv, Apart, InSequence, RecordedOnce, SnapshotIsPast, StaleBound
<1>6. RunInv
  BY <1>2, <1>3, <1>4 DEF RunInv, AtRest, Unused, Drawn, Resumable
<1> QED BY <1>1, <1>5, <1>6 DEF NumberInv

-----------------------------------------------------------------------------
(* Theorems about the numbers.                                              *)

\* No number is used twice: every trial a process saves, in whatever order its threads
\* end and whatever is lost, is in the history under a number of its own
\* (hyperopt/tests/phase4_parallel.rs:33-38; study.rs:89-97, 125-143).
THEOREM NumbersUsedOnce ==
    ASSUME OneProcess, Gapless
    PROVE  Spec => []RecordedOnce
<1>1. LocalInit => NumberInv
  BY NumberInvInit
<1>2. NumberInv /\ [Next]_localVars => NumberInv'
  BY NumberInvStep
<1>3. NumberInv => RecordedOnce
  BY DEF NumberInv, TaskInv
<1> QED BY <1>1, <1>2, <1>3, PTL DEF Spec

\* optimize leaves no gaps in the history, whatever fails and wherever the process dies,
\* which is why it may number from its length (study.rs:90).
THEOREM NoGaps ==
    ASSUME OneProcess, Parallel = {}
    PROVE  Spec => []Contiguous
<1>1. LocalInit => NumberInv
  BY NumberInvInit
<1>2. NumberInv /\ [Next]_localVars => NumberInv'
  BY NumberInvStep DEF Gapless
<1>3. NumberInv => Contiguous
  BY DEF NumberInv, TaskInv, InSequence, OneProcess
<1> QED BY <1>1, <1>2, <1>3, PTL DEF Spec

\* What a trial is compared with is the past: each trial of its snapshot is in the history,
\* and as it was (study.rs:104-108).
THEOREM SnapshotsAreViews ==
    ASSUME OneProcess, Gapless
    PROVE  Spec => []SnapshotIsPast
<1>1. LocalInit => NumberInv
  BY NumberInvInit
<1>2. NumberInv /\ [Next]_localVars => NumberInv'
  BY NumberInvStep
<1>3. NumberInv => SnapshotIsPast
  BY DEF NumberInv, TaskInv, SnapshotIsPast, InObjective, InFlight
<1> QED BY <1>1, <1>2, <1>3, PTL DEF Spec

\* A trial is not compared with itself, though a trial of its number may have been saved
\* before (successive_halving.rs:89, "the current trial is not in the snapshot").
THEOREM TrialsLeaveThemselvesOut ==
    ASSUME OneProcess, Gapless
    PROVE  Spec => []SnapshotExcludesSelf
<1>1. LocalInit => NumberInv
  BY NumberInvInit
<1>2. NumberInv /\ [Next]_localVars => NumberInv'
  BY NumberInvStep
<1>3. NumberInv => SnapshotExcludesSelf
  BY DEF NumberInv, TaskInv, Apart, SnapshotIsPast, SnapshotExcludesSelf, InObjective,
         InFlight
<1> QED BY <1>1, <1>2, <1>3, PTL DEF Spec

\* How stale a snapshot can be when it is taken: fewer trials below its own number are
\* missing from it than there are threads, lost ones included (study.rs:104-106).
THEOREM StaleByThreads ==
    ASSUME OneProcess, Gapless
    PROVE  Spec => []StaleBound
<1>1. LocalInit => NumberInv
  BY NumberInvInit
<1>2. NumberInv /\ [Next]_localVars => NumberInv'
  BY NumberInvStep
<1>3. NumberInv => StaleBound
  BY DEF NumberInv, TaskInv
<1> QED BY <1>1, <1>2, <1>3, PTL DEF Spec

-----------------------------------------------------------------------------
(* The history is a ledger.                                                 *)

\* Without a NaN in it a trial is kept as it is by either backend
\* (sqlite.rs:14-16, "faithfully round-tripping").
LEMMA EncodeFaithful ==
    ASSUME NaN \notin Vals, NEW t \in OwnTrial
    PROVE  Encode(t) = t /\ t # Corrupt
<1>1. \A e \in DOMAIN t.intermediate_values : t.intermediate_values[e].val # NaN
  <2>1. t.intermediate_values \in Seq(Entry(Steps, Vals))
    BY DEF OwnTrial, TrialType
  <2>2. \A e \in DOMAIN t.intermediate_values : t.intermediate_values[e] \in Entry(Steps, Vals)
    BY <2>1
  <2> QED BY <2>2 DEF Entry
<1>2. t \in LocalTrial /\ t # Corrupt
  BY OwnTrialType, LocalAssumption DEF LocalTrial
<1>3. t.value # NaN
  BY SpecialValues DEF OwnTrial, TrialType
<1>4. [t EXCEPT !.value = IF @ = NaN THEN None ELSE @] = t
  BY <1>3 DEF OwnTrial, TrialType
<1> QED BY <1>1, <1>2, <1>4, StorageAssumption DEF Encode

\* A trial that is saved enters the history, under a free number.
LEMMA SaveEnters ==
    ASSUME OneProcess, NumberInv, NaN \notin Vals, NEW t \in Threads, NEW o \in Outcome(Vals),
           Save(t, o)
    PROVE  Ledger!LedgerNext
<1> DEFINE u == FinishTrial(task[t].trial, o)
           e == Encode(u)
<1>1. /\ InOrder(task[t]) /\ task[t].pc = "objective" /\ SaveTrial(u)
      /\ task[t].number \notin DOMAIN rows
  BY DEF NumberInv, LocalTyped, TaskInv, Apart, InFlight, Save
<1>2. u \in OwnTrial /\ u.number = task[t].number
  BY <1>1, OwnTrialType DEF InOrder
<1>3. e.number = u.number
  BY <1>2, EncodeFaithful
<1> HIDE DEF u, e
<1>4. rows' = [n \in DOMAIN rows \cup {e.number} |-> IF n = e.number THEN e ELSE rows[n]]
  BY <1>1, <1>3 DEF SaveTrial, e
<1>5. e.number \in (DOMAIN rows') \ DOMAIN rows /\ rows'[e.number] = e
  BY <1>1, <1>2, <1>3, <1>4
<1>6. Ledger!Enter
  BY <1>4, <1>5 DEF Ledger!Enter, Ledger!Put
<1> QED BY <1>6 DEF Ledger!LedgerNext

\* The stored history of a study that one process runs, opened as often as it likes, is a
\* ledger: a number is used once and an ended trial stays as it is.  InMemoryStorage
\* forgets a history with its process, and a trial with a NaN in a report can be stored
\* but not read back (Local_NaN).
THEOREM LocalIsLedger ==
    ASSUME OneProcess, Gapless, Backend = "sqlite", NaN \notin Vals
    PROVE  Spec => IsLedger
<1>1. LocalInit => NumberInv /\ Ledger!LedgerInit
  BY NumberInvInit DEF LocalInit, StorageInit, Ledger!LedgerInit
<1>2. NumberInv /\ [Next]_localVars => NumberInv'
  BY NumberInvStep
<1>3. NumberInv /\ [Next]_localVars => [Ledger!LedgerNext]_rows
  <2> SUFFICES ASSUME NumberInv, [Next]_localVars, rows' # rows PROVE Ledger!LedgerNext
    OBVIOUS
  <2>1. PICK p \in Procs : \E t \in ThreadsOf(p), o \in Outcome(Vals) : Save(t, o)
    BY DEF Next, localVars, OpenLoad, OpenFails, Begin, BeginFails, Exit, RunStep, OpenSave,
           Return, Load, Draw, LoadSnapshot, TrialLost, Suggest, Report, ContextCall
  <2> QED BY <2>1, SaveEnters DEF ThreadsOf
<1> QED BY <1>1, <1>2, <1>3, PTL DEF Spec, IsLedger, Ledger!LedgerSpec

-----------------------------------------------------------------------------
(* A call that returns Ok has run all its trials.                           *)

Smooth == Faults = {} /\ NaN \notin Vals

\* Nothing was left undone: nothing failed and the history outlived every opening of the
\* study, or there was one call, in one opening.  A call that follows a failed or
\* interrupted one does not make up for the trials that one lost.
Uninterrupted ==
    \/ Smooth /\ (Backend = "sqlite" \/ MaxOpens <= 1)
    \/ MaxRuns <= 1 /\ MaxOpens <= 1

Unfailing == Smooth => Loadable /\ \A p \in Procs : ~study[p].err

Opened == \A p \in Procs : study[p].pc # "closed" => study[p].opens > 0

Settled == \A p \in Procs : study[p].pc # "running" => study[p].todo = 0

\* Every trial of the calls begun so far is recorded, in flight or still to begin, as
\* long as the study is open or can be opened again.
Counted == \A p \in Procs :
    ~study[p].err /\ (study[p].pc = "closed" => study[p].opens < MaxOpens) =>
        Cardinality(DOMAIN rows) + Cardinality(InFlight) + study[p].todo
            = NTrials * study[p].runs

CallInv == Unfailing /\ Opened /\ Settled /\ Counted

\* The trials in flight, step by step.
LEMMA FlightMoves ==
    ASSUME LocalTyped, NEW t \in Threads
    PROVE  /\ Load(t) \/ Draw(t) => t \notin InFlight /\ InFlight' = InFlight \cup {t}
           /\ \A o \in Outcome(Vals) : Save(t, o) =>
                 t \in InFlight /\ InFlight' = InFlight \ {t}
           /\ LoadSnapshot(t) \/ (\E trial : ContextCall(t, trial)) => InFlight' = InFlight
<1>1. /\ task \in [Threads -> Task] /\ CountTrials \in Nat /\ Idle.pc = "idle"
      /\ \A n \in Nat : Working(n).pc = "objective"
      /\ \A n : [Idle EXCEPT !.pc = "drawn", !.number = n].pc = "drawn"
  BY TaskTypes, CountType DEF LocalTyped, Idle
<1>2. ASSUME NEW s, s.pc # "idle", task[t].pc = "idle", SetTask(t, s)
      PROVE  t \notin InFlight /\ InFlight' = InFlight \cup {t}
  BY <1>1, <1>2 DEF SetTask, InFlight
<1>3. ASSUME task[t].pc # "idle", SetTask(t, Idle)
      PROVE  t \in InFlight /\ InFlight' = InFlight \ {t}
  BY <1>1, <1>3 DEF SetTask, InFlight
<1>4. ASSUME NEW s, s.pc # "idle", task[t].pc # "idle", SetTask(t, s)
      PROVE  InFlight' = InFlight
  BY <1>1, <1>4 DEF SetTask, InFlight
<1>5. Load(t) => task[t].pc = "idle" /\ \E s : s.pc # "idle" /\ SetTask(t, s)
  BY <1>1 DEF Load, Takes
<1>6. Draw(t) => task[t].pc = "idle" /\ \E s : s.pc # "idle" /\ SetTask(t, s)
  BY <1>1 DEF Draw, Takes
<1>7. LoadSnapshot(t) => task[t].pc # "idle" /\ \E s : s.pc # "idle" /\ SetTask(t, s)
  BY <1>1 DEF LoadSnapshot, LocalTyped, InOrder
<1>8. ASSUME NEW trial, ContextCall(t, trial)
      PROVE  task[t].pc # "idle" /\ \E s : s.pc # "idle" /\ SetTask(t, s)
  <2> DEFINE s == [task[t] EXCEPT !.trial = trial, !.calls = @ + 1]
  <2>1. task[t].pc = "objective" /\ SetTask(t, s) /\ task[t] \in Task
    BY <1>1, <1>8 DEF ContextCall
  <2>2. s.pc = "objective"
    BY <2>1 DEF Task
  <2> QED BY <2>1, <2>2
<1> QED BY <1>2, <1>3, <1>4, <1>5, <1>6, <1>7, <1>8 DEF Save

\* What the counts are of.
LEMMA CountParts ==
    ASSUME OneProcess, NumberInv, NEW p \in Procs
    PROVE  /\ study[p].runs \in Nat /\ study[p].todo \in Nat /\ study[p].opens \in Nat
           /\ study[p].err \in BOOLEAN
           /\ IsFiniteSet(InFlight) /\ Cardinality(InFlight) \in Nat
           /\ Cardinality(DOMAIN rows) \in Nat
           /\ study[p].pc # "running" => Cardinality(InFlight) = 0
           /\ NTrials \in Nat /\ MaxRuns \in Nat /\ MaxOpens \in Nat
           /\ NTrials * study[p].runs \in Nat
           /\ NTrials * (study[p].runs + 1) = NTrials * study[p].runs + NTrials
<1>1. study[p] \in Study /\ IsFiniteSet(Threads) /\ InFlight \in SUBSET Threads
      /\ Cardinality(DOMAIN rows) \in Nat
  BY InvParts, LocalAssumption
<1>2. IsFiniteSet(InFlight) /\ Cardinality(InFlight) \in Nat
  BY <1>1, FS_Subset, FS_CardinalityType
<1>3. study[p].pc # "running" => InFlight = {}
  BY InvParts
<1>4. study[p].runs \in Nat /\ NTrials \in Nat
  BY <1>1, LocalAssumption DEF Study
<1>5. NTrials * study[p].runs \in Nat
      /\ NTrials * (study[p].runs + 1) = NTrials * study[p].runs + NTrials
  BY <1>4
<1> QED BY <1>1, <1>2, <1>3, <1>4, <1>5, FS_EmptySet, LocalAssumption DEF Study

\* Between calls: the study is opened, or cannot be, and a call begins or cannot.
LEMMA OpeningCounts ==
    ASSUME OneProcess, Uninterrupted, NumberInv, CallInv, NEW p \in Procs,
           \/ OpenSave(p) \/ OpenFails(p) \/ Begin(p) \/ BeginFails(p)
           \/ \E d \in Directions : OpenLoad(p, d)
    PROVE  CallInv'
<1> USE DEF CallInv
<1>1. LocalTyped /\ \A q \in Procs : q = p
  BY Alone DEF NumberInv
<1>2. UNCHANGED <<rows, task>> /\ InFlight' = InFlight /\ study[p].pc # "running"
  BY DEF OpenSave, OpenFails, Begin, BeginFails, OpenLoad, InFlight
<1>3. Loadable' = Loadable /\ study[p].opens \in Nat /\ MaxOpens \in Nat
  BY <1>2, CountParts DEF Loadable
<1>4. CASE OpenSave(p) \/ \E d \in Directions : OpenLoad(p, d)
  <2>1. /\ study'[p].pc # "running" /\ study'[p].todo = study[p].todo
        /\ study'[p].err = study[p].err /\ study'[p].runs = study[p].runs
        /\ study'[p].pc # "closed" /\ study'[p].opens > 0
        /\ study[p].pc = "closed" => study[p].opens < MaxOpens
    <3>1. CASE OpenSave(p)
      BY <1>1, <3>1, OpeningMoves DEF OpenSave, Becomes, Opened
    <3>2. ASSUME NEW d \in Directions, OpenLoad(p, d)
          PROVE  /\ study'[p].pc = IF meta = None THEN "adopting" ELSE "open"
                 /\ study'[p].todo = study[p].todo /\ study'[p].err = study[p].err
                 /\ study'[p].runs = study[p].runs /\ study'[p].opens = study[p].opens + 1
                 /\ study[p].opens < MaxOpens
      BY <1>1, <3>2, OpeningMoves DEF OpenLoad, Becomes
    <3> QED BY <1>3, <1>4, <3>1, <3>2
  <2> QED BY <1>1, <1>2, <1>3, <2>1 DEF Unfailing, Opened, Settled, Counted
<1>5. CASE OpenFails(p)
  <2>1. /\ study'[p].pc = "closed" /\ study'[p].todo = study[p].todo
        /\ study'[p].err = study[p].err /\ study'[p].opens = study[p].opens + 1
        /\ study[p].pc # "running" /\ "storage" \in Faults
    BY <1>1, <1>5, OpeningMoves DEF OpenFails, Becomes
  <2>2. ~Smooth /\ MaxOpens <= 1
    BY <2>1 DEF Smooth, Uninterrupted
  <2>3. Unfailing' /\ Opened' /\ Settled'
    BY <1>1, <2>1, <2>2 DEF Unfailing, Opened, Settled
  <2>4. ~(study'[p].opens < MaxOpens)
    BY <1>3, <2>1, <2>2
  <2> QED BY <1>1, <2>1, <2>3, <2>4 DEF Counted
<1>6. CASE Begin(p)
  <2>1. /\ study'[p].pc = "running" /\ study'[p].todo = NTrials /\ ~study'[p].err
        /\ study'[p].runs = study[p].runs + 1 /\ study'[p].opens = study[p].opens
        /\ study[p].pc = "open" /\ study[p].runs < MaxRuns
    BY <1>1, <1>6, CallingMoves DEF Begin, Becomes
  <2>2. Unfailing' /\ Opened' /\ Settled'
    BY <1>1, <1>3, <2>1 DEF Unfailing, Opened, Settled
  <2>3. Cardinality(DOMAIN rows) = NTrials * study[p].runs /\ Cardinality(InFlight) = 0
    <3>1. CASE Smooth
      BY <2>1, <3>1, CountParts DEF Unfailing, Settled, Counted
    <3>2. CASE MaxRuns <= 1
      <4>1. study[p].runs = 0 /\ NTrials * 0 = 0
        BY <2>1, <3>2, CountParts
      <4>2. DOMAIN rows = {}
        BY <4>1, EmptyHistory DEF NumberInv, RunInv, Unused
      <4> QED BY <2>1, <4>1, <4>2, CountParts, FS_EmptySet
    <3> QED BY <3>1, <3>2 DEF Uninterrupted
  <2>4. Cardinality(DOMAIN rows) + Cardinality(InFlight) + NTrials
            = NTrials * (study[p].runs + 1)
    BY <2>3, CountParts
  <2>5. Counted'
    BY <1>1, <1>2, <2>1, <2>4 DEF Counted
  <2> QED BY <2>2, <2>5
<1>7. CASE BeginFails(p)
  <2>1. /\ study'[p].pc = study[p].pc /\ study'[p].todo = study[p].todo /\ study'[p].err
        /\ study'[p].opens = study[p].opens
        /\ Faults # {} \/ ~Loadable
    BY <1>1, <1>7, CallingMoves DEF BeginFails, Becomes
  <2>2. ~Smooth
    BY <2>1 DEF Smooth, Unfailing
  <2> QED BY <1>1, <1>2, <2>1, <2>2 DEF Unfailing, Opened, Settled, Counted
<1> QED BY <1>4, <1>5, <1>6, <1>7

\* A call returns, or its process ends.
LEMMA EndingCounts ==
    ASSUME OneProcess, Uninterrupted, NumberInv, CallInv, NEW p \in Procs,
           Return(p) \/ Exit(p)
    PROVE  CallInv'
<1> USE DEF CallInv
<1>1. LocalTyped /\ \A q \in Procs : q = p
  BY Alone DEF NumberInv
<1>2. CASE Return(p)
  <2>1. /\ study'[p].pc = "open" /\ study'[p].todo = 0 /\ study'[p].err = study[p].err
        /\ study'[p].runs = study[p].runs /\ study'[p].opens = study[p].opens
        /\ study[p].pc = "running" /\ (study[p].todo = 0 \/ study[p].err)
        /\ UNCHANGED <<rows, task>>
    BY <1>1, <1>2, CallingMoves DEF Return, Becomes
  <2>2. InFlight' = InFlight /\ Loadable' = Loadable
    BY <2>1 DEF InFlight, Loadable
  <2> QED BY <1>1, <2>1, <2>2 DEF Unfailing, Opened, Settled, Counted
<1>3. CASE Exit(p)
  <2>1. /\ study'[p].pc = "closed" /\ study'[p].todo = 0 /\ ~study'[p].err
        /\ study'[p].runs = study[p].runs /\ study'[p].opens = study[p].opens
        /\ study[p].pc # "closed" /\ ("crash" \in Faults \/ study[p].pc = "open")
        /\ rows' = rows \/ (Backend = "memory" /\ rows' = <<>>)
        /\ \A t \in Threads : task'[t].pc = "idle"
    <3>1. \A t \in Threads : Proc[t] = p
      BY Alone
    <3>2. \A t \in Threads : task'[t].pc = "idle"
      BY <1>3, <3>1 DEF Exit, Idle
    <3>3. rows' = rows \/ (Backend = "memory" /\ rows' = <<>>)
      BY <1>3 DEF Exit
    <3> QED BY <1>1, <1>3, <3>2, <3>3, OpeningMoves DEF Exit, Becomes
  <2>2. study[p].opens > 0 /\ Opened' /\ Settled'
    BY <1>1, <2>1 DEF Opened, Settled
  <2>3. Unfailing'
    <3>1. rows' = <<>> => Loadable'
      BY EmptyHistory DEF Loadable
    <3>2. rows' = rows => Loadable' = Loadable
      BY DEF Loadable
    <3> QED BY <1>1, <2>1, <3>1, <3>2 DEF Unfailing
  <2>4. Counted'
    <3>1. CASE MaxOpens <= 1
      BY <1>1, <2>1, <2>2, <3>1, CountParts DEF Counted
    <3>2. CASE Smooth /\ Backend = "sqlite"
      <4>1. rows' = rows /\ study[p].pc = "open" /\ study[p].todo = 0 /\ ~study[p].err
        BY <1>1, <2>1, <3>2 DEF Smooth, Unfailing, Settled
      <4>2. InFlight' = {} /\ Cardinality(InFlight) = 0 /\ Cardinality({}) = 0
        BY <2>1, <4>1, CountParts, FS_EmptySet DEF InFlight
      <4> QED BY <1>1, <2>1, <4>1, <4>2 DEF Counted
    <3> QED BY <3>1, <3>2 DEF Uninterrupted
  <2> QED BY <2>2, <2>3, <2>4
<1> QED BY <1>2, <1>3

\* During a call a trial that is taken has begun, and one that is saved is recorded.
LEMMA RunningCounts ==
    ASSUME OneProcess, NumberInv, NumberInv', CallInv, NEW p \in Procs,
           NEW t \in ThreadsOf(p),
           \/ Load(t) \/ Draw(t) \/ TrialLost(t) \/ LoadSnapshot(t)
           \/ \E trial : ContextCall(t, trial)
           \/ \E o \in Outcome(Vals) : Save(t, o)
    PROVE  CallInv'
<1> USE DEF CallInv
<1>1. /\ LocalTyped /\ t \in Threads /\ IsFiniteSet(InFlight) /\ Proc[t] = p
      /\ IsFiniteSet(DOMAIN rows) /\ (\A q \in Procs : q = p)
      /\ Cardinality(InFlight) \in Nat /\ Cardinality(DOMAIN rows) \in Nat
      /\ study[p].todo \in Nat
  BY Alone, InvParts, CountParts DEF NumberInv, ThreadsOf
<1>2. CASE Load(t) \/ Draw(t)
  <2>1. /\ study'[p].pc = "running" /\ study[p].pc = "running" /\ rows' = rows
        /\ study'[p].todo = study[p].todo - 1 /\ study'[p].err = study[p].err
        /\ study'[p].runs = study[p].runs /\ study'[p].opens = study[p].opens
    BY <1>1, <1>2, TrialMoves DEF Load, Draw, Takes, Becomes
  <2>2. Cardinality(InFlight') = Cardinality(InFlight) + 1
    <3>1. InFlight' = InFlight \cup {t} /\ t \notin InFlight
      BY <1>1, <1>2, FlightMoves
    <3> QED BY <1>1, <3>1, FS_AddElement
  <2>3. Loadable' = Loadable
    BY <2>1 DEF Loadable
  <2>4. Counted'
    <3> SUFFICES ASSUME ~study[p].err
                 PROVE  Cardinality(DOMAIN rows) + Cardinality(InFlight') + (study[p].todo - 1)
                            = NTrials * study[p].runs
      BY <1>1, <2>1 DEF Counted
    <3>1. Cardinality(DOMAIN rows) + Cardinality(InFlight) + study[p].todo
              = NTrials * study[p].runs
      BY <2>1 DEF Counted
    <3> QED BY <1>1, <2>2, <3>1
  <2> QED BY <1>1, <2>1, <2>3, <2>4 DEF Unfailing, Opened, Settled
<1>3. CASE TrialLost(t)
  <2>1. /\ study'[p].pc = study[p].pc /\ study'[p].todo = study[p].todo /\ study'[p].err
        /\ study'[p].opens = study[p].opens
        /\ "storage" \in Faults \/ ~Loadable
    BY <1>1, <1>3, TrialMoves DEF TrialLost, Becomes
  <2>2. ~Smooth
    BY <2>1 DEF Smooth, Unfailing
  <2> QED BY <1>1, <2>1, <2>2 DEF Unfailing, Opened, Settled, Counted
<1>4. CASE LoadSnapshot(t) \/ \E trial : ContextCall(t, trial)
  <2>1. UNCHANGED <<rows, study>> /\ InFlight' = InFlight
    BY <1>1, <1>4, FlightMoves DEF LoadSnapshot, ContextCall
  <2> QED BY <2>1 DEF Unfailing, Opened, Settled, Counted, Loadable
<1>5. ASSUME NEW o \in Outcome(Vals), Save(t, o) PROVE CallInv'
  <2> DEFINE n == task[t].number
             u == FinishTrial(task[t].trial, o)
  <2>1. /\ InOrder(task[t]) /\ task[t].pc = "objective" /\ SaveTrial(u) /\ study' = study
        /\ t \in InFlight /\ InFlight' = InFlight \ {t} /\ n \notin DOMAIN rows
    BY <1>1, <1>5, FlightMoves DEF Save, LocalTyped, NumberInv, TaskInv, Apart
  <2>2. u \in OwnTrial /\ u \in LocalTrial /\ u.number = n
    BY <2>1, OwnTrialType DEF InOrder
  <2>3. /\ DOMAIN rows' = DOMAIN rows \cup {n} /\ rows'[n] = Encode(u)
        /\ \A m \in DOMAIN rows : m # n => rows'[m] = rows[m]
    BY <1>1, <2>1, <2>2, SaveKeepsTypes DEF LocalTyped
  <2>4. /\ Cardinality(DOMAIN rows') = Cardinality(DOMAIN rows) + 1
        /\ Cardinality(InFlight') = Cardinality(InFlight) - 1
    <3>1. /\ DOMAIN rows' = DOMAIN rows \cup {n} /\ n \notin DOMAIN rows
          /\ InFlight' = InFlight \ {t} /\ t \in InFlight
          /\ IsFiniteSet(DOMAIN rows) /\ IsFiniteSet(InFlight)
      BY <1>1, <2>1, <2>3
    <3> HIDE DEF n, u
    <3>2. Cardinality(DOMAIN rows') = Cardinality(DOMAIN rows) + 1
      BY <3>1, FS_AddElement
    <3>3. Cardinality(InFlight') = Cardinality(InFlight) - 1
      BY <3>1, FS_RemoveElement
    <3> QED BY <3>2, <3>3
  <2>5. Smooth /\ Loadable => Loadable'
    BY <2>2, <2>3, EncodeFaithful DEF Smooth, Loadable
  <2>6. Cardinality(DOMAIN rows') + Cardinality(InFlight')
            = Cardinality(DOMAIN rows) + Cardinality(InFlight)
    BY <1>1, <2>4
  <2>7. Counted'
    BY <2>1, <2>6 DEF Counted
  <2> QED BY <2>1, <2>5, <2>7 DEF Unfailing, Opened, Settled
<1> QED BY <1>2, <1>3, <1>4, <1>5

\* A call that has returned Ok has run all its trials, whatever the number of its threads
\* (hyperopt/tests/phase4_parallel.rs:34, phase3_storage.rs:30-31).
THEOREM CallsRunAll ==
    ASSUME OneProcess, Uninterrupted
    PROVE  Spec => []RunsComplete
<1>1. Gapless
  BY DEF Uninterrupted, Smooth, Gapless
<1>2. LocalInit => NumberInv /\ CallInv
  <2> SUFFICES ASSUME LocalInit PROVE CallInv
    BY NumberInvInit
  <2>1. \A p \in Procs : /\ study[p].pc = "closed" /\ study[p].todo = 0 /\ ~study[p].err
                         /\ study[p].runs = 0
    BY DEF LocalInit
  <2>2. DOMAIN rows = {} /\ InFlight = {} /\ Cardinality({}) = 0 /\ NTrials * 0 = 0
    BY EmptyHistory, FS_EmptySet, LocalAssumption
       DEF LocalInit, StorageInit, InFlight, Idle
  <2> QED BY <2>1, <2>2 DEF CallInv, Unfailing, Loadable, Opened, Settled, Counted
<1>3. NumberInv /\ CallInv /\ [Next]_localVars => NumberInv' /\ CallInv'
  <2> SUFFICES ASSUME NumberInv, CallInv, [Next]_localVars PROVE NumberInv' /\ CallInv'
    OBVIOUS
  <2>1. NumberInv'
    BY <1>1, NumberInvStep
  <2>2. CASE UNCHANGED localVars
    <3>1. UNCHANGED <<rows, study>> /\ InFlight' = InFlight /\ Loadable' = Loadable
      BY <2>2 DEF localVars, InFlight, Loadable
    <3> QED BY <2>1, <3>1 DEF CallInv, Unfailing, Opened, Settled, Counted
  <2>3. ASSUME NEW p \in Procs,
               \/ OpenSave(p) \/ OpenFails(p) \/ Begin(p) \/ BeginFails(p)
               \/ \E d \in Directions : OpenLoad(p, d)
               \/ Return(p) \/ Exit(p)
        PROVE  CallInv'
    BY <2>3, OpeningCounts, EndingCounts
  <2>4. ASSUME NEW p \in Procs, NEW t \in ThreadsOf(p),
               \/ Load(t) \/ Draw(t) \/ TrialLost(t) \/ LoadSnapshot(t)
               \/ \E trial : ContextCall(t, trial)
               \/ \E o \in Outcome(Vals) : Save(t, o)
        PROVE  CallInv'
    BY <2>1, <2>4, RunningCounts
  <2> QED BY <2>1, <2>2, <2>3, <2>4 DEF Next, RunStep, Suggest, Report
<1>4. NumberInv /\ CallInv => RunsComplete
  <2> SUFFICES ASSUME NumberInv, CallInv, NEW p \in Procs, study[p].pc = "open", ~study[p].err
               PROVE  Cardinality(DOMAIN rows) = NTrials * study[p].runs
    BY DEF RunsComplete
  <2>1. Cardinality(DOMAIN rows) + Cardinality(InFlight) + study[p].todo
            = NTrials * study[p].runs
    BY DEF CallInv, Counted
  <2> QED BY <2>1, CountParts DEF CallInv, Settled
<1> QED BY <1>1, <1>2, <1>3, <1>4, PTL DEF Spec

-----------------------------------------------------------------------------
(* What is asked of the history: the best trial and the curve.              *)

\* The curve shown to a user and best_value agree at every point of it, whatever was
\* saved, by however many processes (history.rs:25-26; study_state.rs:64-83).
THEOREM CurveIsBest == Spec => []CurveAgrees
<1>1. LocalInit => LocalTyped
  BY LocalTypedInit
<1>2. LocalTyped /\ [Next]_localVars => LocalTyped'
  BY LocalTypedStep
<1>3. LocalTyped => CurveAgrees
  <2> SUFFICES ASSUME LocalTyped PROVE CurveAgrees
    OBVIOUS
  <2>1. DOMAIN rows \subseteq Nat /\ \A n \in DOMAIN rows : rows[n] # None
    BY HistoryParts, LocalAssumption DEF LocalTyped, Stored, LocalTrial
  <2>2. \A n \in CompletedTrials(rows) : rows[n] # None
    BY <2>1 DEF CompletedTrials
  <2> QED BY <2>1, <2>2, CurveIsBestValue DEF CurveAgrees
<1> QED BY <1>1, <1>2, <1>3, PTL DEF Spec

\* Every trial in the history is as its objective left it.
Legible == \A n \in DOMAIN rows : rows[n] \in OwnTrial

\* Without a NaN the history stays so.
LEMMA LegibleStep ==
    ASSUME NaN \notin Vals
    PROVE  LocalTyped /\ Legible /\ [Next]_localVars => Legible'
<1> SUFFICES ASSUME LocalTyped, Legible, [Next]_localVars PROVE Legible'
  OBVIOUS
<1>1. CASE rows' = rows
  BY <1>1 DEF Legible
<1>2. ASSUME NEW p \in Procs, Exit(p) PROVE Legible'
  <2>1. rows' = rows \/ rows' = <<>>
    BY <1>2 DEF Exit
  <2> QED BY <1>1, <2>1, EmptyHistory DEF Legible
<1>3. ASSUME NEW t \in Threads, NEW o \in Outcome(Vals), Save(t, o) PROVE Legible'
  <2> DEFINE u == FinishTrial(task[t].trial, o)
  <2>1. SaveTrial(u) /\ u \in OwnTrial /\ u \in LocalTrial /\ Stored
    BY <1>3, OwnTrialType DEF Save, LocalTyped, InOrder
  <2> HIDE DEF u
  <2>2. /\ DOMAIN rows' = DOMAIN rows \cup {u.number} /\ rows'[u.number] = u
        /\ \A n \in DOMAIN rows : n # u.number => rows'[n] = rows[n]
    BY <2>1, SaveKeepsTypes, EncodeFaithful
  <2> QED BY <2>1, <2>2 DEF Legible
<1> QED BY <1>1, <1>2, <1>3
        DEF Next, localVars, OpenLoad, OpenFails, Begin, BeginFails, RunStep, OpenSave, Return,
            Load, Draw, LoadSnapshot, TrialLost, Suggest, Report, ContextCall, ThreadsOf

\* What best_value is of such a history.
LEMMA BestOfLegible ==
    ASSUME NaN \notin Vals, NEW h, DOMAIN h \subseteq Nat, IsFiniteSet(DOMAIN h),
           \A n \in DOMAIN h : h[n] \in OwnTrial, NEW d
    PROVE  IF CompletedTrials(h) = {}
           THEN BestValue(d, h) = None
           ELSE \E n \in CompletedTrials(h) :
                   /\ BestValue(d, h) = h[n].value /\ h[n].value \in Int
                   /\ \A m \in CompletedTrials(h) : ~IsBetter(d, h[m].value, h[n].value)
<1>1. ASSUME NEW n \in CompletedTrials(h) PROVE h[n].value \in Int /\ h[n] # None
  <2>1. h[n] \in OwnTrial /\ h[n] \in LocalTrial /\ h[n].value # None
    BY OwnTrialType DEF CompletedTrials
  <2>2. h[n].value \in Vals /\ Vals \subseteq Int
    BY <2>1, LocalAssumption DEF OwnTrial, TrialType, Floats
  <2> QED BY <2>1, <2>2, LocalAssumption DEF LocalTrial
<1> QED BY <1>1, BestTrialIsBest

\* No completed trial beats the best value, whoever ran it and whatever failed
\* (study_state.rs:64, "The best completed trial under the study direction").
THEOREM BestIsUnbeaten ==
    ASSUME NaN \notin Vals
    PROVE  Spec => []BestIsBest
<1>1. LocalInit => LocalTyped /\ Legible
  BY LocalTypedInit, EmptyHistory DEF LocalInit, StorageInit, Legible
<1>2. LocalTyped /\ Legible /\ [Next]_localVars => LocalTyped' /\ Legible'
  BY LocalTypedStep, LegibleStep
<1>3. LocalTyped /\ Legible => BestIsBest
  <2> SUFFICES ASSUME LocalTyped, Legible PROVE BestIsBest
    OBVIOUS
  <2>1. DOMAIN rows \subseteq Nat /\ IsFiniteSet(DOMAIN rows)
    BY HistoryParts DEF LocalTyped, Stored
  <2> QED BY <2>1, BestOfLegible, SpecialValues DEF BestIsBest, Legible
<1> QED BY <1>1, <1>2, <1>3, PTL DEF Spec

\* The best value never gets worse, whatever order the trials end in and whatever fails:
\* of a history that grows and never changes no trial is forgotten (study_state.rs:64-83).
THEOREM BestOnlyImproves ==
    ASSUME OneProcess, Gapless, Backend = "sqlite", NaN \notin Vals
    PROVE  Spec => BestNeverWorsens
<1> DEFINE Inv == NumberInv /\ Legible
           Kept == \A d \in Directions : BestValue(d, rows) # None =>
                      /\ BestValue(d, rows)' # None
                      /\ ~IsBetter(d, BestValue(d, rows), BestValue(d, rows)')
<1>1. LocalInit => Inv
  BY NumberInvInit, EmptyHistory DEF LocalInit, StorageInit, Legible
<1>2. Inv /\ [Next]_localVars => Inv'
  BY NumberInvStep, LegibleStep DEF NumberInv
<1>3. Inv /\ Inv' /\ [Next]_localVars => [Kept]_localVars
  <2> SUFFICES ASSUME Inv, Inv', [Next]_localVars, NEW d \in Directions,
                      BestValue(d, rows) # None
               PROVE  /\ BestValue(d, rows)' # None
                      /\ ~IsBetter(d, BestValue(d, rows), BestValue(d, rows)')
    OBVIOUS
  <2>1. \A n \in DOMAIN rows : n \in DOMAIN rows' /\ rows'[n] = rows[n]
    <3>1. CASE rows' = rows
      BY <3>1
    <3>2. CASE rows' # rows
      <4>1. PICK p \in Procs : \E t \in ThreadsOf(p), o \in Outcome(Vals) : Save(t, o)
        BY <3>2 DEF Next, localVars, OpenLoad, OpenFails, Begin, BeginFails, Exit, RunStep,
           OpenSave, Return, Load, Draw, LoadSnapshot, TrialLost, Suggest, Report, ContextCall
      <4>2. PICK t \in ThreadsOf(p), o \in Outcome(Vals) : Save(t, o)
        BY <4>1
      <4> DEFINE u == FinishTrial(task[t].trial, o)
      <4>3. /\ InOrder(task[t]) /\ task[t].pc = "objective" /\ SaveTrial(u) /\ Stored
            /\ task[t].number \notin DOMAIN rows
        BY <4>2 DEF NumberInv, LocalTyped, TaskInv, Apart, InFlight, Save, ThreadsOf
      <4>4. u \in LocalTrial /\ u.number = task[t].number
        BY <4>3, OwnTrialType DEF InOrder
      <4> QED BY <4>3, <4>4, SaveKeepsTypes
    <3> QED BY <3>1, <3>2
  <2>2. CompletedTrials(rows) \subseteq CompletedTrials(rows)'
    BY <2>1 DEF CompletedTrials
  <2>3. PICK n \in CompletedTrials(rows) : BestValue(d, rows) = rows[n].value
    <3>1. DOMAIN rows \subseteq Nat /\ IsFiniteSet(DOMAIN rows)
      BY HistoryParts DEF NumberInv, LocalTyped, Stored
    <3> QED BY <3>1, BestOfLegible DEF Legible
  <2>4. n \in CompletedTrials(rows)' /\ rows'[n] = rows[n]
    BY <2>1, <2>2, <2>3 DEF CompletedTrials
  <2>5. PICK m \in CompletedTrials(rows') :
           /\ BestValue(d, rows') = rows'[m].value /\ rows'[m].value \in Int
           /\ ~IsBetter(d, rows'[n].value, rows'[m].value)
    <3>1. DOMAIN rows' \subseteq Nat /\ IsFiniteSet(DOMAIN rows')
      BY HistoryParts DEF NumberInv, LocalTyped, Stored
    <3>2. \A k \in DOMAIN rows' : rows'[k] \in OwnTrial
      BY DEF Legible
    <3> QED BY <2>4, <3>1, <3>2, BestOfLegible
  <2> QED BY <2>3, <2>4, <2>5, SpecialValues
<1> QED BY <1>1, <1>2, <1>3, PTL DEF Spec, BestNeverWorsens

=============================================================================
