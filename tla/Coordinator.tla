----------------------------- MODULE Coordinator -----------------------------
(***************************************************************************)
(* The coordinator process (hyperopt-distributed/src/coordinator.rs): one  *)
(* thread per worker connection, all sharing the trial counter, the        *)
(* sampler, the pruner and the storage.  A handler is not atomic: between  *)
(* the load and the save of suggest, report and finish, and between the    *)
(* fetch_add and the save of new_trial, every other thread may run.        *)
(*                                                                         *)
(* The sampler and the pruner answer whatever they like: a value of the    *)
(* distribution, a verdict.  The sampler's mutex is held inside one step.  *)
(***************************************************************************)
EXTENDS Protocol, Storage

CONSTANTS StudyName,       \* the study this coordinator serves
          ServerToken,     \* the token it requires, or None
          Faults,          \* what may go wrong, some of FaultKinds
          Earlier,         \* the histories that earlier processes may have left
          MaxBoots         \* bound: how often the process is started

\* A failing storage call, a panic in the sampler, a broken connection, the
\* death of a worker process, the death of the coordinator process.
FaultKinds == {"storage", "sampler", "net", "worker", "coordinator"}

ASSUME CoordinatorAssumption ==
    /\ StudyName \in Studies
    /\ ServerToken \in Tokens \cup {None}
    /\ Faults \subseteq FaultKinds
    /\ MaxBoots \in Nat

VARIABLES up,         \* the process is running and accepting
          boots,      \* how often it has been started
          direction,  \* Coordinator::direction
          counter,    \* Coordinator::counter
          thread,     \* thread[w]: the thread serving worker w's connection
          failed      \* aux: connections a network, process or storage failure hit

coordVars == <<rows, meta, up, boots, direction, counter, thread, failed>>

(* A thread is at "read" (blocked in read_line), "save_new" (number drawn,   *)
(* trial not yet saved) or "save" (trial loaded, change not yet saved).      *)
Serving == {"read", "save_new", "save"}

NoThread == [pc |-> "none", authed |-> FALSE, number |-> None, current |-> None]
Gone     == [NoThread EXCEPT !.pc = "gone"]

\* A NaN does not survive the wire, so none gets into a trial here.
TrialRows == TrialType(Names, Steps, Int)

ASSUME EarlierAssumption ==
    \A h \in Earlier : /\ DOMAIN h \subseteq Nat /\ IsFiniteSet(DOMAIN h)
                       /\ \A n \in DOMAIN h : h[n] \in TrialRows /\ h[n].number = n

Thread ==
    [pc : Serving \cup {"none", "gone"}, authed : BOOLEAN,
     number : Nat \cup {None}, current : TrialRows \cup {None}]

CoordTypeOK ==
    /\ DOMAIN rows \subseteq Nat /\ IsFiniteSet(DOMAIN rows)
    /\ \A n \in DOMAIN rows : rows[n] \in TrialRows /\ rows[n].number = n
    /\ meta \in Directions \cup {None}
    /\ up \in BOOLEAN /\ boots \in Nat /\ counter \in Nat
    /\ direction \in Directions \cup {None}
    /\ thread \in [Workers -> Thread]
    /\ failed \in SUBSET Workers

\* A history comes with the direction it was made in: new records it first.
CoordInit ==
    /\ rows \in Earlier
    /\ meta \in IF rows = <<>> THEN {None} ELSE Directions
    /\ up = FALSE /\ boots = 0 /\ direction = None /\ counter = 0
    /\ thread = [w \in Workers |-> NoThread]
    /\ failed = {}

-----------------------------------------------------------------------------
(* Coordinator::new and the end of the process.                             *)

\* Adopt or record the direction, then number past the length of the history.
Boot(d) ==
    /\ ~up /\ boots < MaxBoots
    /\ Loadable
    /\ direction' = Adopted(d)
    /\ SaveMeta(Adopted(d))
    /\ counter' = CountTrials
    /\ up' = TRUE
    /\ boots' = boots + 1
    /\ UNCHANGED <<rows, thread, failed, conn>>

\* A storage error, before the metadata is saved or after it.
BootFails(d) ==
    /\ ~up /\ boots < MaxBoots
    /\ \/ ("storage" \in Faults \/ ~Loadable) /\ SaveMeta(Adopted(d))
       \/ "storage" \in Faults /\ UNCHANGED meta
    /\ boots' = boots + 1
    /\ UNCHANGED <<rows, up, direction, counter, thread, failed, conn>>

\* The process dies: its threads vanish where they stand and every connection
\* it had breaks; requests it had not answered are never answered.
Crash ==
    /\ "coordinator" \in Faults
    /\ up
    /\ up' = FALSE
    /\ direction' = None
    /\ thread' = [w \in Workers |-> IF conn[w].link = "none" THEN thread[w] ELSE Gone]
    /\ conn' = [w \in Workers |-> IF conn[w].link = "none" THEN conn[w]
                                  ELSE [conn[w] EXCEPT !.link = "down", !.req = None]]
    /\ failed' = failed \cup {w \in Workers : conn[w].link = "up"}
    /\ rows' = IF Backend = "memory" THEN <<>> ELSE rows
    /\ meta' = IF Backend = "memory" THEN None ELSE meta
    /\ UNCHANGED <<boots, counter>>

-----------------------------------------------------------------------------
(* Listening::run and handle_connection.                                    *)

Continue(w, s) == thread' = [thread EXCEPT ![w] = s]

Accept(w) ==
    /\ up /\ conn[w].link # "none" /\ thread[w].pc = "none"
    /\ Continue(w, [NoThread EXCEPT !.pc = "read",
                                    !.authed = (ServerToken = None)])
    /\ UNCHANGED <<rows, meta, up, boots, direction, counter, failed, conn>>

\* read_line sees the end of the stream, or an error: a request still in the
\* buffer of a closed connection may be lost with it.
Hangup(w) ==
    /\ thread[w].pc = "read" /\ conn[w].link = "down"
    /\ Continue(w, Gone)
    /\ SetConn(w, [conn[w] EXCEPT !.req = None])
    /\ UNCHANGED <<rows, meta, up, boots, direction, counter, failed>>

\* The request thread w has read.
Pending(w, op) == thread[w].pc = "read" /\ conn[w].req # None /\ conn[w].req.op = op

\* Mutant of Admitted: the token is never asked for.
AdmittedUnauthenticated(w) == conn[w].req # BadLine /\ conn[w].req.study = StudyName

\* It is readable, the connection is authenticated, the study is the right one.
Admitted(w) ==
    conn[w].req # BadLine /\ thread[w].authed /\ conn[w].req.study = StudyName

\* Mutant of Authenticate: acknowledged, but not remembered.
AuthenticateForgets(w) ==
    /\ Pending(w, "Auth")
    /\ Answer(w, IF ServerToken = None \/ conn[w].req.token = ServerToken THEN Ack ELSE Error)
    /\ UNCHANGED coordVars

Authenticate(w) ==
    /\ Pending(w, "Auth")
    /\ LET ok == ServerToken = None \/ conn[w].req.token = ServerToken
       IN  /\ Continue(w, [thread[w] EXCEPT !.authed = @ \/ ok])
           /\ Answer(w, IF ok THEN Ack ELSE Error)
    /\ UNCHANGED <<rows, meta, up, boots, direction, counter, failed>>

\* An unreadable line, an unauthenticated connection, or the wrong study.
Refuse(w) ==
    /\ thread[w].pc = "read" /\ conn[w].req # None /\ conn[w].req.op # "Auth"
    /\ ~Admitted(w)
    /\ Answer(w, Error)
    /\ UNCHANGED coordVars

-----------------------------------------------------------------------------
(* The handlers.                                                            *)

\* Mutant of NewTrialDraw: a load of the counter instead of a fetch_add.
NewTrialPeek(w) ==
    /\ Pending(w, "NewTrial") /\ Admitted(w)
    /\ Continue(w, [thread[w] EXCEPT !.pc = "save_new", !.number = counter])
    /\ UNCHANGED <<rows, meta, up, boots, direction, counter, failed, conn>>

NewTrialDraw(w) ==
    /\ Pending(w, "NewTrial") /\ Admitted(w)
    /\ counter' = counter + 1
    /\ Continue(w, [thread[w] EXCEPT !.pc = "save_new", !.number = counter])
    /\ UNCHANGED <<rows, meta, up, boots, direction, failed, conn>>

\* Mutant of NewTrialSave: the first trial of a study is not answered.
NewTrialUnanswered(w) ==
    /\ thread[w].pc = "save_new"
    /\ SaveTrial(NewTrial(thread[w].number))
    /\ Answer(w, IF thread[w].number = 0 THEN None ELSE TrialIs(thread[w].number))
    /\ Continue(w, [thread[w] EXCEPT !.pc = "read", !.number = None])
    /\ UNCHANGED <<meta, up, boots, direction, counter, failed>>

NewTrialSave(w) ==
    /\ thread[w].pc = "save_new"
    /\ SaveTrial(NewTrial(thread[w].number))
    /\ Answer(w, TrialIs(thread[w].number))
    /\ Continue(w, [thread[w] EXCEPT !.pc = "read", !.number = None])
    /\ UNCHANGED <<meta, up, boots, direction, counter, failed>>

\* Mutant of Current: the stored trial is not found.
CurrentFresh(n) == NewTrial(n)

\* partition: the stored trial, or a fresh one when the number is unknown.
Current(n) == IF n \in DOMAIN rows THEN rows[n] ELSE NewTrial(n)

Partition(w) ==
    /\ \E op \in {"Suggest", "Report", "Finish"} : Pending(w, op)
    /\ Admitted(w) /\ Loadable
    /\ Continue(w, [thread[w] EXCEPT !.pc = "save", !.current = Current(conn[w].req.number)])
    /\ UNCHANGED <<rows, meta, up, boots, direction, counter, failed, conn>>

\* The second half of suggest, report and finish: save the changed trial, answer.
SaveCurrent(w, t, response) ==
    /\ SaveTrial(t)
    /\ Answer(w, response)
    /\ Continue(w, [thread[w] EXCEPT !.pc = "read", !.current = None])
    /\ UNCHANGED <<meta, up, boots, direction, counter, failed>>

Saving(w, op) == thread[w].pc = "save" /\ conn[w].req.op = op

SuggestSave(w, v) ==
    /\ Saving(w, "Suggest") /\ v \in conn[w].req.dist
    /\ SaveCurrent(w, Record(thread[w].current, conn[w].req.name, v), ValueIs(v))

ReportSave(w) ==
    /\ Saving(w, "Report")
    /\ SaveCurrent(w, AddReport(thread[w].current, conn[w].req.step, conn[w].req.value), Ack)

\* Mutant of FinishSave: the outcome is acknowledged, not stored.
FinishForgets(w) == Saving(w, "Finish") /\ SaveCurrent(w, thread[w].current, Ack)

FinishSave(w) ==
    /\ Saving(w, "Finish")
    /\ SaveCurrent(w, FinishTrial(thread[w].current, conn[w].req.outcome), Ack)

ShouldPrune(w, verdict) ==
    /\ Pending(w, "ShouldPrune") /\ Admitted(w) /\ Loadable
    /\ Answer(w, PruneIs(verdict))
    /\ UNCHANGED coordVars

BestValueResponse(w) ==
    /\ Pending(w, "BestValue") /\ Admitted(w) /\ Loadable
    /\ Answer(w, BestIs(BestValue(direction, rows)))
    /\ UNCHANGED coordVars

\* A load or a save fails: nothing is stored, the handler answers Error.  A
\* number new_trial has drawn by then stays drawn.
StorageError(w) ==
    /\ "storage" \in Faults
    /\ \/ thread[w].pc \in {"save_new", "save"}
       \/ \E op \in {"Suggest", "Report", "Finish", "ShouldPrune", "BestValue"} :
              Pending(w, op) /\ Admitted(w)
    /\ Answer(w, Error)
    /\ Continue(w, [thread[w] EXCEPT !.pc = "read", !.number = None, !.current = None])
    /\ failed' = failed \cup {w}
    /\ UNCHANGED <<rows, meta, up, boots, direction, counter>>

\* Mutant of SamplerPanic: it takes the other connections with it.
PanicTakesAll(w) ==
    /\ "sampler" \in Faults /\ Saving(w, "Suggest")
    /\ thread' = [v \in Workers |-> IF conn[v].link = "up" THEN Gone ELSE thread[v]]
    /\ conn' = [v \in Workers |-> IF conn[v].link # "up" THEN conn[v]
                                  ELSE [conn[v] EXCEPT !.link = "down", !.req = None]]
    /\ failed' = failed \cup {w}
    /\ UNCHANGED <<rows, meta, up, boots, direction, counter>>

\* The sampler panics: the thread unwinds and drops the connection; the
\* poisoned mutex is recovered by the next thread that locks it.
SamplerPanic(w) ==
    /\ "sampler" \in Faults
    /\ Saving(w, "Suggest")
    /\ Continue(w, Gone)
    /\ SetConn(w, [conn[w] EXCEPT !.link = "down", !.req = None])
    /\ failed' = failed \cup {w}
    /\ UNCHANGED <<rows, meta, up, boots, direction, counter>>

ThreadStep(w) ==
    \/ Accept(w) \/ Hangup(w) \/ Authenticate(w) \/ Refuse(w)
    \/ NewTrialDraw(w) \/ NewTrialSave(w) \/ Partition(w)
    \/ \E v \in UNION Dists : SuggestSave(w, v)
    \/ ReportSave(w) \/ FinishSave(w)
    \/ \E verdict \in BOOLEAN : ShouldPrune(w, verdict)
    \/ BestValueResponse(w)
    \/ StorageError(w) \/ SamplerPanic(w)

CoordStep == (\E d \in Directions : Boot(d) \/ BootFails(d)) \/ Crash

=============================================================================
