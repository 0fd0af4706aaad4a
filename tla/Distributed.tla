----------------------------- MODULE Distributed -----------------------------
(***************************************************************************)
(* A coordinator and its workers: hyperopt-distributed as a whole.         *)
(***************************************************************************)
EXTENDS Coordinator, Worker

VARIABLE acked   \* aux: trials whose Finish the coordinator has acknowledged

vars == <<conn, rows, meta, up, boots, direction, counter, thread, failed, worker, acked>>

Init == ConnInit /\ CoordInit /\ WorkerInit /\ acked = {}

\* The network breaks an open connection.
NetBreak(w) ==
    /\ "net" \in Faults /\ conn[w].link = "up"
    /\ Disconnect(w)
    /\ failed' = failed \cup {w}
    /\ UNCHANGED <<rows, meta, up, boots, direction, counter, thread, worker, acked>>

\* Connecting takes a listening coordinator, and a working network.
Dial(w) ==
    /\ \/ up /\ Connect(w)
       \/ (~up \/ "net" \in Faults) /\ ConnectFails(w)
    /\ UNCHANGED <<coordVars, acked>>

\* The worker reads the acknowledgement of its Finish.
Finished(w) ==
    /\ RecvFinished(w)
    /\ acked' = acked \cup {worker[w].view}
    /\ UNCHANGED coordVars

WorkerDies(w) ==
    /\ "worker" \in Faults
    /\ WorkerCrash(w)
    /\ failed' = failed \cup {w}
    /\ UNCHANGED <<rows, meta, up, boots, direction, counter, thread, acked>>

Over == \A w \in Workers : worker[w].pc = "exit"

\* Serving goes on for ever: a coordinator without workers waits in accept.
Idle == Over /\ UNCHANGED vars

Next ==
    \/ CoordStep /\ UNCHANGED <<worker, acked>>
    \/ \E w \in Workers :
          \/ ThreadStep(w) /\ UNCHANGED <<worker, acked>>
          \/ WorkerStep(w) /\ UNCHANGED <<coordVars, acked>>
          \/ Dial(w) \/ Finished(w) \/ NetBreak(w) \/ WorkerDies(w)
    \/ Idle

Spec == Init /\ [][Next]_vars

\* Server threads are scheduled, and so is a worker until it gives up.
ThreadWork(w) == ThreadStep(w) /\ UNCHANGED <<worker, acked>>
WorkerWork(w) == \/ WorkerStep(w) /\ UNCHANGED <<coordVars, acked>>
                 \/ Dial(w) \/ Finished(w)

Fairness == \A w \in Workers : WF_vars(ThreadWork(w)) /\ WF_vars(WorkerWork(w))

FairSpec == Spec /\ Fairness

-----------------------------------------------------------------------------
\* Types and ranges of every variable; a stored trial sits under its number.
TypeOK ==
    /\ ConnTypeOK /\ CoordTypeOK /\ WorkerTypeOK
    /\ acked \subseteq TrialType(Names, Steps, Floats)

(* Who works on which trial number: the thread that drew it, the answer     *)
(* that carries it, the RemoteTrial, and the requests made for it.  Only    *)
(* connections the present coordinator process still serves count.          *)
Served(w) == thread[w].pc \in Serving

Carried(w) ==
    IF conn[w].resp # None /\ conn[w].resp.kind = "Trial" THEN {conn[w].resp.number} ELSE {}

Requested(w) ==
    IF conn[w].req # None /\ conn[w].req.op \in Numbered THEN {conn[w].req.number} ELSE {}

Owned(w) ==
    ({thread[w].number, worker[w].number} \ {None}) \cup Carried(w) \cup Requested(w)

(* How the parts of one connection fit together: what each place in the     *)
(* thread's and in the worker's program implies about the rest.             *)
ThreadShape(w) ==
    /\ thread[w].pc # "save_new" => thread[w].number = None
    /\ thread[w].pc = "save_new" =>
          thread[w].number # None /\ conn[w].req # None /\ conn[w].req.op = "NewTrial"
    /\ thread[w].pc = "save" =>
          /\ thread[w].current # None /\ conn[w].req # None
          /\ conn[w].req.op \in {"Suggest", "Report", "Finish"}
          /\ thread[w].current.number = conn[w].req.number
    /\ thread[w].pc = "none" =>
          worker[w].number = None /\ conn[w].resp = None /\ Requested(w) = {}
    /\ thread[w].pc = "gone" => conn[w].link = "down"
    /\ conn[w].link = "none" => thread[w].pc = "none" /\ worker[w].pc \in {"new", "exit"}
    /\ ~up => ~Served(w)

WorkerShape(w) ==
    /\ worker[w].pc = "new" => conn[w].link = "none"
    /\ worker[w].pc = "open" => WorkerToken[w] # None
    /\ conn[w].link = "none" => conn[w].req = None
    /\ conn[w].link = "up" /\ worker[w].pc # "call" => conn[w].req = None /\ conn[w].resp = None
    /\ conn[w].resp # None => conn[w].req = None
    /\ worker[w].pc = "objective" => worker[w].number # None /\ worker[w].view # None
    /\ worker[w].pc = "call" => worker[w].asked # None
    /\ worker[w].pc = "call" /\ worker[w].asked.op \in Numbered =>
          worker[w].number # None /\ worker[w].view # None
    /\ worker[w].number # None =>
          \/ worker[w].pc = "objective"
          \/ worker[w].pc = "call" /\ worker[w].asked.op \in Numbered

Shape == \A w \in Workers : ThreadShape(w) /\ WorkerShape(w)

\* Every number in use has been drawn from the counter.
OwnedBound == \A w \in Workers : Served(w) => \A n \in Owned(w) : n < counter

\* No two connections ever work on the same trial (coordinator.rs:207-211, the
\* fetch_add): what lets the handlers read, change and write back unlocked.
SingleOwner ==
    \A v, w \in Workers :
        v # w /\ Served(v) /\ Served(w) => Owned(v) \cap Owned(w) = {}

\* When a handler writes a trial back, what it loaded is still what is stored
\* (coordinator.rs:213-264): no update between partition and save_trial is lost.
ReadIsCurrent ==
    \A w \in Workers :
        thread[w].pc = "save" => thread[w].current = Current(conn[w].req.number)

\* What the proofs are by induction on.
IndInv == TypeOK /\ Shape /\ OwnedBound /\ SingleOwner /\ ReadIsCurrent

\* An acknowledged trial is in the history, with every parameter and report
\* the objective has seen and the outcome it returned (worker.rs:93-99).
AckedIsRecorded ==
    \A t \in acked : t.number \in DOMAIN rows /\ rows[t.number] = t

\* coordinator.rs:46-48: "the trial counter is seeded past any trials already
\* in storage so a resumed study keeps numbering where it left off".
SeededPast == up => \A n \in DOMAIN rows : n < counter

\* The history has no gap: its length is past its last number.
Gapless(h) == DOMAIN h = 0 .. Cardinality(DOMAIN h) - 1

\* What is true of that (coordinator.rs:67, the counter starts at the number of
\* stored trials): a coordinator started over a history without gaps, whatever
\* is in it, numbers past all of it, and past all that its threads save later,
\* until it dies.
ResumesPast ==
    [][up' /\ (IF up THEN SeededPast ELSE Gapless(rows)) => SeededPast']_vars

\* worker.rs:66-70: optimize returns an error for "a genuine network failure"
\* (or a failing storage, or a refusal), never for what the objective did.
ErrorsAreFailures ==
    \A w \in Workers :
        worker[w].pc = "error" =>
            \/ w \in failed
            \/ WorkerStudy[w] # StudyName
            \/ ServerToken # None /\ WorkerToken[w] # ServerToken

\* A connection that names another study, or has not presented the token,
\* works on no trial (coordinator.rs:149-181).
OnlyAdmitted ==
    \A w \in Workers :
        Served(w) /\ Owned(w) # {} =>
            /\ WorkerStudy[w] = StudyName
            /\ ServerToken # None => WorkerToken[w] = ServerToken

\* The recorded history is a ledger: numbers are used once and finished trials
\* stay as they are.
Ledger == INSTANCE TrialLedger WITH ledger <- rows

IsLedger == Ledger!LedgerSpec

\* Unless something fails, a trial that is handed out ends up terminal
\* (hyperopt-distributed/tests/distributed.rs:120, "Every trial reached a
\* terminal state").
TrialEnds(n) ==
    n \in DOMAIN rows ~> (n \in DOMAIN rows /\ Terminal(rows[n])) \/ failed # {}

\* A worker blocked in a call gets an answer or an error, whatever fails.
CallsReturn == \A w \in Workers : worker[w].pc = "call" ~> worker[w].pc # "call"

=============================================================================
