------------------------------- MODULE Worker -------------------------------
(***************************************************************************)
(* The worker processes (hyperopt-distributed/src/worker.rs): each runs    *)
(* optimize, which pulls trials one after the other and runs the user's    *)
(* objective on a RemoteTrial whose every call is a round trip.            *)
(*                                                                         *)
(* The objective is any program that makes at most MaxCalls calls and then *)
(* ends: with a value, pruned, or failed (an Err or a caught panic).       *)
(***************************************************************************)
EXTENDS Protocol

CONSTANTS WorkerStudy,   \* the study each worker names in its requests
          WorkerToken,   \* the token it presents, or None if it never does
          NTrials,       \* bound: trials each worker asks for, over all its runs
          MaxCalls       \* bound: calls an objective makes in one trial

ASSUME WorkerAssumption ==
    /\ WorkerStudy \in [Workers -> Studies]
    /\ WorkerToken \in [Workers -> Tokens \cup {None}]
    /\ NTrials \in [Workers -> Nat] /\ MaxCalls \in Nat

VARIABLE worker   \* worker[w]: the state of worker process w

(* pc        "new" before connect, "open" connected and still to            *)
(*           authenticate, "ready" outside optimize's trial loop body,      *)
(*           "call" blocked in Conn::call, "objective" in the closure,      *)
(*           "error" optimize has returned Err, "exit" the process is over  *)
(* asked     the request it is blocked on                                   *)
(* number    RemoteTrial::number while there is one                         *)
(* net_error whether RemoteTrial::net_error is set                          *)
(* left      trials still to pull;  calls: calls made in this trial         *)
(* view      aux: the trial as the objective has seen it, which is what a   *)
(*           local TrialContext would have recorded                         *)
Process ==
    [pc : {"new", "open", "ready", "call", "objective", "error", "exit"},
     asked : Request(Vals) \cup {None}, number : Nat \cup {None}, net_error : BOOLEAN,
     left : Nat, calls : 0..MaxCalls,
     view : TrialType(Names, Steps, Floats) \cup {None}]

WorkerTypeOK == worker \in [Workers -> Process]

WorkerInit ==
    worker = [w \in Workers |->
                [pc |-> "new", asked |-> None, number |-> None, net_error |-> FALSE,
                 left |-> NTrials[w], calls |-> 0, view |-> None]]

Become(w, s) == worker' = [worker EXCEPT ![w] = s]

\* Conn::call on an open connection: write the request, block on the answer.
Call(w, r) ==
    /\ conn[w].link = "up"
    /\ Transmit(w, r)

-----------------------------------------------------------------------------
(* Worker::connect, authenticate, best_value.                               *)

Connect(w) ==
    /\ worker[w].pc = "new"
    /\ SetConn(w, [conn[w] EXCEPT !.link = "up"])
    /\ Become(w, [worker[w] EXCEPT !.pc = IF WorkerToken[w] = None THEN "ready" ELSE "open"])

ConnectFails(w) ==
    /\ worker[w].pc = "new"
    /\ Become(w, [worker[w] EXCEPT !.pc = "exit"])
    /\ UNCHANGED conn

AskAuthenticate(w) ==
    LET r == [op |-> "Auth", token |-> WorkerToken[w]]
    IN  /\ worker[w].pc = "open"
        /\ Call(w, r)
        /\ Become(w, [worker[w] EXCEPT !.pc = "call", !.asked = r])

AskBestValue(w) ==
    LET r == [op |-> "BestValue", study |-> WorkerStudy[w]]
    IN  /\ worker[w].pc = "ready" /\ worker[w].left = 0
        /\ Call(w, r)
        /\ Become(w, [worker[w] EXCEPT !.pc = "call", !.asked = r])

-----------------------------------------------------------------------------
(* optimize: ask for a trial, run the objective, report the outcome.        *)

AskNewTrial(w) ==
    LET r == [op |-> "NewTrial", study |-> WorkerStudy[w]]
    IN  /\ worker[w].pc = "ready" /\ worker[w].left > 0
        /\ Call(w, r)
        /\ Become(w, [worker[w] EXCEPT !.pc = "call", !.asked = r,
                                 !.left = @ - 1])

\* A call the objective makes once net_error is set: no round trip any more.
\* suggest gives the default value, report does nothing, should_prune is false.
Computing(w) == worker[w].pc = "objective" /\ worker[w].calls < MaxCalls

ShortCircuit(w) ==
    /\ Computing(w) /\ worker[w].net_error
    /\ Become(w, [worker[w] EXCEPT !.calls = @ + 1])
    /\ UNCHANGED conn

ObjectiveCall(w, r) ==
    /\ Computing(w) /\ ~worker[w].net_error
    /\ Call(w, r)
    /\ Become(w, [worker[w] EXCEPT !.pc = "call", !.asked = r, !.calls = @ + 1])

AskSuggest(w, name, dist) ==
    ObjectiveCall(w, [op |-> "Suggest", study |-> WorkerStudy[w],
                      number |-> worker[w].number, name |-> name, dist |-> dist])

AskReport(w, step, v) ==
    ObjectiveCall(w, [op |-> "Report", study |-> WorkerStudy[w],
                      number |-> worker[w].number, step |-> step, value |-> v])

AskShouldPrune(w) ==
    ObjectiveCall(w, [op |-> "ShouldPrune", study |-> WorkerStudy[w],
                      number |-> worker[w].number])

\* A call on a connection already known to be down fails at once.
ObjectiveCallOnClosed(w) ==
    /\ Computing(w) /\ ~worker[w].net_error /\ conn[w].link = "down"
    /\ Become(w, [worker[w] EXCEPT !.calls = @ + 1, !.net_error = TRUE])
    /\ UNCHANGED conn

\* What is left of a worker whose trial is over.
NoTrial(s) == [s EXCEPT !.asked = None, !.number = None, !.net_error = FALSE,
                        !.calls = 0, !.view = None]

\* The closure ends and optimize returns Err: a call inside failed, or the
\* connection is down and finish fails.
ReturnNetError(w) ==
    /\ worker[w].pc = "objective"
    /\ worker[w].net_error \/ conn[w].link = "down"
    /\ Become(w, NoTrial([worker[w] EXCEPT !.pc = "error"]))
    /\ UNCHANGED conn

\* The closure ends and the outcome is reported.
AskFinish(w, o) ==
    LET r == [op |-> "Finish", study |-> WorkerStudy[w],
              number |-> worker[w].number, outcome |-> o]
    IN  /\ worker[w].pc = "objective" /\ ~worker[w].net_error
        /\ Call(w, r)
        /\ Become(w, [worker[w] EXCEPT !.pc = "call", !.asked = r,
                                 !.view = FinishTrial(@, o)])

-----------------------------------------------------------------------------
(* The way back from Conn::call: the answer expected, or Err.               *)

Receiving(w, op, kind) ==
    /\ worker[w].pc = "call" /\ worker[w].asked.op = op
    /\ conn[w].resp # None /\ conn[w].resp.kind = kind

Return(w, pc) == Become(w, [worker[w] EXCEPT !.pc = pc, !.asked = None])

RecvAuth(w) ==
    /\ Receiving(w, "Auth", "Ack")
    /\ Return(w, "ready") /\ TakeResponse(w)

RecvTrial(w) ==
    /\ Receiving(w, "NewTrial", "Trial")
    /\ LET n == conn[w].resp.number
       IN  Become(w, [worker[w] EXCEPT !.pc = "objective", !.asked = None,
                                 !.number = n, !.view = NewTrial(n)])
    /\ TakeResponse(w)

RecvValue(w) ==
    /\ Receiving(w, "Suggest", "Value")
    /\ Become(w, [worker[w] EXCEPT !.pc = "objective", !.asked = None,
                                 !.view = Record(@, worker[w].asked.name, conn[w].resp.value)])
    /\ TakeResponse(w)

RecvReported(w) ==
    /\ Receiving(w, "Report", "Ack")
    /\ Become(w, [worker[w] EXCEPT !.pc = "objective", !.asked = None,
                                 !.view = AddReport(@, worker[w].asked.step, worker[w].asked.value)])
    /\ TakeResponse(w)

RecvPrune(w) ==
    /\ Receiving(w, "ShouldPrune", "Prune")
    /\ Return(w, "objective") /\ TakeResponse(w)

RecvFinished(w) ==
    /\ Receiving(w, "Finish", "Ack")
    /\ Become(w, NoTrial([worker[w] EXCEPT !.pc = "ready"]))
    /\ TakeResponse(w)

RecvBest(w) ==
    /\ Receiving(w, "BestValue", "Best")
    /\ Return(w, "ready") /\ TakeResponse(w)

\* An Error response, or a connection that fails before the answer is read.
\* Inside the objective it is kept in net_error, elsewhere the call returns it.
CallFails(w) ==
    /\ worker[w].pc = "call"
    /\ conn[w].link = "down" \/ conn[w].resp = Error
    /\ IF worker[w].asked.op \in {"Suggest", "Report", "ShouldPrune"}
       THEN Become(w, [worker[w] EXCEPT !.pc = "objective", !.asked = None,
                                 !.net_error = TRUE])
       ELSE Become(w, NoTrial([worker[w] EXCEPT !.pc = "error"]))
    /\ TakeResponse(w)

\* authenticate, new_trial or best_value on a connection that is down.
CallOnClosed(w) ==
    /\ worker[w].pc \in {"open", "ready"} /\ conn[w].link = "down"
    /\ Become(w, [worker[w] EXCEPT !.pc = "error"])
    /\ UNCHANGED conn

\* The program that called optimize may go on using the same Worker.
Retry(w) ==
    /\ worker[w].pc = "error"
    /\ Become(w, [worker[w] EXCEPT !.pc = "ready"])
    /\ UNCHANGED conn

Leave(w) ==
    /\ Become(w, NoTrial([worker[w] EXCEPT !.pc = "exit"]))
    /\ Disconnect(w)

\* ... or be done with it: dropping it closes the connection.
Quit(w) ==
    /\ worker[w].pc = "error" \/ (worker[w].pc = "ready" /\ worker[w].left = 0)
    /\ Leave(w)

WorkerCrash(w) == worker[w].pc \notin {"new", "exit"} /\ Leave(w)

WorkerStep(w) ==
    \/ AskAuthenticate(w) \/ AskBestValue(w) \/ AskNewTrial(w)
    \/ ShortCircuit(w) \/ ObjectiveCallOnClosed(w) \/ ReturnNetError(w)
    \/ \E name \in Names, dist \in Dists : AskSuggest(w, name, dist)
    \/ \E step \in Steps, v \in Vals : AskReport(w, step, v)
    \/ AskShouldPrune(w)
    \/ \E o \in Outcome(Vals) : AskFinish(w, o)
    \/ RecvAuth(w) \/ RecvTrial(w) \/ RecvValue(w) \/ RecvReported(w)
    \/ RecvPrune(w) \/ RecvBest(w) \/ CallFails(w) \/ CallOnClosed(w)
    \/ Retry(w) \/ Quit(w)

=============================================================================
