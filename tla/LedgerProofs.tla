---------------------------- MODULE LedgerProofs ----------------------------
(***************************************************************************)
(* More theorems about Distributed: what a worker has been told is what is *)
(* stored, so what was acknowledged stays recorded and the history is a    *)
(* ledger; and who may work, and why a run ends in an error.               *)
(***************************************************************************)
EXTENDS DistributedProofs

-----------------------------------------------------------------------------
(* The request under way, the trial it is about and the stored trial.       *)

\* A request names what its worker names, and on an open connection it is the one
\* the worker is waiting on.  Once the outcome is under way nothing else is.
Posted(w) ==
    /\ worker[w].net_error => worker[w].pc = "objective"
    /\ conn[w].req # None =>
          /\ conn[w].req.op = "Auth" => conn[w].req.token = WorkerToken[w]
          /\ conn[w].req.op \notin {"Auth", "Unreadable"} => conn[w].req.study = WorkerStudy[w]
          /\ conn[w].link = "up" =>
                worker[w].pc = "call" /\ conn[w].req = Wire(worker[w].asked)
          /\ conn[w].req.op = "Finish" /\ worker[w].number # None =>
                worker[w].pc = "call" /\ worker[w].asked.op = "Finish"

\* The worker waits for the answer to an outcome (worker.rs:93-99).
Finishing(w) == worker[w].pc = "call" /\ worker[w].asked.op = "Finish"

\* The numbers whose trial is still to be finished through w.
Unfinished(w) ==
    Requested(w) \cup Carried(w)
        \cup (IF Finishing(w) THEN {} ELSE {worker[w].number} \ {None})

\* Those trials are recorded and running, and a number just drawn is not recorded yet.
Outstanding(w) ==
    /\ Served(w) => \A n \in Unfinished(w) : n \in DOMAIN rows /\ rows[n].state = "Running"
    /\ thread[w].pc = "save_new" => thread[w].number \notin DOMAIN rows

\* On an open connection, what the objective has seen of its trial is what is stored,
\* but for the change that is under way.
InStep(w) ==
    LET s == worker[w]
        c == conn[w]
        row == rows[s.number]
    IN  /\ c.resp # None /\ c.resp.kind = "Trial" =>
              rows[c.resp.number] = NewTrial(c.resp.number)
        /\ s.number # None => s.view.number = s.number
        /\ s.pc = "objective" /\ ~s.net_error => row = s.view
        /\ s.pc = "call" /\ s.asked.op \in Numbered => s.asked.number = s.number
        /\ s.pc = "call" /\ s.asked.op \in {"Suggest", "Report"} /\ c.req # None => row = s.view
        /\ s.pc = "call" /\ s.asked.op = "Suggest" /\ c.resp # None /\ c.resp.kind = "Value" =>
              row = Record(s.view, s.asked.name, c.resp.value)
        /\ s.pc = "call" /\ s.asked.op = "Report" /\ c.resp # None /\ c.resp.kind = "Ack" =>
              row = AddReport(s.view, s.asked.step, s.asked.value)
        /\ s.pc = "call" /\ s.asked.op = "ShouldPrune" => row = s.view
        /\ s.pc = "call" /\ s.asked.op = "Finish" /\ c.req # None /\ c.req.op = "Finish" =>
              s.view = FinishTrial(row, s.asked.outcome)

\* An acknowledgement of an outcome that the worker has yet to read, on any connection.
Acknowledged(w) ==
    Finishing(w) /\ conn[w].resp # None /\ conn[w].resp.kind = "Ack" =>
        /\ worker[w].view.number \in DOMAIN rows
        /\ rows[worker[w].view.number] = worker[w].view
        /\ Terminal(worker[w].view)

\* All of it, for one worker.
Linked(w) ==
    /\ Posted(w) /\ Outstanding(w) /\ Acknowledged(w)
    /\ conn[w].link = "up" => InStep(w)

\* What was acknowledged is recorded, and has ended.
AckedEnded == AckedIsRecorded /\ \A t \in acked : Terminal(t)

\* The inductive invariant of NothingAckedIsLost and DistributedIsLedger.
LedgerInv ==
    /\ Unshared /\ ReadIsCurrent /\ SeededPast /\ (up \/ Gapless(rows))
    /\ AckedEnded /\ \A w \in Workers : Linked(w)

-----------------------------------------------------------------------------
\* The worker has met a fault, or was given the wrong study or token.
Excused(w) ==
    \/ w \in failed \/ WorkerStudy[w] # StudyName
    \/ ServerToken # None /\ WorkerToken[w] # ServerToken

\* Who may be believed: a thread that has accepted a token, or needs none.
Authed(w) ==
    /\ thread[w].authed => ServerToken = None \/ WorkerToken[w] = ServerToken
    /\ thread[w].pc = "none" => ~thread[w].authed
    /\ Served(w) /\ ServerToken = None => thread[w].authed

\* A worker that nothing has happened to and that may work is not refused anything.
Blameless(w) ==
    ~Excused(w) =>
        /\ worker[w].pc # "error" /\ ~worker[w].net_error
        /\ conn[w].link = "down" => worker[w].pc = "exit"
        /\ conn[w].resp # Error
        /\ conn[w].req # BadLine
        /\ ServerToken # None =>
              \/ worker[w].pc \in {"new", "open", "exit"}
              \/ worker[w].pc = "call" /\ worker[w].asked.op = "Auth" /\ conn[w].resp = None
              \/ thread[w].authed

\* The inductive invariants of ErrorsHaveCauses and Admission.
ErrorInv == Typed /\ \A w \in Workers : Posted(w) /\ Authed(w) /\ Blameless(w)

AdmitInv == Typed /\ OnlyAdmitted /\ \A w \in Workers : Posted(w) /\ Authed(w)

-----------------------------------------------------------------------------
(* What a worker's step comes to, seen at its connection.                   *)

\* It sends request r, about its trial if it is in the objective.
Asks(w, r) ==
    /\ conn[w].link = "up" /\ conn'[w] = [conn[w] EXCEPT !.req = Wire(r)]
    /\ worker'[w].pc = "call" /\ worker'[w].asked = r /\ ~worker'[w].net_error
    /\ worker'[w].number = worker[w].number
    /\ r.op \in Numbered => worker[w].pc = "objective" /\ r.number = worker[w].number
    /\ r.op \notin Numbered => worker[w].pc \in {"open", "ready"}
    /\ r.op = "Auth" => worker[w].pc = "open" /\ r.token = WorkerToken[w]
    /\ r.op # "Auth" => worker[w].pc # "open" /\ r.study = WorkerStudy[w]
    /\ worker'[w].view = IF r.op = "Finish" THEN FinishTrial(worker[w].view, r.outcome)
                                            ELSE worker[w].view
    /\ worker[w].pc = "objective" => ~worker[w].net_error

\* It reads an answer, of the kind it waits for, and goes on in the objective.
Learns(w) ==
    LET s == worker[w]
        a == conn[w].resp
    IN  /\ s.pc = "call" /\ a # None /\ conn'[w] = [conn[w] EXCEPT !.resp = None]
        /\ worker'[w].pc = "objective" /\ worker'[w].net_error = s.net_error
        /\ \/ /\ s.asked.op = "NewTrial" /\ a.kind = "Trial"
              /\ worker'[w].number = a.number /\ worker'[w].view = NewTrial(a.number)
           \/ /\ s.asked.op \in Numbered \ {"Finish"} /\ worker'[w].number = s.number
              /\ \/ /\ s.asked.op = "Suggest" /\ a.kind = "Value"
                    /\ worker'[w].view = Record(s.view, s.asked.name, a.value)
                 \/ /\ s.asked.op = "Report" /\ a.kind = "Ack"
                    /\ worker'[w].view = AddReport(s.view, s.asked.step, s.asked.value)
                 \/ s.asked.op = "ShouldPrune" /\ worker'[w].view = s.view

\* It goes on without an answer, for the rest of the trial.
Trips(w) ==
    /\ worker'[w].pc = "objective" /\ worker'[w].net_error
    /\ worker'[w].number = worker[w].number /\ worker'[w].view = worker[w].view
    /\ \/ /\ worker[w].pc = "objective" /\ conn'[w] = conn[w]
          /\ worker[w].net_error \/ conn[w].link = "down"
       \/ /\ worker[w].pc = "call" /\ worker[w].asked.op \in Numbered \ {"Finish"}
          /\ conn'[w] = [conn[w] EXCEPT !.resp = None]
          /\ conn[w].link = "down" \/ conn[w].resp = Error

\* It is between trials: after an answer, after giving up, or before leaving.
Rests(w) ==
    /\ worker[w].pc \notin {"new", "exit"}
    /\ worker'[w].number = None /\ ~worker'[w].net_error
    /\ conn'[w].req = conn[w].req /\ conn'[w].resp \in {conn[w].resp, None}
    /\ \/ /\ worker'[w].pc = "ready" /\ conn'[w].link = conn[w].link
          /\ \/ worker[w].pc = "error"
             \/ /\ worker[w].pc = "call" /\ conn[w].resp # None
                /\ worker[w].asked.op \notin Numbered \ {"Finish"}
                /\ worker[w].asked.op = "Auth" => conn[w].resp.kind = "Ack"
       \/ /\ worker'[w].pc = "error" /\ conn'[w].link = conn[w].link
          /\ \/ conn[w].link = "down" \/ worker[w].net_error
             \/ worker[w].pc = "call" /\ conn[w].resp = Error
       \/ worker'[w].pc = "exit" /\ conn'[w].link = "down"

\* What the lemmas of this section need of the state before.
Parts(w) ==
    /\ Typing(w) /\ ThreadShape(w) /\ WorkerShape(w)
    /\ conn \in [Workers -> Connection] /\ worker \in [Workers -> Process]
    /\ thread \in [Workers -> Thread]

\* A well-typed state has them.
LEMMA PartsOf == ASSUME Typed, NEW w \in Workers PROVE Parts(w)
BY TypedParts DEF Parts, Typed, TypeOK, ConnTypeOK, CoordTypeOK, WorkerTypeOK

\* Every request a worker sends is an Asks (worker.rs:229-300).
LEMMA AskMoves ==
    ASSUME Typed, NEW w \in Workers, Posted(w),
           \/ AskAuthenticate(w) \/ AskBestValue(w) \/ AskNewTrial(w)
           \/ \E name \in Names, dist \in Dists : AskSuggest(w, name, dist)
           \/ \E step \in Steps, v \in Vals : AskReport(w, step, v)
           \/ AskShouldPrune(w)
           \/ \E o \in Outcome(Vals) : AskFinish(w, o)
    PROVE  \E r : Asks(w, r)
<1>1. Parts(w)
  BY PartsOf
<1> USE <1>1 DEF Parts, Connection, Process, Become, SetConn, Call, Transmit, Posted, Numbered
<1>2. CASE AskAuthenticate(w)
  <2> DEFINE r == [op |-> "Auth", token |-> WorkerToken[w]]
  <2>1. Asks(w, r)
    BY <1>2 DEF AskAuthenticate, Asks
  <2> QED BY <2>1
<1>3. CASE AskBestValue(w)
  <2> DEFINE r == [op |-> "BestValue", study |-> WorkerStudy[w]]
  <2>1. Asks(w, r)
    BY <1>3 DEF AskBestValue, Asks
  <2> QED BY <2>1
<1>4. CASE AskNewTrial(w)
  <2> DEFINE r == [op |-> "NewTrial", study |-> WorkerStudy[w]]
  <2>1. Asks(w, r)
    BY <1>4 DEF AskNewTrial, Asks
  <2> QED BY <2>1
<1>5. ASSUME NEW r, ObjectiveCall(w, r), r.op \in Numbered, r.op # "Finish",
             r.number = worker[w].number, r.study = WorkerStudy[w]
      PROVE  Asks(w, r)
  BY <1>5 DEF ObjectiveCall, Computing, Asks
<1>6. ASSUME NEW name \in Names, NEW dist \in Dists, AskSuggest(w, name, dist)
      PROVE  \E r : Asks(w, r)
  BY <1>5, <1>6 DEF AskSuggest
<1>7. ASSUME NEW step \in Steps, NEW v \in Vals, AskReport(w, step, v)
      PROVE  \E r : Asks(w, r)
  BY <1>5, <1>7 DEF AskReport
<1>8. CASE AskShouldPrune(w)
  BY <1>5, <1>8 DEF AskShouldPrune
<1>9. ASSUME NEW o \in Outcome(Vals), AskFinish(w, o)
      PROVE  \E r : Asks(w, r)
  <2> DEFINE r == [op |-> "Finish", study |-> WorkerStudy[w], number |-> worker[w].number,
                   outcome |-> o]
  <2>1. /\ conn[w].link = "up" /\ conn'[w] = [conn[w] EXCEPT !.req = Wire(r)]
        /\ worker[w].pc = "objective" /\ ~worker[w].net_error
        /\ worker'[w] = [worker[w] EXCEPT !.pc = "call", !.asked = r,
                                          !.view = FinishTrial(worker[w].view, o)]
    BY <1>9 DEF AskFinish
  <2>2. Asks(w, r)
    BY <2>1 DEF Asks
  <2> QED BY <2>2
<1> QED BY <1>2, <1>3, <1>4, <1>6, <1>7, <1>8, <1>9

\* Every other step a worker takes, reading an answer, giving up or leaving, is one of
\* the four (worker.rs:71-102, 129-196, 229-318).
LEMMA WorkerMoves ==
    ASSUME Typed, NEW w \in Workers, Posted(w),
           WorkerStep(w) \/ RecvFinished(w) \/ WorkerCrash(w)
    PROVE  (\E r : Asks(w, r)) \/ Learns(w) \/ Trips(w) \/ Rests(w)
<1>1. Parts(w)
  BY PartsOf
<1> USE <1>1 DEF Parts, Connection, Process, Become, SetConn, WorkerShape, Posted, Numbered,
                 Receiving, TakeResponse, Return
<1>2. CASE ShortCircuit(w)
  <2>1. /\ worker[w].pc = "objective" /\ worker[w].net_error /\ conn' = conn
        /\ worker'[w] = [worker[w] EXCEPT !.calls = @ + 1]
    BY <1>2 DEF ShortCircuit, Computing
  <2> QED BY <2>1 DEF Trips
<1>3. CASE ObjectiveCallOnClosed(w)
  <2>1. /\ worker[w].pc = "objective" /\ conn[w].link = "down" /\ conn' = conn
        /\ worker'[w] = [worker[w] EXCEPT !.calls = @ + 1, !.net_error = TRUE]
    BY <1>3 DEF ObjectiveCallOnClosed, Computing
  <2> QED BY <2>1 DEF Trips
<1>4. CASE ReturnNetError(w)
  BY <1>4 DEF ReturnNetError, Rests, NoTrial
<1>5. CASE CallFails(w)
  <2>1. CASE worker[w].asked.op \in {"Suggest", "Report", "ShouldPrune"}
    <3>1. /\ worker'[w] = [worker[w] EXCEPT !.pc = "objective", !.asked = None,
                                            !.net_error = TRUE]
          /\ conn'[w] = [conn[w] EXCEPT !.resp = None] /\ worker[w].pc = "call"
          /\ conn[w].link = "down" \/ conn[w].resp = Error
      BY <1>5, <2>1 DEF CallFails
    <3>2. /\ worker'[w].pc = "objective" /\ worker'[w].net_error
          /\ worker'[w].number = worker[w].number /\ worker'[w].view = worker[w].view
      BY <3>1
    <3>3. worker[w].asked.op \in Numbered \ {"Finish"}
      BY <2>1
    <3> QED BY <3>1, <3>2, <3>3 DEF Trips
  <2>2. CASE worker[w].asked.op \notin {"Suggest", "Report", "ShouldPrune"}
    <3>1. /\ worker'[w] = NoTrial([worker[w] EXCEPT !.pc = "error"])
          /\ conn'[w] = [conn[w] EXCEPT !.resp = None] /\ worker[w].pc = "call"
          /\ conn[w].link = "down" \/ conn[w].resp = Error
      BY <1>5, <2>2 DEF CallFails
    <3> QED BY <3>1 DEF Rests, NoTrial
  <2> QED BY <2>1, <2>2
<1>6. CASE CallOnClosed(w) \/ Retry(w)
  <2>1. CASE CallOnClosed(w)
    BY <2>1 DEF CallOnClosed, Rests
  <2>2. CASE Retry(w)
    BY <2>2 DEF Retry, Rests
  <2> QED BY <1>6, <2>1, <2>2
<1>7. CASE Quit(w) \/ WorkerCrash(w)
  <2>1. /\ worker'[w] = NoTrial([worker[w] EXCEPT !.pc = "exit"])
        /\ conn'[w] = [conn[w] EXCEPT !.link = "down"]
        /\ worker[w].pc \notin {"new", "exit"}
    BY <1>7 DEF Quit, WorkerCrash, Leave, Disconnect
  <2> QED BY <2>1 DEF Rests, NoTrial
<1>8. CASE RecvAuth(w)
  BY <1>8 DEF RecvAuth, Rests
<1>9. CASE RecvBest(w)
  BY <1>9 DEF RecvBest, Rests
<1>10. CASE RecvFinished(w)
  BY <1>10 DEF RecvFinished, Rests, NoTrial
<1>11. CASE RecvTrial(w)
  BY <1>11 DEF RecvTrial, Learns
<1>12. CASE RecvValue(w)
  BY <1>12 DEF RecvValue, Learns
<1>13. CASE RecvReported(w)
  BY <1>13 DEF RecvReported, Learns
<1>14. CASE RecvPrune(w)
  BY <1>14 DEF RecvPrune, Learns
<1> QED BY <1>2, <1>3, <1>4, <1>5, <1>6, <1>7, <1>8, <1>9, <1>10, <1>11, <1>12, <1>13, <1>14,
           AskMoves
        DEF WorkerStep

-----------------------------------------------------------------------------
(* What a thread's step comes to, seen at its connection.                   *)

\* It answers r to the request it has read.
Answered(w, r) ==
    /\ thread[w].pc \in Serving /\ thread'[w].pc = "read" /\ conn[w].req # None
    /\ conn'[w] = [conn[w] EXCEPT !.req = None,
                                  !.resp = IF conn[w].link = "up" THEN r ELSE None]

\* ... and has stored nothing.
Replies(w, r) ==
    /\ Answered(w, r) /\ rows' = rows
    /\ \/ /\ r = Error /\ thread'[w].authed = thread[w].authed
          /\ \/ w \in failed'
             \/ /\ conn[w].req.op = "Auth"
                /\ ServerToken # None /\ conn[w].req.token # ServerToken
             \/ conn[w].req.op # "Auth" /\ ~Admitted(w)
       \/ /\ r = Ack /\ conn[w].req.op = "Auth" /\ thread'[w].authed
          /\ ServerToken = None \/ conn[w].req.token = ServerToken
       \/ /\ thread'[w].authed = thread[w].authed
          /\ \/ r.kind = "Prune" /\ conn[w].req.op = "ShouldPrune"
             \/ r.kind = "Best" /\ conn[w].req.op = "BestValue"

\* ... and has stored trial t.
Saves(w, t, r) ==
    /\ Answered(w, r) /\ t \in TrialRows /\ thread'[w].authed = thread[w].authed
    /\ rows' = [n \in DOMAIN rows \cup {t.number} |-> IF n = t.number THEN t ELSE rows[n]]
    /\ \/ /\ thread[w].pc = "save_new"
          /\ t = NewTrial(thread[w].number) /\ r = TrialIs(thread[w].number)
       \/ /\ thread[w].pc = "save" /\ conn[w].req.op = "Suggest"
          /\ \E v \in Int : t = Record(thread[w].current, conn[w].req.name, v) /\ r = ValueIs(v)
       \/ /\ thread[w].pc = "save" /\ conn[w].req.op = "Report" /\ r = Ack
          /\ t = AddReport(thread[w].current, conn[w].req.step, conn[w].req.value)
       \/ /\ thread[w].pc = "save" /\ conn[w].req.op = "Finish" /\ r = Ack
          /\ t = FinishTrial(thread[w].current, conn[w].req.outcome)
          /\ conn[w].req.outcome \in Outcome(Int)

\* It goes on with the request, or begins to read, and answers nothing.
GoesOn(w) ==
    /\ rows' = rows /\ conn'[w] = conn[w]
    /\ \/ /\ thread[w].pc = "none" /\ thread'[w].pc = "read"
          /\ thread'[w].authed = (ServerToken = None)
       \/ /\ thread[w].pc = "read" /\ thread'[w].pc = "save"
          /\ thread'[w].authed = thread[w].authed
       \/ /\ thread[w].pc = "read" /\ thread'[w].pc = "save_new" /\ thread'[w].number = counter
          /\ thread'[w].authed = thread[w].authed /\ Admitted(w)
          /\ conn[w].req # None /\ conn[w].req.op = "NewTrial"

\* It ends, and its connection with it.
Ends(w) ==
    /\ rows' = rows /\ thread'[w] = Gone
    /\ conn'[w] = [conn[w] EXCEPT !.link = "down", !.req = None]
    /\ conn[w].link = "down" \/ w \in failed'

\* Every step of a handler thread is one of the four, and a fault it meets is booked
\* to its worker (coordinator.rs:149-297, 366-390).
LEMMA ThreadMoves ==
    ASSUME Typed, NEW w \in Workers, ThreadStep(w), UNCHANGED worker
    PROVE  /\ \/ \E r \in Response : Replies(w, r)
              \/ \E t, r : Saves(w, t, r)
              \/ GoesOn(w) \/ Ends(w)
           /\ failed \subseteq failed'
<1>1. Parts(w)
  BY PartsOf
<1>2. /\ Ack \in Response /\ Error \in Response
      /\ \A b \in BOOLEAN : PruneIs(b) \in Response /\ PruneIs(b).kind = "Prune"
      /\ \A v : BestIs(v) \in Response /\ BestIs(v).kind = "Best"
  BY DEF Ack, Error, PruneIs, BestIs, Response
<1>3. thread[w].pc = "save" =>
         /\ thread[w].current \in TrialType(Names, Steps, Int)
         /\ conn[w].req \in Request(Vals \ {NaN})
  BY <1>1 DEF Parts, Typing, Thread, Connection, ThreadShape, TrialRows, BadLine
<1> USE <1>1 DEF Parts, Thread, Connection, SetConn, Continue, Answer, ThreadShape, Serving
<1>4. CASE Accept(w)
  BY <1>4 DEF Accept, GoesOn, NoThread
<1>5. CASE Hangup(w)
  BY <1>5 DEF Hangup, Ends
<1>6. CASE Authenticate(w)
  BY <1>2, <1>6 DEF Authenticate, Pending, Replies, Answered
<1>7. CASE Refuse(w)
  BY <1>2, <1>7 DEF Refuse, Replies, Answered, coordVars
<1>8. CASE NewTrialDraw(w)
  BY <1>8 DEF NewTrialDraw, Pending, GoesOn
<1>9. CASE Partition(w)
  BY <1>9 DEF Partition, GoesOn, Pending
<1>10. ASSUME NEW verdict \in BOOLEAN, ShouldPrune(w, verdict)
      PROVE  (\E r \in Response : Replies(w, r)) /\ failed \subseteq failed'
  BY <1>2, <1>10 DEF ShouldPrune, Pending, Replies, Answered, coordVars
<1>11. CASE BestValueResponse(w)
  BY <1>2, <1>11 DEF BestValueResponse, Pending, Replies, Answered, coordVars
<1>12. CASE StorageError(w)
  BY <1>2, <1>12 DEF StorageError, Pending, Replies, Answered
<1>13. CASE SamplerPanic(w)
  BY <1>13 DEF SamplerPanic, Ends
<1>14. CASE NewTrialSave(w)
  <2> DEFINE t == NewTrial(thread[w].number)
             r == TrialIs(thread[w].number)
  <2>1. t \in TrialRows /\ SaveTrial(t)
    BY <1>14, NewTrialType DEF NewTrialSave, TrialRows
  <2>2. rows' = [n \in DOMAIN rows \cup {t.number} |-> IF n = t.number THEN t ELSE rows[n]]
    BY <2>1, SaveTrialType DEF Typed, TypeOK
  <2>3. Answered(w, r) /\ thread'[w].authed = thread[w].authed /\ failed' = failed
    BY <1>14 DEF NewTrialSave, Answered
  <2>4. Saves(w, t, r)
    BY <1>14, <2>1, <2>2, <2>3 DEF NewTrialSave, Saves
  <2> QED BY <2>3, <2>4
<1>15. ASSUME NEW t, NEW r, SaveCurrent(w, t, r), thread[w].pc = "save"
       PROVE  Answered(w, r) /\ thread'[w].authed = thread[w].authed /\ failed' = failed
  BY <1>15 DEF SaveCurrent, Answered
<1>16. ASSUME NEW t \in TrialRows, SaveTrial(t)
       PROVE  rows' = [n \in DOMAIN rows \cup {t.number} |-> IF n = t.number THEN t ELSE rows[n]]
  BY <1>16, SaveTrialType DEF Typed, TypeOK
<1>17. Vals \ {NaN} \subseteq Int /\ Dists \subseteq SUBSET Int
  BY ProtocolAssumption DEF Floats
<1>18. ASSUME NEW v \in UNION Dists, SuggestSave(w, v)
       PROVE  (\E t, r : Saves(w, t, r)) /\ failed \subseteq failed'
  <2> DEFINE t == Record(thread[w].current, conn[w].req.name, v)
  <2>1. thread[w].pc = "save" /\ conn[w].req.op = "Suggest" /\ v \in Int
        /\ SaveCurrent(w, t, ValueIs(v))
    BY <1>17, <1>18 DEF SuggestSave, Saving
  <2>2. t \in TrialRows
    BY <1>3, <2>1, RecordType, RequestFields DEF TrialRows
  <2>3. Saves(w, t, ValueIs(v))
    BY <1>15, <1>16, <2>1, <2>2 DEF Saves, SaveCurrent
  <2> QED BY <1>15, <2>1, <2>3
<1>19. CASE ReportSave(w)
  <2> DEFINE t == AddReport(thread[w].current, conn[w].req.step, conn[w].req.value)
  <2>1. thread[w].pc = "save" /\ conn[w].req.op = "Report" /\ SaveCurrent(w, t, Ack)
    BY <1>19 DEF ReportSave, Saving
  <2>2. conn[w].req.step \in Steps /\ conn[w].req.value \in Int
    BY <1>3, <1>17, <2>1, RequestFields
  <2>3. t \in TrialRows
    BY <1>3, <2>1, <2>2, AddReportType DEF TrialRows
  <2>4. Saves(w, t, Ack)
    BY <1>15, <1>16, <2>1, <2>3 DEF Saves, SaveCurrent
  <2> QED BY <1>15, <2>1, <2>4
<1>20. CASE FinishSave(w)
  <2> DEFINE t == FinishTrial(thread[w].current, conn[w].req.outcome)
  <2>1. thread[w].pc = "save" /\ conn[w].req.op = "Finish" /\ SaveCurrent(w, t, Ack)
    BY <1>20 DEF FinishSave, Saving
  <2>2. conn[w].req.outcome \in Outcome(Int)
    BY <1>3, <1>17, <2>1, RequestFields DEF Outcome
  <2>3. t \in TrialRows
    BY <1>3, <2>1, <2>2, FinishTrialType DEF TrialRows
  <2>4. Saves(w, t, Ack)
    BY <1>15, <1>16, <2>1, <2>2, <2>3 DEF Saves, SaveCurrent
  <2> QED BY <1>15, <2>1, <2>4
<1> QED BY <1>4, <1>5, <1>6, <1>7, <1>8, <1>9, <1>10, <1>11, <1>12, <1>13, <1>14, <1>18,
           <1>19, <1>20 DEF ThreadStep
-----------------------------------------------------------------------------
(* What any step comes to, seen at one connection.                          *)

\* A step of the worker, its handler standing still.
ByWorker(w) ==
    /\ thread'[w] = thread[w] /\ rows' = rows
    /\ (\E r : Asks(w, r)) \/ Learns(w) \/ Trips(w) \/ Rests(w)

\* A step of its handler, the worker standing still.
ByThread(w) ==
    /\ worker'[w] = worker[w]
    /\ \/ \E r \in Response : Replies(w, r)
       \/ \E t, r : Saves(w, t, r)
       \/ GoesOn(w) \/ Ends(w)

\* The worker dials, or cannot.
Dials(w) ==
    /\ rows' = rows /\ thread'[w] = thread[w] /\ worker[w].pc = "new"
    /\ \E pc \in {"open", "ready", "exit"}, link \in {"up", "none"} :
          /\ worker'[w] = [worker[w] EXCEPT !.pc = pc]
          /\ conn'[w] = [conn[w] EXCEPT !.link = link]
          /\ pc = "ready" => WorkerToken[w] = None
          /\ pc = "exit" <=> link = "none"

\* The connection breaks, between requests or under one.
Breaks(w) ==
    /\ rows' = rows /\ thread'[w] = thread[w] /\ worker'[w] = worker[w]
    /\ conn'[w] = [conn[w] EXCEPT !.link = "down"] /\ w \in failed'

\* The coordinator's end of it dies with the coordinator.
Loses(w) ==
    /\ "coordinator" \in Faults /\ conn[w].link # "none"
    /\ worker'[w] = worker[w] /\ thread'[w] = Gone
    /\ conn'[w] = [conn[w] EXCEPT !.link = "down", !.req = None]
    /\ conn[w].link = "up" => w \in failed'

\* Nothing happens there.
Still(w) == conn'[w] = conn[w] /\ thread'[w] = thread[w] /\ worker'[w] = worker[w]

\* A connection that was hit by a failure stays one.
LEMMA FailedGrows == ASSUME Typed, [Next]_vars PROVE failed \subseteq failed'
<1>1. CASE CoordStep
  BY <1>1 DEF CoordStep, Boot, BootFails, Crash
<1>2. ASSUME NEW w \in Workers, ThreadStep(w), UNCHANGED worker
      PROVE  failed \subseteq failed'
  BY <1>2, ThreadMoves
<1>3. ASSUME NEW w \in Workers,
             \/ WorkerStep(w) /\ UNCHANGED coordVars
             \/ Dial(w) \/ Finished(w) \/ NetBreak(w) \/ WorkerDies(w)
      PROVE  failed \subseteq failed'
  BY <1>3 DEF Dial, Finished, NetBreak, WorkerDies, coordVars
<1>4. CASE UNCHANGED vars
  BY <1>4 DEF vars
<1> QED BY <1>1, <1>2, <1>3, <1>4 DEF Next, Idle

\* A step at w is the worker's, its thread's, or the network's.
LEMMA StepAt ==
    ASSUME Typed, NEW w \in Workers, Posted(w),
           \/ ThreadStep(w) /\ UNCHANGED <<worker, acked>>
           \/ WorkerStep(w) /\ UNCHANGED <<coordVars, acked>>
           \/ Dial(w) \/ Finished(w) \/ NetBreak(w) \/ WorkerDies(w)
    PROVE  ByWorker(w) \/ ByThread(w) \/ Dials(w) \/ Breaks(w)
<1>1. CASE ThreadStep(w) /\ UNCHANGED <<worker, acked>>
  BY <1>1, ThreadMoves DEF ByThread
<1>2. CASE (WorkerStep(w) /\ UNCHANGED coordVars) \/ Finished(w) \/ WorkerDies(w)
  <2>1. WorkerStep(w) \/ RecvFinished(w) \/ WorkerCrash(w)
    BY <1>2 DEF Finished, WorkerDies
  <2>2. thread' = thread /\ rows' = rows
    BY <1>2 DEF Finished, WorkerDies, coordVars
  <2> QED BY <2>1, <2>2, WorkerMoves DEF ByWorker
<1>3. CASE NetBreak(w)
  BY <1>3, AtConnection DEF NetBreak, Disconnect, Breaks
<1>4. CASE Dial(w)
  <2>1. rows' = rows /\ thread' = thread /\ worker[w].pc = "new"
    BY <1>4 DEF Dial, Connect, ConnectFails, coordVars
  <2>2. CASE Connect(w)
    <3> DEFINE pc == IF WorkerToken[w] = None THEN "ready" ELSE "open"
    <3>1. /\ worker'[w] = [worker[w] EXCEPT !.pc = pc]
          /\ conn'[w] = [conn[w] EXCEPT !.link = "up"]
      BY <2>2, AtConnection DEF Connect
    <3>2. pc \in {"open", "ready"} /\ (pc = "ready" => WorkerToken[w] = None)
      OBVIOUS
    <3> HIDE DEF pc
    <3> QED BY <2>1, <3>1, <3>2 DEF Dials
  <2>3. CASE ConnectFails(w)
    <3>1. worker'[w] = [worker[w] EXCEPT !.pc = "exit"] /\ conn'[w] = conn[w]
      BY <2>3, AtConnection DEF ConnectFails
    <3>2. conn[w] = [conn[w] EXCEPT !.link = "none"]
      BY <2>1, TypedParts DEF Typing, Connection, WorkerShape
    <3> QED BY <2>1, <3>1, <3>2 DEF Dials
  <2> QED BY <1>4, <2>2, <2>3 DEF Dial
<1> QED BY <1>1, <1>2, <1>3, <1>4

\* Whatever the system does, at a given connection it is one of these.
LEMMA Seen ==
    ASSUME Typed, NEW w \in Workers, Posted(w), [Next]_vars
    PROVE  ByWorker(w) \/ ByThread(w) \/ Dials(w) \/ Breaks(w) \/ Loses(w) \/ Still(w)
<1>1. ASSUME NEW v \in Workers, Local(v) \/ Draw(v), v # w
      PROVE  Still(w)
  BY <1>1, Untouched DEF Local, Draw, Sound, Fits, Still
<1>2. CASE CoordStep /\ UNCHANGED <<worker, acked>>
  <2>1. CASE \E d \in Directions : Boot(d) \/ BootFails(d)
    BY <1>2, <2>1 DEF Boot, BootFails, Still
  <2>2. CASE Crash
    <3>1. CASE conn[w].link = "none"
      BY <1>2, <2>2, <3>1 DEF Crash, Still
    <3>2. CASE conn[w].link # "none"
      BY <1>2, <2>2, <3>2 DEF Crash, Loses
    <3> QED BY <3>1, <3>2
  <2> QED BY <1>2, <2>1, <2>2 DEF CoordStep
<1>3. CASE UNCHANGED vars
  BY <1>3 DEF vars, Still
<1>4. ASSUME NEW v \in Workers, v # w,
             \/ ThreadStep(v) /\ UNCHANGED <<worker, acked>>
             \/ WorkerStep(v) /\ UNCHANGED <<coordVars, acked>>
             \/ Dial(v) \/ Finished(v) \/ NetBreak(v) \/ WorkerDies(v)
      PROVE  Still(w)
  BY <1>1, <1>4, MoveCases
<1> QED BY <1>2, <1>3, <1>4, StepAt DEF Next, Idle

\* The parts of the next state, untangled from the invariant.
LEMMA TypedNext ==
    ASSUME Typed', NEW w \in Workers
    PROVE  Typing(w)' /\ ThreadShape(w)' /\ WorkerShape(w)'
BY DEF Typed, TypeOK, ConnTypeOK, CoordTypeOK, WorkerTypeOK, Shape, Typing

\* A request that has just been sent is the one its worker waits on, or is unreadable.
LEMMA Asked ==
    ASSUME Typed', NEW w \in Workers, NEW r, Asks(w, r)
    PROVE  /\ r \in Request(Vals) /\ Wire(r) # None
           /\ Wire(r) = r \/ Wire(r) = BadLine
           /\ BadLine.op = "Unreadable"
<1>1. r # None /\ r \in Request(Vals) \cup {None}
  BY TypedNext DEF Asks, Typing, Process, WorkerShape
<1>2. r \in Request(Vals)
  BY <1>1
<1> QED BY <1>2, WireType

-----------------------------------------------------------------------------
(* The request under way.                                                   *)

\* Whatever happens, the request on an open connection is the one its worker waits on:
\* one call at a time, on one stream (worker.rs:229-244).
LEMMA PostedStep ==
    ASSUME Typed, NEW w \in Workers, Posted(w), [Next]_vars
    PROVE  Posted(w)'
<1>1. Typed'
  BY TypedStep
<1>2. Typing(w) /\ ThreadShape(w) /\ WorkerShape(w) /\ Error # None
  BY TypedParts, NoneIsNoMessage DEF Error, Response
<1>3. ASSUME NEW r, Asks(w, r) PROVE Posted(w)'
  <2>1. /\ Wire(r) # None /\ (Wire(r) = r \/ Wire(r) = BadLine) /\ BadLine.op = "Unreadable"
    BY <1>1, <1>3, Asked
  <2>2. conn'[w].req = Wire(r) /\ conn'[w].link = "up"
    BY <1>2, <1>3 DEF Asks, Typing, Connection
  <2> QED BY <1>3, <2>1, <2>2 DEF Asks, Posted
<1>4. CASE Learns(w)
  <2>1. conn'[w].req = None
    BY <1>2, <1>4 DEF Learns, Typing, Connection, WorkerShape
  <2> QED BY <1>4, <2>1 DEF Learns, Posted
<1>5. CASE Trips(w)
  <2>1. conn'[w].req = conn[w].req /\ conn'[w].link = conn[w].link
    BY <1>2, <1>5 DEF Trips, Typing, Connection
  <2> QED BY <1>2, <1>5, <2>1 DEF Trips, Posted, WorkerShape, Numbered
<1>6. CASE Rests(w)
  <2>1. conn'[w].link = "up" => conn'[w].req = None
    BY <1>2, <1>6 DEF Rests, Posted, WorkerShape
  <2> QED BY <1>6, <2>1 DEF Rests, Posted
<1>7. CASE ByThread(w)
  <2>1. worker'[w] = worker[w] /\ (conn'[w].req = None \/ conn'[w] = conn[w])
    BY <1>2, <1>7 DEF ByThread, Replies, Saves, Answered, GoesOn, Ends, Typing, Connection
  <2> QED BY <2>1 DEF Posted
<1>8. CASE Dials(w)
  <2>1. conn'[w].req = None /\ worker'[w].net_error = worker[w].net_error /\ ~worker[w].net_error
    BY <1>2, <1>8 DEF Dials, Posted, Typing, Connection, Process, WorkerShape
  <2> QED BY <2>1 DEF Posted
<1>9. CASE Breaks(w) \/ Loses(w)
  <2>1. worker'[w] = worker[w] /\ conn'[w].link = "down" /\ conn'[w].req \in {conn[w].req, None}
    BY <1>2, <1>9 DEF Breaks, Loses, Typing, Connection
  <2> QED BY <2>1 DEF Posted
<1>10. CASE Still(w)
  BY <1>10 DEF Still, Posted
<1> QED BY <1>3, <1>4, <1>5, <1>6, <1>7, <1>8, <1>9, <1>10, Seen DEF ByWorker

\* A handler believes its client only after the right token, or when the server has
\* none (coordinator.rs:149-171).
LEMMA AuthedStep ==
    ASSUME Typed, NEW w \in Workers, Posted(w), Authed(w), [Next]_vars
    PROVE  Authed(w)'
<1>1. Typing(w) /\ Gone.pc = "gone" /\ ~Gone.authed
  BY TypedParts DEF Gone, NoThread
<1>2. ASSUME NEW r \in Response, Replies(w, r) PROVE Authed(w)'
  BY <1>1, <1>2 DEF Replies, Answered, Authed, Posted, Served, Serving, Typing, Thread
<1>3. ASSUME NEW t, NEW r, Saves(w, t, r) PROVE Authed(w)'
  BY <1>3 DEF Saves, Answered, Authed, Served, Serving
<1>4. CASE GoesOn(w)
  BY <1>4 DEF GoesOn, Authed, Served, Serving
<1>5. CASE thread'[w] \in {thread[w], Gone}
  BY <1>1, <1>5 DEF Authed, Served, Serving
<1> QED BY <1>2, <1>3, <1>4, <1>5, Seen
        DEF ByWorker, ByThread, Ends, Dials, Breaks, Loses, Still

\* Initially no connection has been opened.
LEMMA QuietInit ==
    ASSUME Init, NEW w \in Workers
    PROVE  /\ Posted(w) /\ Authed(w)
           /\ conn[w] = [link |-> "none", req |-> None, resp |-> None]
           /\ worker[w].pc = "new" /\ worker[w].number = None /\ ~worker[w].net_error
           /\ thread[w].pc = "none" /\ ~thread[w].authed
BY DEF Init, ConnInit, CoordInit, WorkerInit, NoThread, Posted, Authed, Served, Serving

-----------------------------------------------------------------------------
(* Who may work.                                                            *)

\* The study and token a thread has checked stay those of its worker.
LEMMA AdmitStep == AdmitInv /\ [Next]_vars => AdmitInv'
<1> SUFFICES ASSUME AdmitInv, [Next]_vars PROVE OnlyAdmitted'
  BY TypedStep, PostedStep, AuthedStep DEF AdmitInv
<1>1. Typed /\ OnlyAdmitted /\ \A w \in Workers : Posted(w) /\ Authed(w)
  BY DEF AdmitInv
<1> SUFFICES ASSUME NEW w \in Workers, Served(w)', Owned(w)' # {}
             PROVE  /\ WorkerStudy[w] = StudyName
                    /\ ServerToken # None => WorkerToken[w] = ServerToken
  BY DEF OnlyAdmitted
<1>2. ASSUME Served(w), Owned(w) # {}
      PROVE  /\ WorkerStudy[w] = StudyName
             /\ ServerToken # None => WorkerToken[w] = ServerToken
  BY <1>1, <1>2 DEF OnlyAdmitted
<1>3. ASSUME NEW v \in Workers, v # w, Fits(v)
      PROVE  Served(w) /\ Owned(w) # {}
  BY <1>1, <1>3, Untouched DEF Fits
<1>4. CASE Local(w)
  BY <1>2, <1>4 DEF Local, Sound
<1>5. CASE Draw(w)
  <2>1. /\ conn[w].req.study = StudyName /\ thread[w].authed
        /\ conn[w].req.study = WorkerStudy[w]
    BY <1>1, <1>5 DEF Draw, Admitted, Posted
  <2> QED BY <1>1, <2>1 DEF Authed
<1>6. ASSUME NEW v \in Workers, Local(v) \/ Draw(v), v # w
      PROVE  Served(w) /\ Owned(w) # {}
  BY <1>3, <1>6 DEF Local, Draw, Sound
<1>7. CASE CoordStep /\ UNCHANGED <<worker, acked>>
  BY <1>1, <1>7, CoordStepTyped
<1>8. CASE UNCHANGED vars
  BY <1>2, <1>8 DEF vars, Owned, Carried, Requested, Served
<1> QED BY <1>1, <1>2, <1>4, <1>5, <1>6, <1>7, <1>8, StepCases

\* A connection that names another study, or whose worker does not hold the token,
\* never works on a trial, whatever is lost and however often it tries
\* (coordinator.rs:149-181).
THEOREM Admission == Spec => []OnlyAdmitted
<1>1. Init => AdmitInv
  BY TypedInit, QuietInit DEF AdmitInv, OnlyAdmitted
<1>2. AdmitInv => OnlyAdmitted
  BY DEF AdmitInv
<1> QED BY <1>1, <1>2, AdmitStep, PTL DEF Spec

-----------------------------------------------------------------------------
(* Why a run ends in an error.                                              *)

\* A worker nothing has happened to keeps its connection, is refused nothing and is
\* told of no error, as long as no objective comes up with a NaN.
LEMMA BlamelessStep ==
    ASSUME NaN \notin Vals, Typed, NEW w \in Workers, Posted(w), Authed(w), Blameless(w),
           [Next]_vars
    PROVE  Blameless(w)'
<1>1. Typed' /\ failed \subseteq failed'
  BY TypedStep, FailedGrows
<1>2. /\ Typing(w) /\ ThreadShape(w) /\ WorkerShape(w)
      /\ Error # None /\ Error \in Response /\ Error.kind = "Error" /\ None # BadLine
      /\ BadLine.op = "Unreadable" /\ \A r \in Request(Vals \ {NaN}) : r.op # "Unreadable"
  BY TypedParts, NoneIsNoMessage DEF Error, Response, BadLine, Request
<1> SUFFICES ASSUME ~Excused(w)'
             PROVE  /\ worker'[w].pc # "error" /\ ~worker'[w].net_error
                    /\ conn'[w].link = "down" => worker'[w].pc = "exit"
                    /\ conn'[w].resp # Error /\ conn'[w].req # BadLine
                    /\ ServerToken # None =>
                         \/ worker'[w].pc \in {"new", "open", "exit"}
                         \/ /\ worker'[w].pc = "call" /\ worker'[w].asked.op = "Auth"
                            /\ conn'[w].resp = None
                         \/ thread'[w].authed
  BY DEF Blameless
<1>3. /\ w \notin failed' /\ WorkerStudy[w] = StudyName
      /\ ServerToken # None => WorkerToken[w] = ServerToken
      /\ worker[w].pc # "error" /\ ~worker[w].net_error
      /\ conn[w].link = "down" => worker[w].pc = "exit"
      /\ conn[w].resp # Error /\ conn[w].req # BadLine
      /\ ServerToken # None =>
           \/ worker[w].pc \in {"new", "open", "exit"}
           \/ worker[w].pc = "call" /\ worker[w].asked.op = "Auth" /\ conn[w].resp = None
           \/ thread[w].authed
  BY <1>1 DEF Blameless, Excused
\* A request on an open connection is the one the worker waits on.
<1>4. conn[w].link = "up" /\ conn[w].req # None =>
         worker[w].pc = "call" /\ worker[w].asked.op = conn[w].req.op
  BY <1>2, <1>3, WireType DEF Posted, WorkerShape, Typing, Process
<1>5. ASSUME NEW r, Asks(w, r), thread'[w] = thread[w] PROVE Blameless(w)'
  <2>1. r \in Request(Vals) /\ (Wire(r) = r \/ Wire(r) = BadLine)
    BY <1>1, <1>5, Asked
  <2>2. Wire(r) # BadLine
    <3>1. r.op # "Unreadable" /\ (r.op = "Report" => r.value # NaN)
          /\ (r.op = "Finish" => r.outcome.value # NaN)
      BY <2>1, RequestFields, SpecialValues DEF Request, Outcome
    <3> QED BY <1>2, <3>1 DEF Wire
  <2>3. /\ conn'[w].link = "up" /\ conn'[w].req = Wire(r) /\ conn'[w].resp = conn[w].resp
        /\ worker[w].pc # "call"
    BY <1>2, <1>5 DEF Asks, Typing, Connection
  <2>4. conn[w].resp = None
    BY <1>2, <1>5, <2>3 DEF Asks, WorkerShape
  <2> QED BY <1>2, <1>3, <1>5, <2>2, <2>3, <2>4 DEF Asks, Blameless
<1>6. CASE Learns(w) /\ thread'[w] = thread[w]
  <2>1. conn'[w].resp = None /\ conn'[w].link = conn[w].link /\ conn'[w].req = conn[w].req
    BY <1>2, <1>6 DEF Learns, Typing, Connection
  <2>2. conn[w].link # "down" /\ worker[w].asked.op # "Auth"
    BY <1>3, <1>6 DEF Learns, Numbered
  <2> QED BY <1>2, <1>3, <1>6, <2>1, <2>2 DEF Learns, Blameless
<1>7. ~Trips(w)
  BY <1>2, <1>3 DEF Trips, WorkerShape
<1>8. CASE Rests(w) /\ thread'[w] = thread[w]
  <2>1. /\ worker'[w].pc \in {"ready", "error", "exit"} /\ ~worker'[w].net_error
        /\ conn'[w].resp # Error /\ conn'[w].req # BadLine
    BY <1>2, <1>3, <1>8 DEF Rests
  <2>2. CASE worker'[w].pc = "ready"
    <3>1. /\ worker[w].pc = "call" /\ conn[w].resp # None
          /\ conn'[w].link = conn[w].link /\ conn[w].link # "down"
      BY <1>3, <1>8, <2>2 DEF Rests
    <3>2. ServerToken # None => thread'[w].authed
      BY <1>3, <1>8, <3>1
    <3> QED BY <2>1, <2>2, <3>1, <3>2 DEF Blameless
  <2>3. CASE worker'[w].pc = "exit"
    BY <2>1, <2>3 DEF Blameless
  <2>4. worker'[w].pc # "error"
    <3>1. SUFFICES ASSUME worker'[w].pc = "error" PROVE FALSE
      OBVIOUS
    <3>2. /\ \/ conn[w].link = "down"
             \/ worker[w].pc = "call" /\ conn[w].resp = Error
          /\ conn'[w].link = conn[w].link
      BY <1>3, <1>8, <3>1 DEF Rests
    <3> QED BY <1>3, <1>8, <3>1, <3>2 DEF Rests
  <2> QED BY <2>1, <2>2, <2>3, <2>4
\* An answer arrives on an open connection only.
<1>9. ASSUME NEW r, Answered(w, r), worker'[w] = worker[w],
             conn[w].link = "up" =>
                /\ r # Error
                /\ ServerToken # None => thread'[w].authed
      PROVE  Blameless(w)'
  <2>1. /\ conn'[w].link = conn[w].link /\ conn'[w].req = None
        /\ conn'[w].resp = IF conn[w].link = "up" THEN r ELSE None
        /\ conn[w].link # "none"
    BY <1>2, <1>9 DEF Answered, Typing, Connection, ThreadShape, Serving
  <2> QED BY <1>2, <1>3, <1>9, <2>1 DEF Blameless, Typing, Connection
<1>10. ASSUME NEW r \in Response, Replies(w, r), worker'[w] = worker[w] PROVE Blameless(w)'
  <2>1. Served(w) /\ conn[w].req # None /\ Answered(w, r)
    BY <1>10 DEF Replies, Answered, Served
  <2>2. conn[w].link = "up" /\ conn[w].req.op # "Auth" => Admitted(w) /\ thread[w].authed
    <3>1. SUFFICES ASSUME conn[w].link = "up", conn[w].req.op # "Auth"
                   PROVE  Admitted(w) /\ thread[w].authed
      OBVIOUS
    <3>2. conn[w].req.study = StudyName
      BY <1>2, <1>3, <2>1, <3>1 DEF Posted, Typing, Connection
    <3>3. thread[w].authed
      BY <1>3, <1>4, <2>1, <3>1 DEF Authed
    <3> QED BY <1>3, <3>2, <3>3 DEF Admitted
  <2>3. conn[w].link = "up" => r # Error /\ (ServerToken # None => thread'[w].authed)
    <3>1. r # Error \/ conn[w].link # "up"
      <4>1. SUFFICES ASSUME r = Error, conn[w].link = "up" PROVE FALSE
        OBVIOUS
      <4>2. /\ conn[w].req.op = "Auth"
            /\ ServerToken # None /\ conn[w].req.token # ServerToken
        BY <1>2, <1>3, <1>10, <2>2, <4>1 DEF Replies, Ack, PruneIs, BestIs
      <4> QED BY <1>3, <2>1, <4>2 DEF Posted
    <3>2. CASE r # Error
      BY <1>10, <2>2, <3>2 DEF Replies
    <3> QED BY <3>1, <3>2
  <2> QED BY <1>9, <1>10, <2>1, <2>3
<1>11. ASSUME NEW t, NEW r, Saves(w, t, r), worker'[w] = worker[w] PROVE Blameless(w)'
  <2>1. Answered(w, r) /\ thread'[w].authed = thread[w].authed
    BY <1>11 DEF Saves
  <2>2. r # Error
    BY <1>2, <1>11 DEF Saves, TrialIs, ValueIs, Ack
  <2>3. conn[w].req # None /\ conn[w].req.op # "Auth"
    BY <1>2, <1>11 DEF Saves, Answered, ThreadShape
  <2>4. conn[w].link = "up" /\ ServerToken # None => thread[w].authed
    BY <1>3, <1>4, <2>3
  <2> QED BY <1>9, <1>11, <2>1, <2>2, <2>4
<1>12. CASE GoesOn(w) /\ worker'[w] = worker[w]
  BY <1>3, <1>12 DEF GoesOn, Authed, Blameless
<1>13. CASE Ends(w) /\ worker'[w] = worker[w]
  <2>1. worker[w].pc = "exit" /\ conn'[w].resp = conn[w].resp /\ conn'[w].req = None
    BY <1>2, <1>3, <1>13 DEF Ends, Typing, Connection
  <2> QED BY <1>2, <1>3, <1>13, <2>1 DEF Blameless
<1>14. CASE Dials(w)
  <2>1. PICK pc \in {"open", "ready", "exit"}, link \in {"up", "none"} :
            /\ worker'[w] = [worker[w] EXCEPT !.pc = pc]
            /\ conn'[w] = [conn[w] EXCEPT !.link = link]
            /\ pc = "ready" => WorkerToken[w] = None
    BY <1>14 DEF Dials
  <2>2. /\ worker'[w].pc = pc /\ worker'[w].net_error = worker[w].net_error
        /\ conn'[w].link = link /\ conn'[w].req = conn[w].req /\ conn'[w].resp = conn[w].resp
    BY <1>2, <2>1 DEF Typing, Connection, Process
  <2> QED BY <1>3, <2>1, <2>2 DEF Blameless
<1>15. CASE Loses(w)
  <2>1. /\ conn'[w].link = "down" /\ conn'[w].req = None /\ conn'[w].resp = conn[w].resp
        /\ worker'[w] = worker[w]
    BY <1>2, <1>15 DEF Loses, Typing, Connection
  <2>2. conn[w].link = "down"
    BY <1>2, <1>3, <1>15 DEF Loses, Typing, Connection
  <2> QED BY <1>2, <1>3, <2>1, <2>2 DEF Blameless
<1>16. CASE Still(w)
  BY <1>3, <1>16 DEF Still, Blameless
<1>17. ~Breaks(w)
  BY <1>3 DEF Breaks
<1> QED BY <1>5, <1>6, <1>7, <1>8, <1>10, <1>11, <1>12, <1>13, <1>14, <1>15, <1>16, <1>17, Seen
        DEF ByWorker, ByThread, Blameless

\* optimize returns an error for a failure (of the network, a process, the storage
\* or the sampler) or a refusal, never for what an objective did: not for one that
\* fails, panics or is pruned, as long as it reports and returns no NaN
\* (worker.rs:62-70).
THEOREM ErrorsHaveCauses ==
    ASSUME NaN \notin Vals
    PROVE  Spec => []ErrorsAreFailures
<1>1. Init => ErrorInv
  <2>1. Error # None /\ BadLine # None
    BY NoneIsNoMessage DEF Error, Response
  <2> QED BY <2>1, TypedInit, QuietInit DEF ErrorInv, Blameless
<1>2. ErrorInv /\ [Next]_vars => ErrorInv'
  BY TypedStep, PostedStep, AuthedStep, BlamelessStep DEF ErrorInv
<1>3. ErrorInv => ErrorsAreFailures
  BY DEF ErrorInv, Blameless, Excused, ErrorsAreFailures
<1> QED BY <1>1, <1>2, <1>3, PTL DEF Spec

-----------------------------------------------------------------------------
(* The history.  While the coordinator lives it is changed by saves alone,  *)
(* each for a trial that is new or running and that no other connection     *)
(* works on.                                                                *)

\* The history stays as it is, or one thread saves one trial.
LEMMA RowsStep ==
    ASSUME "coordinator" \notin Faults, Typed, \A w \in Workers : Posted(w), [Next]_vars
    PROVE  \/ rows' = rows
           \/ \E w \in Workers :
                 /\ \E t, r : Saves(w, t, r)
                 /\ worker' = worker /\ acked' = acked
                 /\ \A v \in Workers \ {w} : Still(v)
<1>1. ASSUME NEW w \in Workers, ThreadStep(w), UNCHANGED <<worker, acked>>
      PROVE  \/ rows' = rows
             \/ /\ \E t, r : Saves(w, t, r)
                /\ worker' = worker /\ acked' = acked
                /\ \A v \in Workers \ {w} : Still(v)
  <2>1. \A v \in Workers \ {w} : Still(v)
    BY <1>1, MoveCases, Untouched DEF Local, Draw, Sound, Fits, Still
  <2> QED BY <1>1, <2>1, ThreadMoves DEF Replies, GoesOn, Ends
<1>2. CASE CoordStep
  BY <1>2 DEF CoordStep, Boot, BootFails, Crash
<1>3. ASSUME NEW w \in Workers,
             \/ WorkerStep(w) /\ UNCHANGED coordVars
             \/ Dial(w) \/ Finished(w) \/ NetBreak(w) \/ WorkerDies(w)
      PROVE  rows' = rows
  BY <1>3 DEF Dial, Finished, NetBreak, WorkerDies, coordVars
<1>4. CASE UNCHANGED vars
  BY <1>4 DEF vars
<1> QED BY <1>1, <1>2, <1>3, <1>4 DEF Next, Idle

\* What is saved is a new trial, or the stored one with one change.
LEMMA SavedTrial ==
    ASSUME LedgerInv, NEW w \in Workers, NEW t, NEW r, Saves(w, t, r)
    PROVE  /\ Served(w) /\ t.number \in Nat /\ t.number \in Owned(w)
           /\ \/ /\ thread[w].pc = "save_new" /\ t.number = thread[w].number
                 /\ t.number \notin DOMAIN rows
              \/ /\ thread[w].pc = "save" /\ t.number = conn[w].req.number
                 /\ t.number \in Unfinished(w) /\ t.number \in DOMAIN rows
                 /\ thread[w].current = rows[t.number] /\ rows[t.number].state = "Running"
<1>1. Typed /\ Outstanding(w) /\ ReadIsCurrent
  BY DEF LedgerInv, Unshared, Linked
<1>2. Typing(w) /\ ThreadShape(w)
  BY <1>1, TypedParts
<1>3. t.number \in Nat /\ Served(w)
  BY DEF Saves, TrialRows, TrialType, Answered, Served
<1>4. CASE thread[w].pc = "save_new"
  <2>1. t.number = thread[w].number /\ thread[w].number # None
    BY <1>2, <1>4 DEF Saves, NewTrial, ThreadShape
  <2> QED BY <1>1, <1>3, <1>4, <2>1 DEF Outstanding, Owned
<1>5. CASE thread[w].pc = "save"
  <2>1. /\ thread[w].current \in TrialRows /\ conn[w].req # None
        /\ conn[w].req.op \in {"Suggest", "Report", "Finish"}
        /\ thread[w].current.number = conn[w].req.number
    BY <1>2, <1>5 DEF ThreadShape, Typing, Thread
  <2>2. t.number = thread[w].current.number
    BY <1>5, <2>1 DEF Saves, Record, AddReport, FinishTrial, TrialRows, TrialType
  <2>3. t.number \in Requested(w)
    BY <2>1, <2>2 DEF Requested, Numbered
  <2>4. t.number \in DOMAIN rows /\ rows[t.number].state = "Running"
    BY <1>1, <1>3, <2>3 DEF Outstanding, Unfinished
  <2>5. thread[w].current = rows[t.number]
    BY <1>1, <1>5, <2>1, <2>2, <2>4 DEF ReadIsCurrent, Current
  <2> QED BY <1>3, <1>5, <2>1, <2>2, <2>3, <2>4, <2>5 DEF Owned, Unfinished
<1> QED BY <1>4, <1>5 DEF Saves

\* A trial that has ended stays as it is, and so does one that the saving connection
\* does not work on.
LEMMA RowsKept ==
    ASSUME LedgerInv, NEW w \in Workers, NEW t, NEW r, Saves(w, t, r), NEW n \in DOMAIN rows,
           Terminal(rows[n]) \/ \E v \in Workers \ {w} : Served(v) /\ n \in Owned(v)
    PROVE  n \in DOMAIN rows' /\ rows'[n] = rows[n]
<1>1. n # t.number
  BY SavedTrial DEF LedgerInv, Unshared, SingleOwner, Terminal
<1> QED BY <1>1 DEF Saves

-----------------------------------------------------------------------------
(* The trials still to be finished.                                         *)

\* A number asked for, carried or held by a worker is the number of a recorded, running
\* trial until its outcome is stored: only its own worker ends a trial
\* (coordinator.rs:213-264, SingleOwner).
LEMMA OutstandingStep ==
    ASSUME "coordinator" \notin Faults, LedgerInv, [Next]_vars, NEW w \in Workers
    PROVE  Outstanding(w)'
<1>1. /\ Typed /\ Posted(w) /\ Outstanding(w) /\ SeededPast
      /\ \A v \in Workers : Posted(v)
  BY DEF LedgerInv, Unshared, Linked
<1>2. Typing(w) /\ ThreadShape(w) /\ WorkerShape(w)
  BY <1>1, TypedParts
\* Fewer trials to finish, and the history as it was.
<1>3. ASSUME rows' = rows, Unfinished(w)' \subseteq Unfinished(w),
             Served(w)' => Served(w) \/ Unfinished(w)' = {},
             \/ thread'[w] = thread[w] \/ thread'[w].pc # "save_new"
             \/ thread'[w].number = counter /\ up
      PROVE  Outstanding(w)'
  <2>1. counter \notin DOMAIN rows \/ ~up
    BY <1>1 DEF SeededPast, Typed, TypeOK, CoordTypeOK
  <2> QED BY <1>1, <1>3, <2>1 DEF Outstanding
<1>4. CASE ByWorker(w)
  <2>1. Unfinished(w)' \subseteq Unfinished(w)
    <3>1. ASSUME NEW r, Asks(w, r) PROVE Unfinished(w)' \subseteq Unfinished(w)
      <4>1. /\ Wire(r) # None /\ (Wire(r) = r \/ Wire(r) = BadLine)
            /\ BadLine.op = "Unreadable"
        BY <1>1, <3>1, Asked, TypedStep
      <4>2. conn'[w].req = Wire(r) /\ conn'[w].resp = conn[w].resp
        BY <1>2, <3>1 DEF Asks, Typing, Connection
      <4> QED BY <1>2, <3>1, <4>1, <4>2
              DEF Asks, Unfinished, Requested, Carried, Finishing, Numbered, WorkerShape
    <3>2. CASE Learns(w)
      <4>1. conn'[w].req = conn[w].req /\ conn'[w].resp = None
        BY <1>2, <3>2 DEF Learns, Typing, Connection
      <4> QED BY <3>2, <4>1 DEF Learns, Unfinished, Requested, Carried, Finishing, Numbered
    <3>3. CASE Trips(w)
      <4>1. conn'[w].req = conn[w].req /\ conn'[w].resp \in {conn[w].resp, None}
        BY <1>2, <3>3 DEF Trips, Typing, Connection
      <4> QED BY <3>3, <4>1 DEF Trips, Unfinished, Requested, Carried, Finishing, Numbered
    <3>4. CASE Rests(w)
      BY <3>4 DEF Rests, Unfinished, Requested, Carried
    <3> QED BY <1>4, <3>1, <3>2, <3>3, <3>4 DEF ByWorker
  <2>2. rows' = rows /\ thread'[w] = thread[w] /\ Served(w)' = Served(w)
    BY <1>4 DEF ByWorker, Served
  <2> QED BY <1>3, <2>1, <2>2
<1>5. ASSUME NEW r \in Response, Replies(w, r), worker'[w] = worker[w]
      PROVE  Outstanding(w)'
  <2>1. /\ conn'[w].req = None /\ conn'[w].resp \in {r, None} /\ r.kind # "Trial"
        /\ thread'[w].pc = "read" /\ Served(w) /\ rows' = rows
    BY <1>2, <1>5 DEF Replies, Answered, Typing, Connection, Served, Error, Ack
  <2>2. Unfinished(w)' \subseteq Unfinished(w)
    BY <1>5, <2>1 DEF Unfinished, Requested, Carried, Finishing
  <2> QED BY <1>3, <2>1, <2>2
<1>6. ASSUME NEW t, NEW r, Saves(w, t, r), worker'[w] = worker[w]
      PROVE  Outstanding(w)'
  <2>1. /\ conn'[w].req = None /\ conn'[w].resp \in {r, None} /\ thread'[w].pc = "read"
        /\ rows' = [n \in DOMAIN rows \cup {t.number} |-> IF n = t.number THEN t ELSE rows[n]]
    BY <1>2, <1>6 DEF Saves, Answered, Typing, Connection
  <2>2. \A n \in Unfinished(w) : n \in DOMAIN rows /\ rows[n].state = "Running"
    BY <1>1, <1>6, SavedTrial DEF Outstanding
  <2>3. ASSUME NEW n \in Unfinished(w)', n # t.number
        PROVE  n \in DOMAIN rows' /\ rows'[n].state = "Running"
    <3>1. r.kind = "Trial" => r.number = t.number
      BY <1>6 DEF Saves, TrialIs, NewTrial, ValueIs, Ack
    <3>2. n \in Unfinished(w)
      BY <1>6, <2>1, <2>3, <3>1 DEF Unfinished, Requested, Carried, Finishing
    <3> QED BY <2>1, <2>2, <2>3, <3>2
  <2>4. ASSUME t.number \in Unfinished(w)' PROVE t.state = "Running"
    <3>1. CASE thread[w].pc = "save_new"
      BY <1>6, <3>1 DEF Saves, NewTrial
    <3>2. CASE thread[w].pc = "save" /\ conn[w].req.op # "Finish"
      <4>1. thread[w].current.state = "Running" /\ thread[w].current \in TrialRows
        BY <1>2, <1>6, <3>2, SavedTrial DEF ThreadShape, Typing, Thread
      <4> QED BY <1>6, <3>2, <4>1 DEF Saves, Record, AddReport, TrialRows, TrialType
    <3>3. ~(thread[w].pc = "save" /\ conn[w].req.op = "Finish")
      <4>1. SUFFICES ASSUME thread[w].pc = "save", conn[w].req.op = "Finish" PROVE FALSE
        OBVIOUS
      <4>2. conn[w].req # None /\ r.kind # "Trial"
        BY <1>2, <1>6, <4>1 DEF Saves, ThreadShape, Ack
      <4>3. worker[w].number # None => Finishing(w)
        BY <1>1, <4>1, <4>2 DEF Posted, Finishing
      <4> QED BY <1>6, <2>1, <2>4, <4>2, <4>3 DEF Unfinished, Requested, Carried, Finishing
    <3> QED BY <1>6, <3>1, <3>2, <3>3 DEF Saves
  <2> QED BY <2>1, <2>3, <2>4 DEF Outstanding
<1>7. CASE GoesOn(w) /\ worker'[w] = worker[w]
  <2>1. Unfinished(w)' = Unfinished(w)
    BY <1>7 DEF GoesOn, Unfinished, Requested, Carried, Finishing
  <2>2. thread[w].pc = "none" => Unfinished(w) = {}
    BY <1>2 DEF ThreadShape, Unfinished, Carried
  <2>3. thread[w].pc = "read" => Served(w) /\ up
    BY <1>2 DEF ThreadShape, Served, Serving
  <2> QED BY <1>3, <1>7, <2>1, <2>2, <2>3 DEF GoesOn
<1>8. CASE Ends(w)
  BY <1>8 DEF Ends, Gone, NoThread, Outstanding, Served, Serving
<1>9. CASE Dials(w) \/ Breaks(w)
  <2>1. /\ conn'[w].req = conn[w].req /\ conn'[w].resp = conn[w].resp
        /\ worker'[w].number = worker[w].number
        /\ worker'[w].pc = "call" <=> worker[w].pc = "call"
        /\ worker'[w].asked = worker[w].asked
        /\ thread'[w] = thread[w] /\ rows' = rows
    BY <1>2, <1>9 DEF Dials, Breaks, Typing, Connection, Process
  <2>2. Unfinished(w)' = Unfinished(w) /\ Served(w)' = Served(w)
    BY <2>1 DEF Unfinished, Requested, Carried, Finishing, Served
  <2> QED BY <1>3, <2>1, <2>2
\* Another connection moves.
<1>10. CASE Still(w)
  <2>1. /\ Unfinished(w)' = Unfinished(w) /\ Served(w)' = Served(w)
        /\ Unfinished(w) \subseteq Owned(w) /\ thread'[w] = thread[w]
    BY <1>10 DEF Still, Unfinished, Requested, Carried, Finishing, Served, Owned
  <2>2. ASSUME rows' = rows PROVE Outstanding(w)'
    BY <1>3, <2>1, <2>2
  <2>3. ASSUME NEW v \in Workers, v # w, NEW t, NEW r, Saves(v, t, r) PROVE Outstanding(w)'
    <3>1. Served(w) => \A n \in Unfinished(w) : n \in DOMAIN rows' /\ rows'[n] = rows[n]
      BY <1>1, <2>1, <2>3, RowsKept DEF Outstanding
    <3>2. ASSUME thread[w].pc = "save_new" PROVE thread[w].number \notin DOMAIN rows'
      <4>1. Served(w) /\ thread[w].number \in Owned(w)
        BY <1>2, <3>2 DEF ThreadShape, Served, Serving, Owned
      <4>2. t.number \in Owned(v) /\ Served(v)
        BY <2>3, SavedTrial
      <4>3. thread[w].number # t.number
        BY <2>3, <4>1, <4>2 DEF LedgerInv, Unshared, SingleOwner
      <4> QED BY <1>1, <2>3, <3>2, <4>3 DEF Saves, Outstanding
    <3> QED BY <1>1, <2>1, <3>1, <3>2 DEF Outstanding
  <2>4. ASSUME NEW t, NEW r, Saves(w, t, r) PROVE FALSE
    BY <1>2, <1>10, <2>4 DEF Still, Saves, Answered, Typing, Connection
  <2> QED BY <1>1, <2>2, <2>3, <2>4, RowsStep
<1> QED BY <1>1, <1>4, <1>5, <1>6, <1>7, <1>8, <1>9, <1>10, Seen DEF ByThread, Loses

-----------------------------------------------------------------------------
(* What the objective has seen of its trial.                                *)

\* The trial a worker on an open connection works on, or has been given, is served.
LEMMA InTouch ==
    ASSUME Typed, NEW w \in Workers, conn[w].link = "up"
    PROVE  /\ worker[w].number # None => Served(w) /\ worker[w].number \in Owned(w)
           /\ conn[w].resp # None /\ conn[w].resp.kind = "Trial" =>
                 Served(w) /\ conn[w].resp.number \in Owned(w)
<1>1. Typing(w) /\ ThreadShape(w)
  BY TypedParts
<1>2. thread[w].pc \notin {"none", "gone"} => Served(w)
  BY <1>1 DEF Typing, Thread, Served
<1> QED BY <1>1, <1>2 DEF ThreadShape, Owned, Carried

\* A worker's own step keeps what it has seen in step with the history.
LEMMA InStepByWorker ==
    ASSUME Typed, Typed', NEW w \in Workers, Posted(w), InStep(w), ByWorker(w),
           conn[w].link = "up"
    PROVE  InStep(w)'
<1>1. Typing(w) /\ WorkerShape(w) /\ rows' = rows /\ None # Error
  BY TypedParts, NoneIsNoMessage DEF ByWorker, Error, Response
<1>2. ASSUME NEW r, Asks(w, r) PROVE InStep(w)'
  <2>1. /\ Wire(r) # None /\ worker[w].pc # "call"
        /\ conn'[w].req = Wire(r) /\ conn'[w].resp = conn[w].resp /\ conn[w].resp = None
    BY <1>1, <1>2, Asked DEF Asks, Typing, Connection, WorkerShape
  <2>2. r.op \in Numbered => /\ worker[w].number # None /\ worker[w].view # None
                             /\ rows[worker[w].number] = worker[w].view
    BY <1>1, <1>2 DEF Asks, WorkerShape, InStep
  <2>3. worker[w].number # None => worker[w].view.number = worker[w].number
    BY DEF InStep
  <2>4. worker[w].number # None => r.op \in Numbered
    BY <1>1, <1>2 DEF Asks, WorkerShape
  <2>5. CASE r.op = "Finish"
    <3>1. FinishTrial(worker[w].view, r.outcome).number = worker[w].view.number
      BY <1>1, <2>2, <2>5 DEF FinishTrial, Typing, Process, TrialType, Numbered
    <3> QED BY <1>1, <1>2, <2>1, <2>2, <2>3, <2>5, <3>1 DEF Asks, InStep, Numbered
  <2>6. CASE r.op # "Finish"
    <3>1. /\ worker'[w].pc = "call" /\ worker'[w].asked = r
          /\ worker'[w].number = worker[w].number /\ worker'[w].view = worker[w].view
          /\ r.op \in Numbered => r.number = worker[w].number
      BY <1>2, <2>6 DEF Asks
    <3>2. CASE r.op \in Numbered
      BY <1>1, <2>1, <2>2, <2>3, <2>6, <3>1, <3>2 DEF InStep
    <3>3. CASE r.op \notin Numbered
      BY <1>1, <2>1, <2>4, <3>1, <3>3 DEF InStep, Numbered
    <3> QED BY <3>2, <3>3
  <2> QED BY <2>5, <2>6
<1>3. CASE Learns(w)
  <2> DEFINE s == worker[w]
             a == conn[w].resp
  <2>1. /\ worker'[w].pc = "objective" /\ conn'[w].resp = None /\ conn'[w].req = conn[w].req
        /\ a # None /\ conn[w].req = None /\ s.pc = "call"
    BY <1>1, <1>3 DEF Learns, Typing, Connection, WorkerShape
  <2>2. worker'[w].view.number = worker'[w].number /\ rows[worker'[w].number] = worker'[w].view
    <3>1. CASE s.asked.op = "NewTrial"
      BY <1>3, <2>1, <3>1 DEF Learns, InStep, NewTrial, Numbered
    <3>2. CASE s.asked.op \in Numbered
      <4>1. s.number # None /\ s.view # None /\ s.view.number = s.number
        BY <1>1, <2>1, <3>2 DEF WorkerShape, InStep
      <4>2. s.view \in TrialType(Names, Steps, Floats)
        BY <1>1, <4>1 DEF Typing, Process
      <4>3. /\ worker'[w].number = s.number
            /\ \/ worker'[w].view = s.view
               \/ worker'[w].view = Record(s.view, s.asked.name, a.value)
               \/ worker'[w].view = AddReport(s.view, s.asked.step, s.asked.value)
            /\ rows[s.number] = worker'[w].view
        BY <1>3, <2>1, <3>2 DEF Learns, InStep, Numbered
      <4>4. worker'[w].view.number = s.view.number
        BY <4>2, <4>3 DEF Record, AddReport, TrialType
      <4> QED BY <4>1, <4>3, <4>4
    <3> QED BY <1>3, <3>1, <3>2 DEF Learns
  <2> QED BY <1>1, <2>1, <2>2 DEF InStep
<1>4. CASE Trips(w)
  <2>1. conn'[w].resp \in {conn[w].resp, None} /\ worker'[w].pc = "objective" /\ worker'[w].net_error
    BY <1>1, <1>4 DEF Trips, Typing, Connection
  <2> QED BY <1>1, <1>4, <2>1 DEF Trips, InStep
<1>5. CASE Rests(w)
  BY <1>1, <1>5 DEF Rests, InStep
<1> QED BY <1>2, <1>3, <1>4, <1>5 DEF ByWorker

\* So does a save: what is stored is the trial as it was seen, with the change that
\* the worker waits for.
LEMMA InStepSave ==
    ASSUME LedgerInv, NEW w \in Workers, NEW t, NEW r, Saves(w, t, r), worker'[w] = worker[w],
           conn[w].link = "up"
    PROVE  InStep(w)' /\ Acknowledged(w)'
<1> DEFINE s == worker[w]
           q == conn[w].req
<1>1. Typed /\ Posted(w) /\ Outstanding(w) /\ InStep(w)
  BY DEF LedgerInv, Unshared, Linked
<1>2. Typing(w) /\ ThreadShape(w) /\ WorkerShape(w)
  BY <1>1, TypedParts
<1>3. /\ conn'[w].link = "up" /\ conn'[w].req = None /\ conn'[w].resp = r
      /\ rows' = [n \in DOMAIN rows \cup {t.number} |-> IF n = t.number THEN t ELSE rows[n]]
      /\ rows'[t.number] = t /\ t.number \in DOMAIN rows'
  BY <1>2 DEF Saves, Answered, Typing, Connection
<1>4. q # None /\ s.pc = "call" /\ q = Wire(s.asked) /\ q.op # "Unreadable" /\ q = s.asked
  <2>1. q # None /\ q.op # "Unreadable"
    BY <1>2 DEF Saves, Answered, ThreadShape
  <2>2. s.pc = "call" /\ q = Wire(s.asked)
    BY <1>1, <2>1 DEF Posted
  <2> QED BY <1>2, <2>1, <2>2 DEF Wire, BadLine
<1>5. CASE thread[w].pc = "save_new"
  <2>1. /\ s.asked.op = "NewTrial" /\ s.number = None
        /\ t = NewTrial(thread[w].number) /\ r = TrialIs(thread[w].number)
    BY <1>2, <1>4, <1>5 DEF ThreadShape, WorkerShape, Saves, Numbered
  <2>2. r.number = t.number /\ t = NewTrial(t.number)
    BY <2>1 DEF TrialIs, NewTrial
  <2> QED BY <1>3, <1>4, <2>1, <2>2 DEF InStep, Acknowledged, Finishing, Numbered
<1>6. CASE thread[w].pc = "save"
  <2>1. /\ q.op \in {"Suggest", "Report", "Finish"} /\ s.number # None /\ s.view # None
        /\ q.number = s.number /\ s.view.number = s.number
    BY <1>1, <1>2, <1>4, <1>6 DEF ThreadShape, WorkerShape, InStep, Numbered
  <2>2. t.number = s.number /\ thread[w].current = rows[s.number] /\ rows[s.number].state = "Running"
    BY <1>6, <2>1, SavedTrial
  <2>3. rows'[s.number] = t
    BY <1>3, <2>2
  <2>4. CASE q.op = "Suggest"
    <3>1. rows[s.number] = s.view
      BY <1>1, <1>4, <2>4 DEF InStep
    <3>2. PICK v \in Int : t = Record(s.view, s.asked.name, v) /\ r = ValueIs(v)
      BY <1>4, <1>6, <2>2, <2>4, <3>1 DEF Saves
    <3>3. r.kind = "Value" /\ r.value = v
      BY <3>2 DEF ValueIs
    <3> QED BY <1>3, <1>4, <2>1, <2>3, <2>4, <3>2, <3>3 DEF InStep, Acknowledged, Finishing
  <2>5. CASE q.op = "Report"
    <3>1. rows[s.number] = s.view
      BY <1>1, <1>4, <2>5 DEF InStep
    <3>2. t = AddReport(s.view, s.asked.step, s.asked.value) /\ r.kind = "Ack"
      BY <1>4, <1>6, <2>2, <2>5, <3>1 DEF Saves, Ack
    <3> QED BY <1>3, <1>4, <2>1, <2>3, <2>5, <3>2 DEF InStep, Acknowledged, Finishing
  <2>6. CASE q.op = "Finish"
    <3>1. s.view = FinishTrial(rows[s.number], s.asked.outcome)
      BY <1>1, <1>4, <2>6 DEF InStep
    <3>2. t = s.view /\ r.kind = "Ack" /\ s.asked.outcome \in Outcome(Int)
      BY <1>4, <1>6, <2>2, <2>6, <3>1 DEF Saves, Ack
    <3>3. Terminal(s.view)
      <4>1. /\ thread[w].current \in TrialRows /\ s.view = FinishTrial(thread[w].current, s.asked.outcome)
            /\ s.asked.outcome.kind \in {"Complete", "Pruned", "Failed"}
        BY <1>2, <1>6, <2>2, <3>1, <3>2 DEF Typing, Thread, ThreadShape, Outcome
      <4> QED BY <4>1 DEF FinishTrial, Terminal, TrialRows, TrialType
    <3> QED BY <1>3, <1>4, <2>1, <2>2, <2>6, <3>2, <3>3 DEF InStep, Acknowledged, Finishing
  <2> QED BY <2>1, <2>4, <2>5, <2>6
<1> QED BY <1>5, <1>6 DEF Saves

\* And an answer to a request that saves nothing.
LEMMA InStepReply ==
    ASSUME Typed, NEW w \in Workers, Posted(w), InStep(w), NEW r \in Response, Replies(w, r),
           worker'[w] = worker[w], conn[w].link = "up"
    PROVE  InStep(w)' /\ Acknowledged(w)'
<1>1. Typing(w) /\ WorkerShape(w)
  BY TypedParts
<1>2. /\ conn'[w].req = None /\ conn'[w].resp = r /\ rows' = rows /\ conn[w].req # None
      /\ worker[w].pc = "call" /\ conn[w].req = Wire(worker[w].asked)
  BY <1>1 DEF Replies, Answered, Typing, Connection, Posted
<1>3. r.kind # "Trial" /\ r.kind # "Value"
  BY DEF Replies, Error, Ack
<1>4. r.kind = "Ack" => worker[w].asked.op = "Auth"
  BY <1>1, <1>2 DEF Replies, Wire, BadLine, Error
<1> QED BY <1>1, <1>2, <1>3, <1>4 DEF InStep, Acknowledged, Finishing

\* Steps that leave the worker and the answer to it alone leave it in step: they
\* change no trial it has not finished.
LEMMA InStepElsewhere ==
    ASSUME Typed, NEW w \in Workers, Posted(w), Outstanding(w), InStep(w),
           conn[w].link = "up", worker'[w] = worker[w], conn'[w] = conn[w],
           \A n \in DOMAIN rows : Served(w) /\ n \in Owned(w) => rows'[n] = rows[n]
    PROVE  InStep(w)'
<1> DEFINE s == worker[w]
           c == conn[w]
<1>1. Typing(w) /\ WorkerShape(w)
  BY TypedParts
<1>2. \A n \in Unfinished(w) : Served(w) => rows'[n] = rows[n]
  BY DEF Outstanding, Unfinished, Owned
<1>3. c.resp # None /\ c.resp.kind = "Trial" => rows'[c.resp.number] = rows[c.resp.number]
  BY <1>2, InTouch DEF Unfinished, Carried
<1>4. s.number # None /\ ~Finishing(w) => rows'[s.number] = rows[s.number]
  BY <1>2, InTouch DEF Unfinished
<1>5. Finishing(w) /\ c.req # None /\ c.req.op = "Finish" => rows'[s.number] = rows[s.number]
  <2>1. SUFFICES ASSUME Finishing(w), c.req # None, c.req.op = "Finish"
                 PROVE  rows'[s.number] = rows[s.number]
    OBVIOUS
  <2>2. s.number # None /\ s.asked.number = s.number /\ c.req = s.asked
    BY <1>1, <2>1 DEF Finishing, WorkerShape, InStep, Posted, Wire, BadLine, Numbered
  <2>3. s.number \in Unfinished(w) /\ Served(w)
    BY <2>1, <2>2, InTouch DEF Unfinished, Requested, Numbered
  <2> QED BY <1>2, <2>3
<1>6. s.pc = "objective" \/ (s.pc = "call" /\ s.asked.op \in {"Suggest", "Report", "ShouldPrune"})
         => rows'[s.number] = rows[s.number]
  BY <1>1, <1>4 DEF WorkerShape, Finishing, Numbered
<1> QED BY <1>3, <1>5, <1>6 DEF InStep, Finishing

\* Every step keeps what a worker holds and what is stored of its trial in step, by
\* the cases of Seen.
LEMMA LinkedStep ==
    ASSUME "coordinator" \notin Faults, LedgerInv, [Next]_vars, NEW w \in Workers
    PROVE  Linked(w)'
<1>1. /\ Typed /\ Posted(w) /\ Outstanding(w) /\ Acknowledged(w)
      /\ conn[w].link = "up" => InStep(w)
      /\ \A v \in Workers : Posted(v)
  BY DEF LedgerInv, Unshared, Linked
<1>2. Posted(w)' /\ Outstanding(w)' /\ Typed'
  BY <1>1, PostedStep, OutstandingStep, TypedStep
<1>3. Typing(w) /\ ThreadShape(w) /\ WorkerShape(w)
  BY <1>1, TypedParts
<1> SUFFICES Acknowledged(w)' /\ (conn'[w].link = "up" => InStep(w)')
  BY <1>2 DEF Linked
<1>4. CASE ByWorker(w)
  <2>1. conn'[w].link = "up" => conn[w].link = "up"
    BY <1>3, <1>4 DEF ByWorker, Asks, Learns, Trips, Rests, Typing, Connection
  <2>2. ~Finishing(w)' \/ conn'[w].resp = None
    BY <1>3, <1>4 DEF ByWorker, Asks, Learns, Trips, Rests, Finishing, Typing, Connection, WorkerShape
  <2> QED BY <1>1, <1>2, <1>4, <2>1, <2>2, InStepByWorker DEF Acknowledged
<1>5. ASSUME NEW r, Answered(w, r), conn[w].link # "up"
      PROVE  Acknowledged(w)' /\ conn'[w].link # "up"
  BY <1>3, <1>5 DEF Answered, Acknowledged, Typing, Connection
<1>6. ASSUME NEW r \in Response, Replies(w, r), worker'[w] = worker[w]
      PROVE  Acknowledged(w)' /\ (conn'[w].link = "up" => InStep(w)')
  BY <1>1, <1>5, <1>6, InStepReply DEF Replies
<1>7. ASSUME NEW t, NEW r, Saves(w, t, r), worker'[w] = worker[w]
      PROVE  Acknowledged(w)' /\ (conn'[w].link = "up" => InStep(w)')
  BY <1>5, <1>7, InStepSave DEF Saves
<1>8. CASE GoesOn(w) /\ worker'[w] = worker[w]
  <2>1. rows' = rows /\ conn'[w] = conn[w]
    BY <1>8 DEF GoesOn
  <2> QED BY <1>1, <1>8, <2>1, InStepElsewhere DEF Acknowledged, Finishing
<1>9. CASE Ends(w) /\ worker'[w] = worker[w]
  <2>1. conn'[w].link = "down" /\ conn'[w].resp = conn[w].resp /\ rows' = rows
    BY <1>3, <1>9 DEF Ends, Typing, Connection
  <2> QED BY <1>1, <1>9, <2>1 DEF Acknowledged, Finishing
<1>10. CASE Breaks(w)
  <2>1. /\ conn'[w].link = "down" /\ conn'[w].resp = conn[w].resp /\ rows' = rows
        /\ worker'[w] = worker[w]
    BY <1>3, <1>10 DEF Breaks, Typing, Connection
  <2> QED BY <1>1, <2>1 DEF Acknowledged, Finishing
<1>11. CASE Dials(w)
  <2>1. /\ worker'[w].pc \notin {"call", "objective"} /\ worker'[w].number = None
        /\ conn'[w].resp = None
    BY <1>3, <1>11 DEF Dials, Typing, Connection, Process, WorkerShape, ThreadShape
  <2> QED BY <2>1 DEF Acknowledged, Finishing, InStep
\* Another connection moves.
<1>12. CASE Still(w)
  <2>1. ASSUME \A n \in DOMAIN rows :
                  Terminal(rows[n]) \/ (Served(w) /\ n \in Owned(w)) =>
                      n \in DOMAIN rows' /\ rows'[n] = rows[n]
        PROVE  Acknowledged(w)' /\ (conn'[w].link = "up" => InStep(w)')
    <3>1. Acknowledged(w)'
      BY <1>1, <1>12, <2>1 DEF Still, Acknowledged, Finishing
    <3> QED BY <1>1, <1>12, <2>1, <3>1, InStepElsewhere DEF Still
  <2>2. CASE rows' = rows
    BY <2>1, <2>2
  <2>3. ASSUME NEW v \in Workers, v # w, NEW t, NEW r, Saves(v, t, r)
        PROVE  Acknowledged(w)' /\ (conn'[w].link = "up" => InStep(w)')
    BY <2>1, <2>3, RowsKept
  <2>4. ASSUME NEW t, NEW r, Saves(w, t, r) PROVE FALSE
    BY <1>3, <1>12, <2>4 DEF Still, Saves, Answered, Typing, Connection
  <2> QED BY <1>1, <2>2, <2>3, <2>4, RowsStep
<1> QED BY <1>1, <1>4, <1>6, <1>7, <1>8, <1>9, <1>10, <1>11, <1>12, Seen DEF ByThread, Loses

\* A worker that reads the acknowledgement of its outcome has had it recorded, and
\* what is recorded with an outcome never changes.
LEMMA AckedStep ==
    ASSUME "coordinator" \notin Faults, LedgerInv, [Next]_vars
    PROVE  AckedEnded'
<1>1. /\ Typed /\ AckedEnded
      /\ \A w \in Workers : Posted(w) /\ Acknowledged(w)
  BY DEF LedgerInv, Unshared, Linked
<1>2. ASSUME NEW w \in Workers, Finished(w) PROVE AckedEnded'
  <2>1. acked' = acked \cup {worker[w].view} /\ rows' = rows
    BY <1>2 DEF Finished, coordVars
  <2>2. Finishing(w) /\ conn[w].resp # None /\ conn[w].resp.kind = "Ack"
    BY <1>2 DEF Finished, RecvFinished, Receiving, Finishing
  <2> QED BY <1>1, <2>1, <2>2 DEF Acknowledged, AckedEnded, AckedIsRecorded
<1>3. CASE acked' = acked
  <2>1. CASE rows' = rows
    BY <1>1, <1>3, <2>1 DEF AckedEnded, AckedIsRecorded
  <2>2. ASSUME NEW w \in Workers, NEW t, NEW r, Saves(w, t, r) PROVE AckedEnded'
    <3>1. \A a \in acked : a.number \in DOMAIN rows /\ rows[a.number] = a /\ Terminal(a)
      BY <1>1 DEF AckedEnded, AckedIsRecorded
    <3>2. \A a \in acked : a.number \in DOMAIN rows' /\ rows'[a.number] = a
      BY <2>2, <3>1, RowsKept
    <3> QED BY <1>3, <3>1, <3>2 DEF AckedEnded, AckedIsRecorded
  <2> QED BY <1>1, <2>1, <2>2, RowsStep
<1>4. acked' = acked \/ \E w \in Workers : Finished(w)
  BY DEF Next, Dial, NetBreak, WorkerDies, Idle, vars
<1> QED BY <1>2, <1>3, <1>4

\* The invariant is inductive as long as the coordinator lives ...
LEMMA LedgerInvStep ==
    ASSUME "coordinator" \notin Faults
    PROVE  LedgerInv /\ [Next]_vars => LedgerInv'
<1> SUFFICES ASSUME LedgerInv, [Next]_vars PROVE LedgerInv'
  OBVIOUS
<1>1. Unshared' /\ ReadIsCurrent' /\ SeededPast' /\ (up \/ Gapless(rows))'
  BY UnsharedStep, CurrentStep, SeededStep DEF LedgerInv
<1>2. AckedEnded' /\ \A w \in Workers : Linked(w)'
  BY AckedStep, LinkedStep
<1> QED BY <1>1, <1>2 DEF LedgerInv

\* ... and holds of any history without gaps, with nobody connected.
LEMMA LedgerInvInit ==
    ASSUME \A h \in Earlier : Gapless(h)
    PROVE  Init => LedgerInv
<1> SUFFICES ASSUME Init PROVE LedgerInv
  OBVIOUS
<1>1. Unshared /\ ReadIsCurrent /\ SeededPast /\ Gapless(rows) /\ acked = {}
  BY UnsharedInit DEF Init, CoordInit, NoThread, ReadIsCurrent, SeededPast
<1>2. ASSUME NEW w \in Workers PROVE Linked(w)
  BY QuietInit DEF Linked, Outstanding, Acknowledged, Finishing, Served, Serving
<1> QED BY <1>1, <1>2 DEF LedgerInv, AckedEnded, AckedIsRecorded

\* As long as a coordinator that has found no gap in its history lives, a trial
\* whose outcome was acknowledged to its worker is recorded, and for ever, with every
\* parameter and report the objective has seen and the outcome it returned: through
\* lost connections, dying workers, failing storage and panicking samplers
\* (worker.rs:93-99, coordinator.rs:213-264).
THEOREM NothingAckedIsLost ==
    ASSUME "coordinator" \notin Faults, \A h \in Earlier : Gapless(h)
    PROVE  Spec => []AckedIsRecorded
<1>1. LedgerInv => AckedIsRecorded
  BY DEF LedgerInv, AckedEnded
<1> QED BY <1>1, LedgerInvInit, LedgerInvStep, PTL DEF Spec

-----------------------------------------------------------------------------
(* The history is a ledger.                                                 *)

\* A new trial enters it under a fresh number.
LEMMA SavedEnters ==
    ASSUME LedgerInv, NEW w \in Workers, NEW t, NEW r, Saves(w, t, r),
           thread[w].pc = "save_new"
    PROVE  Ledger!Enter
<1>1. t.number \notin DOMAIN rows
  BY SavedTrial
<1>2. rows' = [n \in DOMAIN rows \cup {t.number} |-> IF n = t.number THEN t ELSE rows[n]]
  BY DEF Saves
<1>3. t.number \in DOMAIN rows' /\ rows'[t.number] = t
  BY <1>2
<1> QED BY <1>1, <1>2, <1>3 DEF Ledger!Enter, Ledger!Put

\* A parameter or a report is added to a trial that is running, and to it alone.
LEMMA SavedExtends ==
    ASSUME LedgerInv, NEW w \in Workers, NEW t, NEW r, Saves(w, t, r),
           thread[w].pc = "save", conn[w].req.op \in {"Suggest", "Report"}
    PROVE  Ledger!Extend
<1> DEFINE n == t.number
           q == conn[w].req
<1>1. /\ n \in DOMAIN rows /\ thread[w].current = rows[n] /\ rows[n].state = "Running"
      /\ thread[w].current # None
  <2>1. thread[w].current # None
    BY TypedParts DEF LedgerInv, Unshared, ThreadShape
  <2> QED BY <2>1, SavedTrial
<1>2. /\ rows' = [m \in DOMAIN rows \cup {n} |-> IF m = n THEN t ELSE rows[m]]
      /\ n \in DOMAIN rows' /\ rows'[n] = t
  BY DEF Saves
<1>3. /\ rows[n] \in TrialRows /\ rows[n].number = n
      /\ q # None /\ q # BadLine /\ q \in Request(Vals \ {NaN})
      /\ Vals \ {NaN} \subseteq Int
  <2>1. rows[n] \in TrialRows /\ rows[n].number = n
    BY <1>1 DEF LedgerInv, Unshared, Typed, TypeOK, CoordTypeOK
  <2>2. q # None /\ q \in Request(Vals \ {NaN}) \cup {BadLine, None} /\ q.op # "Unreadable"
    BY TypedParts DEF LedgerInv, Unshared, Saves, Answered
  <2>3. BadLine.op = "Unreadable"
    BY DEF BadLine
  <2>4. Vals \ {NaN} \subseteq Int
    BY ProtocolAssumption DEF Floats
  <2> QED BY <2>1, <2>2, <2>3, <2>4
<1>4. /\ t.state = "Running" /\ t.value = rows[n].value
      /\ Keys(rows[n].params) \subseteq Keys(t.params)
      /\ Keys(rows[n].intermediate_values) \subseteq Keys(t.intermediate_values)
  <2>1. CASE q.op = "Suggest"
    <3>1. PICK v \in Int : t = Record(rows[n], q.name, v)
      BY <1>1, <2>1 DEF Saves
    <3>2. /\ t.params = Upsert(rows[n].params, q.name, v) /\ t.state = rows[n].state
          /\ t.value = rows[n].value /\ t.intermediate_values = rows[n].intermediate_values
          /\ rows[n].params \in Seq(Entry(Names, Int))
      BY <1>3, <3>1 DEF Record, TrialRows, TrialType
    <3>3. q.name \in Names
      BY <1>3, <2>1, RequestFields
    <3> QED BY <1>1, <3>2, <3>3, UpsertKeeps
  <2>2. CASE q.op = "Report"
    <3>1. t = AddReport(rows[n], q.step, q.value)
      BY <1>1, <2>2 DEF Saves
    <3>2. /\ t.intermediate_values = Upsert(rows[n].intermediate_values, q.step, q.value)
          /\ t.state = rows[n].state /\ t.value = rows[n].value /\ t.params = rows[n].params
          /\ rows[n].intermediate_values \in Seq(Entry(Steps, Int))
      BY <1>3, <3>1 DEF AddReport, TrialRows, TrialType
    <3>3. q.step \in Steps /\ q.value \in Int
      BY <1>3, <2>2, RequestFields
    <3> QED BY <1>1, <3>2, <3>3, UpsertKeeps
  <2> QED BY <2>1, <2>2
<1>5. \A s : Ledger!Keys(s) = Keys(s)
  BY DEF Ledger!Keys, Keys
<1> QED BY <1>1, <1>2, <1>4, <1>5 DEF Ledger!Extend, Ledger!Running, Ledger!Put

\* An outcome ends a trial that is running, and changes nothing else of it.
LEMMA SavedCloses ==
    ASSUME LedgerInv, NEW w \in Workers, NEW t, NEW r, Saves(w, t, r),
           thread[w].pc = "save", conn[w].req.op = "Finish"
    PROVE  Ledger!Close
<1> DEFINE n == t.number
           o == conn[w].req.outcome
<1>1. n \in DOMAIN rows /\ thread[w].current = rows[n] /\ rows[n].state = "Running"
  BY SavedTrial
<1>2. /\ rows' = [m \in DOMAIN rows \cup {n} |-> IF m = n THEN t ELSE rows[m]]
      /\ n \in DOMAIN rows' /\ rows'[n] = t
  BY DEF Saves
<1>3. t = FinishTrial(rows[n], o) /\ o.kind \in {"Complete", "Pruned", "Failed"}
  BY <1>1 DEF Saves, Outcome
<1>4. rows[n] \in TrialRows
  BY <1>1 DEF LedgerInv, Unshared, Typed, TypeOK, CoordTypeOK
<1>5. \/ \E s \in {"Pruned", "Failed"} : t = [rows[n] EXCEPT !.state = s]
      \/ t = [rows[n] EXCEPT !.state = "Complete", !.value = t.value]
  <2>1. CASE o.kind = "Complete"
    <3>1. t = [rows[n] EXCEPT !.value = o.value, !.state = "Complete"]
      BY <1>3, <2>1 DEF FinishTrial
    <3>2. t.value = o.value
      BY <1>4, <3>1 DEF TrialRows, TrialType
    <3> QED BY <1>4, <3>1, <3>2 DEF TrialRows, TrialType
  <2>2. CASE o.kind # "Complete"
    BY <1>3, <2>2 DEF FinishTrial
  <2> QED BY <2>1, <2>2
<1>6. t.number = n
  OBVIOUS
<1> QED BY <1>1, <1>2, <1>5, <1>6 DEF Ledger!Close, Ledger!Running, Ledger!Put

\* Every step is one of the ledger's, or leaves it alone.
LEMMA LedgerStep ==
    ASSUME "coordinator" \notin Faults
    PROVE  LedgerInv /\ [Next]_vars => [Ledger!LedgerNext]_rows
<1> SUFFICES ASSUME LedgerInv, [Next]_vars PROVE [Ledger!LedgerNext]_rows
  OBVIOUS
<1>1. Typed /\ \A w \in Workers : Posted(w)
  BY DEF LedgerInv, Unshared, Linked
<1>2. ASSUME NEW w \in Workers, NEW t, NEW r, Saves(w, t, r) PROVE Ledger!LedgerNext
  BY <1>2, SavedEnters, SavedExtends, SavedCloses DEF Saves, Ledger!LedgerNext
<1> QED BY <1>1, <1>2, RowsStep

\* As long as a coordinator that has found no gap in its history lives, the system
\* implements the ledger: a number is used once, a running trial only gains entries, an ended one never changes.
THEOREM DistributedIsLedger ==
    ASSUME "coordinator" \notin Faults, \A h \in Earlier : Gapless(h)
    PROVE  Spec => IsLedger
<1>1. Init => Ledger!LedgerInit
  BY EarlierAssumption DEF Init, CoordInit, Ledger!LedgerInit
<1> QED BY <1>1, LedgerInvInit, LedgerInvStep, LedgerStep, PTL
        DEF Spec, IsLedger, Ledger!LedgerSpec
=============================================================================
