-------------------------- MODULE DistributedProofs --------------------------
(***************************************************************************)
(* Theorems about Distributed, for any sets of workers, names, steps,      *)
(* floats and distributions, any faults and any number of restarts: types, *)
(* no two connections on the same trial, and no handler that writes back   *)
(* a trial which has changed since it was loaded.                          *)
(*                                                                         *)
(* First, what each step of Distributed does to the connection it is       *)
(* about: it leaves it well typed and in a shape the code expects, and     *)
(* takes no trial number it did not have, but for the one new_trial draws. *)
(***************************************************************************)
EXTENDS Distributed, TrialsProofs, FiniteSetTheorems

-----------------------------------------------------------------------------
(* Messages.                                                                *)

\* A request carries the fields of its kind, of their types (protocol.rs:16-46).
LEMMA RequestFields ==
    ASSUME NEW V, NEW r \in Request(V)
    PROVE  /\ r.op = "Suggest" => r.number \in Nat /\ r.name \in Names /\ r.dist \in Dists
           /\ r.op = "Report" => r.number \in Nat /\ r.step \in Steps /\ r.value \in V
           /\ r.op = "ShouldPrune" => r.number \in Nat
           /\ r.op = "Finish" => r.number \in Nat /\ r.outcome \in Outcome(V)
BY DEF Request

\* A response carries the fields of its kind, of their types (protocol.rs:60-74).
LEMMA ResponseFields ==
    ASSUME NEW r \in Response
    PROVE  /\ r.kind = "Trial" => r.number \in Nat
           /\ r.kind = "Value" => r.value \in Int
BY DEF Response

\* What is sent arrives, or arrives as a line that is no request.
LEMMA WireType ==
    ASSUME NEW r \in Request(Vals)
    PROVE  /\ Wire(r) \in Request(Vals \ {NaN}) \cup {BadLine}
           /\ Wire(r) # None
           /\ Wire(r) # BadLine => Wire(r) = r
           /\ BadLine.op = "Unreadable"
<1>1. CASE Wire(r) = BadLine
  BY <1>1, NoneIsNoMessage DEF BadLine
<1>2. CASE Wire(r) # BadLine
  <2>1. Wire(r) = r /\ ~(r.op = "Report" /\ r.value = NaN)
                    /\ ~(r.op = "Finish" /\ r.outcome.value = NaN)
    BY <1>2 DEF Wire
  <2>2. r \in Request(Vals \ {NaN})
    <3>1. CASE r.op = "Finish"
      <4>1. /\ r \in [op : {"Finish"}, study : Studies, number : Nat, outcome : Outcome(Vals)]
        BY <3>1 DEF Request
      <4>2. r.outcome \in Outcome(Vals \ {NaN})
        BY <4>1, <3>1, <2>1 DEF Outcome
      <4> QED BY <4>1, <4>2 DEF Request
    <3>2. CASE r.op = "Report"
      BY <3>2, <2>1 DEF Request
    <3>3. CASE r.op \notin {"Report", "Finish"}
      BY <3>3 DEF Request
    <3> QED BY <3>1, <3>2, <3>3
  <2> QED BY <2>1, <2>2, NoneIsNoMessage DEF BadLine
<1> QED BY <1>1, <1>2

-----------------------------------------------------------------------------
(* Trials.                                                                  *)

\* Without a NaN in it a trial is stored as it is, by either backend.
LEMMA EncodeIsIdentity ==
    ASSUME NEW t \in TrialRows
    PROVE  Encode(t) = t
<1>1. \A e \in DOMAIN t.intermediate_values : t.intermediate_values[e].val \in Int
  <2>1. t.intermediate_values \in Seq(Entry(Steps, Int))
    BY DEF TrialRows, TrialType
  <2>2. \A e \in DOMAIN t.intermediate_values : t.intermediate_values[e] \in Entry(Steps, Int)
    BY <2>1
  <2> QED BY <2>2 DEF Entry
<1>2. t.value # NaN
  BY SpecialValues DEF TrialRows, TrialType
<1>3. [t EXCEPT !.value = IF @ = NaN THEN None ELSE @] = t
  BY <1>2 DEF TrialRows, TrialType
<1> QED BY <1>1, <1>3, SpecialValues DEF Encode

-----------------------------------------------------------------------------
(* Typing.  Typed collects what a step needs to know about the state before. *)

Typed == TypeOK /\ Shape

Typing(w) == conn[w] \in Connection /\ thread[w] \in Thread /\ worker[w] \in Process

\* The parts of a state, untangled from the invariant.
LEMMA TypedParts ==
    ASSUME Typed, NEW w \in Workers
    PROVE  /\ conn[w].link \in {"none", "up", "down"}
           /\ conn[w].req \in Request(Vals \ {NaN}) \cup {BadLine, None}
           /\ conn[w].resp \in Response \cup {None}
           /\ thread[w].pc \in Serving \cup {"none", "gone"}
           /\ thread[w].authed \in BOOLEAN
           /\ thread[w].number \in Nat \cup {None}
           /\ thread[w].current \in TrialRows \cup {None}
           /\ worker[w].asked \in Request(Vals) \cup {None}
           /\ worker[w].number \in Nat \cup {None}
           /\ worker[w].view \in TrialType(Names, Steps, Floats) \cup {None}
           /\ worker[w].left \in Nat /\ worker[w].calls \in 0 .. MaxCalls
           /\ ThreadShape(w) /\ WorkerShape(w)
           /\ Typing(w)
BY DEF Typed, TypeOK, ConnTypeOK, CoordTypeOK, WorkerTypeOK, Shape, Typing,
       Connection, Thread, Process

\* None is not a trial of the history.
LEMMA NoneIsNoTrial == None \notin TrialRows
<1>1. Int \subseteq Floats
  BY DEF Floats
<1>2. TrialRows \subseteq TrialType(Names, Steps, Floats)
  <2>1. Entry(Steps, Int) \subseteq Entry(Steps, Floats)
    BY <1>1 DEF Entry
  <2>2. Seq(Entry(Steps, Int)) \subseteq Seq(Entry(Steps, Floats))
    BY <2>1
  <2> QED BY <1>1, <2>2 DEF TrialRows, TrialType
<1> QED BY <1>2, NoneIsNoMessage

\* Saving a trial under its number keeps the history well typed.
LEMMA SaveTrialType ==
    ASSUME CoordTypeOK, NEW t \in TrialRows, SaveTrial(t)
    PROVE  /\ DOMAIN rows' \subseteq Nat /\ IsFiniteSet(DOMAIN rows')
           /\ \A n \in DOMAIN rows' : rows'[n] \in TrialRows /\ rows'[n].number = n
           /\ rows' = [n \in DOMAIN rows \cup {t.number} |->
                          IF n = t.number THEN t ELSE rows[n]]
<1>1. t.number \in Nat
  BY DEF TrialRows, TrialType
<1>2. Encode(t) = t
  BY EncodeIsIdentity
<1>3. IsFiniteSet(DOMAIN rows \cup {t.number})
  BY FS_AddElement DEF CoordTypeOK
<1> QED BY <1>1, <1>2, <1>3 DEF SaveTrial, CoordTypeOK

-----------------------------------------------------------------------------
(* Nearly every step concerns one connection.  OneConnection says so, and   *)
(* Sound says that what the step leaves there is in order and that it has   *)
(* taken no trial number it did not have.                                   *)

OneConnection(w) ==
    /\ SetConn(w, conn'[w]) /\ Continue(w, thread'[w]) /\ Become(w, worker'[w])
    /\ UNCHANGED <<meta, up, boots, direction>>

Fits(w) == OneConnection(w) /\ Typing(w)' /\ ThreadShape(w)' /\ WorkerShape(w)'

\* A trial to be changed has just been loaded, or is the one loaded before,
\* for the same request.
Keeps(w) ==
    thread'[w].pc = "save" =>
        /\ rows' = rows /\ conn'[w].req = conn[w].req
        /\ \/ thread[w].pc = "save" /\ thread'[w].current = thread[w].current
           \/ thread'[w].current = Current(conn[w].req.number)

Sound(w) ==
    /\ Fits(w) /\ Keeps(w)
    /\ Owned(w)' \subseteq Owned(w)
    /\ Served(w)' => Served(w) \/ Owned(w)' = {}

\* What the three assignments come to at w itself.
LEMMA AtConnection ==
    ASSUME Typed, NEW w \in Workers, NEW c
    PROVE  /\ SetConn(w, c) => conn'[w] = c /\ SetConn(w, conn'[w])
           /\ Continue(w, c) => thread'[w] = c /\ Continue(w, thread'[w])
           /\ Become(w, c) => worker'[w] = c /\ Become(w, worker'[w])
           /\ UNCHANGED conn => SetConn(w, conn'[w])
           /\ UNCHANGED thread => Continue(w, thread'[w])
           /\ UNCHANGED worker => Become(w, worker'[w])
BY DEF Typed, TypeOK, ConnTypeOK, CoordTypeOK, WorkerTypeOK, SetConn, Continue, Become

\* Every request a worker sends.
LEMMA AskSound ==
    ASSUME Typed, NEW w \in Workers, NEW r \in Request(Vals), NEW s \in Process,
           Call(w, r), UNCHANGED coordVars,
           Become(w, s),
           worker[w].pc \in {"open", "ready", "objective"},
           r.op \in Numbered =>
              worker[w].pc = "objective" /\ r.number = worker[w].number /\ s.view # None,
           r.op \notin Numbered => worker[w].pc # "objective",
           s.pc = "call", s.asked = r, s.number = worker[w].number
    PROVE  Sound(w)
<1>1. /\ Wire(r) \in Request(Vals \ {NaN}) \cup {BadLine} /\ Wire(r) # None
      /\ Wire(r) = r \/ Wire(r).op = "Unreadable"
  BY WireType
<1>2. /\ conn[w].link = "up"
      /\ conn'[w] = [conn[w] EXCEPT !.req = Wire(r)]
      /\ thread' = thread /\ worker'[w] = s /\ up' = up
  BY AtConnection DEF Call, Transmit, coordVars
<1>3. OneConnection(w)
  BY AtConnection DEF Call, Transmit, OneConnection, coordVars
<1>4. Typing(w)'
  BY <1>1, <1>2, TypedParts DEF Typing, Connection
<1>5. ThreadShape(w) /\ WorkerShape(w) /\ r # None /\ Typing(w)
  BY TypedParts, NoneIsNoMessage
<1>6. ThreadShape(w)'
  BY <1>1, <1>2, <1>5 DEF ThreadShape, WorkerShape, Served, Serving, Requested, Numbered,
                          Typing, Connection
<1>7. WorkerShape(w)'
  BY <1>1, <1>2, <1>5 DEF WorkerShape, Numbered, Typing, Connection
<1>8. Owned(w)' \subseteq Owned(w)
  BY <1>1, <1>2, <1>5 DEF Owned, Carried, Requested, WorkerShape, Numbered, Typing, Connection
<1>9. Keeps(w)
  BY <1>2, <1>5 DEF Keeps, ThreadShape, WorkerShape, coordVars
<1> QED BY <1>2, <1>3, <1>4, <1>6, <1>7, <1>8, <1>9 DEF Sound, Fits, Served

\* A step of a worker that sends nothing: it changes its own state, reads the
\* answer or not, or closes the connection, and ends up nowhere in a call.
LEMMA OwnStepSound ==
    ASSUME Typed, NEW w \in Workers, NEW s \in Process,
           UNCHANGED <<rows, meta, up, boots, direction, thread>>, Become(w, s),
           worker[w].pc \notin {"new", "exit"},
           s.pc \in {"ready", "objective", "error", "exit"},
           \/ conn' = conn /\ worker[w].pc # "call"
           \/ TakeResponse(w) /\ (conn[w].link = "down" \/ conn[w].resp # None)
           \/ Disconnect(w) /\ s.pc = "exit",
           \/ s.number \in {worker[w].number, None}
           \/ Receiving(w, "NewTrial", "Trial") /\ s.number = conn[w].resp.number,
           s.pc = "objective" <=> s.number # None,
           s.pc = "objective" => s.view # None
    PROVE  Sound(w)
<1>1. /\ \/ conn'[w] = conn[w] /\ worker[w].pc # "call"
         \/ /\ conn'[w] = [conn[w] EXCEPT !.resp = None]
            /\ conn[w].link = "down" \/ conn[w].resp # None
         \/ conn'[w] = [conn[w] EXCEPT !.link = "down"] /\ s.pc = "exit"
      /\ thread' = thread /\ worker'[w] = s /\ up' = up
  BY AtConnection DEF TakeResponse, Disconnect
<1>2. OneConnection(w)
  BY AtConnection DEF TakeResponse, Disconnect, OneConnection
<1>3. Typing(w) /\ ThreadShape(w) /\ WorkerShape(w)
  BY TypedParts
<1>4. Typing(w)'
  BY <1>1, <1>3 DEF Typing, Connection
<1>5. conn[w].link # "none"
  BY <1>3 DEF ThreadShape, WorkerShape, Receiving
<1>6. /\ conn'[w].req = conn[w].req
      /\ conn'[w].resp \in {conn[w].resp, None}
      /\ conn'[w].link \in {conn[w].link, "down"}
      /\ \/ conn'[w].link = "down"
         \/ conn'[w].req = None /\ conn'[w].resp = None
  BY <1>1, <1>3, <1>5 DEF Typing, Connection, WorkerShape
<1>7. /\ thread'[w] = thread[w] /\ Requested(w)' = Requested(w)
      /\ Carried(w)' \subseteq Carried(w)
  BY <1>1, <1>6 DEF Requested, Carried
<1>8. \/ s.number \in {worker[w].number, None}
      \/ conn[w].resp # None /\ s.number \in Carried(w)
  BY DEF Receiving, Carried
<1>9. ThreadShape(w)'
  BY <1>1, <1>3, <1>5, <1>6, <1>7, <1>8 DEF ThreadShape, Served, Serving
<1>10. WorkerShape(w)'
  BY <1>1, <1>3, <1>5, <1>6 DEF WorkerShape
<1>11. Owned(w)' \subseteq Owned(w)
  BY <1>1, <1>7, <1>8 DEF Owned
<1> QED BY <1>2, <1>4, <1>6, <1>7, <1>9, <1>10, <1>11 DEF Sound, Fits, Keeps, Served

\* Every request a worker sends.
LEMMA AskStepSound ==
    ASSUME Typed, NEW w \in Workers, UNCHANGED coordVars,
           \/ AskAuthenticate(w) \/ AskBestValue(w) \/ AskNewTrial(w)
           \/ \E name \in Names, dist \in Dists : AskSuggest(w, name, dist)
           \/ \E step \in Steps, v \in Vals : AskReport(w, step, v)
           \/ AskShouldPrune(w)
           \/ \E o \in Outcome(Vals) : AskFinish(w, o)
    PROVE  Sound(w)
<1>1. worker[w] \in Process /\ WorkerShape(w)
  BY TypedParts DEF Typing
<1>2. /\ WorkerStudy[w] \in Studies /\ WorkerToken[w] \in Tokens \cup {None}
      /\ MaxCalls \in Nat /\ Vals \subseteq Floats
  BY WorkerAssumption, ProtocolAssumption
<1>3. CASE AskAuthenticate(w)
  <2> DEFINE r == [op |-> "Auth", token |-> WorkerToken[w]]
             s == [worker[w] EXCEPT !.pc = "call", !.asked = r]
  <2>1. Become(w, s) /\ Call(w, r) /\ worker[w].pc = "open"
    BY <1>3 DEF AskAuthenticate
  <2>2. r \in Request(Vals)
    BY <1>1, <1>2, <2>1 DEF Request, WorkerShape
  <2>3. s \in Process
    BY <1>1, <2>2 DEF Process
  <2> QED BY <1>1, <2>1, <2>2, <2>3, AskSound DEF Numbered, Process
<1>4. CASE AskBestValue(w)
  <2> DEFINE r == [op |-> "BestValue", study |-> WorkerStudy[w]]
             s == [worker[w] EXCEPT !.pc = "call", !.asked = r]
  <2>1. Become(w, s) /\ Call(w, r) /\ worker[w].pc = "ready"
    BY <1>4 DEF AskBestValue
  <2>2. r \in Request(Vals)
    BY <1>2 DEF Request
  <2>3. s \in Process
    BY <1>1, <2>2 DEF Process
  <2> QED BY <1>1, <2>1, <2>2, <2>3, AskSound DEF Numbered, Process
<1>5. CASE AskNewTrial(w)
  <2> DEFINE r == [op |-> "NewTrial", study |-> WorkerStudy[w]]
             s == [worker[w] EXCEPT !.pc = "call", !.asked = r, !.left = @ - 1]
  <2>1. Become(w, s) /\ Call(w, r) /\ worker[w].pc = "ready" /\ worker[w].left > 0
    BY <1>5 DEF AskNewTrial
  <2>2. r \in Request(Vals)
    BY <1>2 DEF Request
  <2>3. worker[w].left - 1 \in Nat
    BY <1>1, <2>1 DEF Process
  <2>4. s \in Process
    BY <1>1, <2>2, <2>3 DEF Process
  <2> QED BY <1>1, <2>1, <2>2, <2>4, AskSound DEF Numbered, Process
<1>6. ASSUME NEW r \in Request(Vals), ObjectiveCall(w, r),
             r.op \in Numbered, worker[w].pc = "objective" => r.number = worker[w].number
      PROVE  Sound(w)
  <2> DEFINE s == [worker[w] EXCEPT !.pc = "call", !.asked = r, !.calls = @ + 1]
  <2>1. Become(w, s) /\ Call(w, r) /\ worker[w].pc = "objective" /\ worker[w].calls < MaxCalls
    BY <1>6 DEF ObjectiveCall, Computing
  <2>2. worker[w].calls + 1 \in 0 .. MaxCalls
    BY <1>1, <1>2, <2>1 DEF Process
  <2>3. s \in Process /\ s.view # None
    BY <1>1, <1>6, <2>1, <2>2 DEF Process, WorkerShape
  <2> QED BY <1>1, <1>6, <2>1, <2>3, AskSound DEF Process
<1>7. worker[w].pc = "objective" => worker[w].number \in Nat
  BY <1>1 DEF Process, WorkerShape
<1>8. ASSUME NEW name \in Names, NEW dist \in Dists, AskSuggest(w, name, dist)
      PROVE  Sound(w)
  <2> DEFINE r == [op |-> "Suggest", study |-> WorkerStudy[w], number |-> worker[w].number,
                   name |-> name, dist |-> dist]
  <2>1. ObjectiveCall(w, r) /\ worker[w].pc = "objective"
    BY <1>8 DEF AskSuggest, ObjectiveCall, Computing
  <2>2. r \in Request(Vals)
    BY <1>2, <1>7, <2>1 DEF Request
  <2> QED BY <1>6, <2>1, <2>2 DEF Numbered
<1>9. ASSUME NEW step \in Steps, NEW v \in Vals, AskReport(w, step, v)
      PROVE  Sound(w)
  <2> DEFINE r == [op |-> "Report", study |-> WorkerStudy[w], number |-> worker[w].number,
                   step |-> step, value |-> v]
  <2>1. ObjectiveCall(w, r) /\ worker[w].pc = "objective"
    BY <1>9 DEF AskReport, ObjectiveCall, Computing
  <2>2. r \in Request(Vals)
    BY <1>2, <1>7, <2>1 DEF Request
  <2> QED BY <1>6, <2>1, <2>2 DEF Numbered
<1>10. CASE AskShouldPrune(w)
  <2> DEFINE r == [op |-> "ShouldPrune", study |-> WorkerStudy[w],
                   number |-> worker[w].number]
  <2>1. ObjectiveCall(w, r) /\ worker[w].pc = "objective"
    BY <1>10 DEF AskShouldPrune, ObjectiveCall, Computing
  <2>2. r \in Request(Vals)
    BY <1>2, <1>7, <2>1 DEF Request
  <2> QED BY <1>6, <2>1, <2>2 DEF Numbered
<1>11. ASSUME NEW o \in Outcome(Vals), AskFinish(w, o)
       PROVE  Sound(w)
  <2> DEFINE r == [op |-> "Finish", study |-> WorkerStudy[w], number |-> worker[w].number,
                   outcome |-> o]
             s == [worker[w] EXCEPT !.pc = "call", !.asked = r, !.view = FinishTrial(@, o)]
  <2>1. Become(w, s) /\ Call(w, r) /\ worker[w].pc = "objective"
    BY <1>11 DEF AskFinish
  <2>2. r \in Request(Vals)
    BY <1>2, <1>7, <2>1 DEF Request
  <2>3. worker[w].view \in TrialType(Names, Steps, Floats)
    BY <1>1, <2>1 DEF Process, WorkerShape
  <2>4. o \in Outcome(Floats)
    BY <1>2 DEF Outcome
  <2>5. FinishTrial(worker[w].view, o) \in TrialType(Names, Steps, Floats)
    BY <2>3, <2>4, FinishTrialType
  <2>6. s \in Process /\ s.view # None
    BY <1>1, <2>2, <2>5, NoneIsNoMessage DEF Process
  <2> QED BY <1>1, <2>1, <2>2, <2>6, AskSound DEF Process, Numbered
<1> QED BY <1>3, <1>4, <1>5, <1>8, <1>9, <1>10, <1>11

\* Every other step of a worker on its open connection.
LEMMA OtherStepSound ==
    ASSUME Typed, NEW w \in Workers, UNCHANGED coordVars,
           \/ ShortCircuit(w) \/ ObjectiveCallOnClosed(w) \/ ReturnNetError(w)
           \/ CallFails(w) \/ CallOnClosed(w) \/ Retry(w) \/ Quit(w)
    PROVE  Sound(w)
<1>1. worker[w] \in Process /\ WorkerShape(w) /\ conn[w].resp \in Response \cup {None}
  BY TypedParts DEF Typing
<1>2. ASSUME NEW pc \in {"ready", "error", "exit"}
      PROVE  LET s == NoTrial([worker[w] EXCEPT !.pc = pc])
             IN  s \in Process /\ s.pc = pc /\ s.number = None
  <2>1. 0 \in 0 .. MaxCalls
    BY WorkerAssumption
  <2> QED BY <1>1, <2>1 DEF NoTrial, Process
<1>3. CASE ShortCircuit(w)
  <2> DEFINE s == [worker[w] EXCEPT !.calls = @ + 1]
  <2>1. /\ Become(w, s) /\ conn' = conn
        /\ worker[w].pc = "objective" /\ worker[w].calls < MaxCalls /\ MaxCalls \in Nat
    BY <1>3, WorkerAssumption DEF ShortCircuit, Computing
  <2>2. worker[w].calls + 1 \in 0 .. MaxCalls
    BY <1>1, <2>1 DEF Process
  <2>3. s \in Process
    BY <1>1, <2>2 DEF Process
  <2> QED BY <1>1, <2>1, <2>3, OwnStepSound DEF coordVars, Process, WorkerShape
<1>4. CASE ObjectiveCallOnClosed(w)
  <2> DEFINE s == [worker[w] EXCEPT !.calls = @ + 1, !.net_error = TRUE]
  <2>1. /\ Become(w, s) /\ conn' = conn
        /\ worker[w].pc = "objective" /\ worker[w].calls < MaxCalls /\ MaxCalls \in Nat
    BY <1>4, WorkerAssumption DEF ObjectiveCallOnClosed, Computing
  <2>2. worker[w].calls + 1 \in 0 .. MaxCalls
    BY <1>1, <2>1 DEF Process
  <2>3. s \in Process
    BY <1>1, <2>2 DEF Process
  <2> QED BY <1>1, <2>1, <2>3, OwnStepSound DEF coordVars, Process, WorkerShape
<1>5. CASE ReturnNetError(w)
  <2> DEFINE s == NoTrial([worker[w] EXCEPT !.pc = "error"])
  <2>1. Become(w, s) /\ conn' = conn /\ worker[w].pc = "objective"
    BY <1>5 DEF ReturnNetError
  <2> QED BY <1>2, <2>1, OwnStepSound DEF coordVars
<1>6. CASE CallFails(w)
  <2>1. /\ TakeResponse(w) /\ worker[w].pc = "call"
        /\ conn[w].link = "down" \/ conn[w].resp # None
    BY <1>6, NoneIsNoMessage DEF CallFails, Error, Response
  <2>2. CASE worker[w].asked.op \in {"Suggest", "Report", "ShouldPrune"}
    <3> DEFINE s == [worker[w] EXCEPT !.pc = "objective", !.asked = None, !.net_error = TRUE]
    <3>1. Become(w, s)
      BY <1>6, <2>2 DEF CallFails
    <3>2. s \in Process /\ s.number # None /\ s.view # None
      BY <1>1, <2>1, <2>2 DEF Process, WorkerShape, Numbered
    <3> QED BY <1>1, <2>1, <3>1, <3>2, OwnStepSound DEF coordVars, Process
  <2>3. CASE worker[w].asked.op \notin {"Suggest", "Report", "ShouldPrune"}
    <3> DEFINE s == NoTrial([worker[w] EXCEPT !.pc = "error"])
    <3>1. Become(w, s)
      BY <1>6, <2>3 DEF CallFails
    <3> QED BY <1>2, <2>1, <3>1, OwnStepSound DEF coordVars
  <2> QED BY <2>2, <2>3
<1>7. CASE CallOnClosed(w)
  <2> DEFINE s == [worker[w] EXCEPT !.pc = "error"]
  <2>1. Become(w, s) /\ conn' = conn /\ worker[w].pc \in {"open", "ready"}
    BY <1>7 DEF CallOnClosed
  <2>2. s \in Process /\ s.number = None
    BY <1>1, <2>1 DEF Process, WorkerShape
  <2> QED BY <1>1, <2>1, <2>2, OwnStepSound DEF coordVars, Process
<1>8. CASE Retry(w)
  <2> DEFINE s == [worker[w] EXCEPT !.pc = "ready"]
  <2>1. Become(w, s) /\ conn' = conn /\ worker[w].pc = "error"
    BY <1>8 DEF Retry
  <2>2. s \in Process /\ s.number = None
    BY <1>1, <2>1 DEF Process, WorkerShape
  <2> QED BY <1>1, <2>1, <2>2, OwnStepSound DEF coordVars, Process
<1>9. CASE Quit(w)
  <2> DEFINE s == NoTrial([worker[w] EXCEPT !.pc = "exit"])
  <2>1. Become(w, s) /\ Disconnect(w) /\ worker[w].pc \notin {"new", "exit"}
    BY <1>9 DEF Quit, Leave
  <2> QED BY <1>2, <2>1, OwnStepSound DEF coordVars
<1> QED BY <1>3, <1>4, <1>5, <1>6, <1>7, <1>8, <1>9

\* Every answer a worker reads.
LEMMA RecvStepSound ==
    ASSUME Typed, NEW w \in Workers, UNCHANGED coordVars,
           \/ RecvAuth(w) \/ RecvTrial(w) \/ RecvValue(w) \/ RecvReported(w)
           \/ RecvPrune(w) \/ RecvFinished(w) \/ RecvBest(w)
    PROVE  Sound(w)
<1>1. /\ worker[w] \in Process /\ WorkerShape(w) /\ worker[w].pc = "call"
      /\ conn[w].resp \in Response /\ conn[w].resp # None
      /\ TakeResponse(w)
  BY TypedParts DEF Typing, RecvAuth, RecvTrial, RecvValue, RecvReported, RecvPrune,
                    RecvFinished, RecvBest, Receiving
<1>2. worker[w].asked \in Request(Vals)
  BY <1>1 DEF Process, WorkerShape
<1>3. CASE RecvAuth(w) \/ RecvBest(w)
  <2> DEFINE s == [worker[w] EXCEPT !.pc = "ready", !.asked = None]
  <2>1. Become(w, s) /\ worker[w].asked.op \in {"Auth", "BestValue"}
    BY <1>3 DEF RecvAuth, RecvBest, Return, Receiving
  <2>2. s \in Process /\ s.number = None
    BY <1>1, <2>1 DEF Process, WorkerShape, Numbered
  <2> QED BY <1>1, <2>1, <2>2, OwnStepSound DEF coordVars, Process
<1>4. CASE RecvPrune(w)
  <2> DEFINE s == [worker[w] EXCEPT !.pc = "objective", !.asked = None]
  <2>1. Become(w, s) /\ worker[w].asked.op = "ShouldPrune"
    BY <1>4 DEF RecvPrune, Return, Receiving
  <2>2. s \in Process /\ s.number # None /\ s.view # None
    BY <1>1, <2>1 DEF Process, WorkerShape, Numbered
  <2> QED BY <1>1, <2>1, <2>2, OwnStepSound DEF coordVars, Process
<1>5. CASE RecvFinished(w)
  <2> DEFINE s == NoTrial([worker[w] EXCEPT !.pc = "ready"])
  <2>1. Become(w, s) /\ 0 \in 0 .. MaxCalls
    BY <1>5, WorkerAssumption DEF RecvFinished
  <2>2. s \in Process /\ s.number = None /\ s.pc = "ready"
    BY <1>1, <2>1 DEF Process, NoTrial
  <2> QED BY <1>1, <2>1, <2>2, OwnStepSound DEF coordVars
<1>6. CASE RecvTrial(w)
  <2> DEFINE n == conn[w].resp.number
             s == [worker[w] EXCEPT !.pc = "objective", !.asked = None,
                                    !.number = n, !.view = NewTrial(n)]
  <2>1. Become(w, s) /\ Receiving(w, "NewTrial", "Trial")
    BY <1>6 DEF RecvTrial
  <2>2. n \in Nat
    BY <1>1, <2>1, ResponseFields DEF Receiving
  <2>3. n # None /\ NewTrial(n) \in TrialType(Names, Steps, Floats)
    BY <2>2, NewTrialType, SpecialValues
  <2>4. s \in Process /\ s.number = n /\ s.view # None
    BY <1>1, <2>2, <2>3, NoneIsNoMessage DEF Process
  <2> QED BY <1>1, <2>1, <2>3, <2>4, OwnStepSound DEF coordVars, Process
<1>7. ASSUME NEW s, Become(w, s), worker[w].asked.op \in {"Suggest", "Report"},
             worker[w].view \in TrialType(Names, Steps, Floats)
                => s.view \in TrialType(Names, Steps, Floats),
             s = [worker[w] EXCEPT !.pc = "objective", !.asked = None, !.view = s.view]
      PROVE  Sound(w)
  <2>1. s \in Process /\ s.number # None /\ s.view # None
    BY <1>1, <1>7, NoneIsNoMessage DEF Process, WorkerShape, Numbered
  <2> QED BY <1>1, <1>7, <2>1, OwnStepSound DEF coordVars, Process
<1>8. CASE RecvValue(w)
  <2> DEFINE t == Record(worker[w].view, worker[w].asked.name, conn[w].resp.value)
             s == [worker[w] EXCEPT !.pc = "objective", !.asked = None, !.view = t]
  <2>1. Become(w, s) /\ worker[w].asked.op = "Suggest" /\ conn[w].resp.kind = "Value"
    BY <1>8 DEF RecvValue, Receiving
  <2>2. worker[w].asked.name \in Names /\ conn[w].resp.value \in Int
    BY <1>1, <1>2, <2>1, RequestFields, ResponseFields
  <2>3. worker[w].view \in TrialType(Names, Steps, Floats)
           => t \in TrialType(Names, Steps, Floats)
    BY <2>2, RecordType
  <2>4. s.view = t /\ s = [worker[w] EXCEPT !.pc = "objective", !.asked = None, !.view = s.view]
    BY <1>1 DEF Process
  <2> QED BY <1>7, <2>1, <2>3, <2>4
<1>9. CASE RecvReported(w)
  <2> DEFINE t == AddReport(worker[w].view, worker[w].asked.step, worker[w].asked.value)
             s == [worker[w] EXCEPT !.pc = "objective", !.asked = None, !.view = t]
  <2>1. Become(w, s) /\ worker[w].asked.op = "Report"
    BY <1>9 DEF RecvReported, Receiving
  <2>2. worker[w].asked.step \in Steps /\ worker[w].asked.value \in Floats
    BY <1>2, <2>1, RequestFields, ProtocolAssumption
  <2>3. worker[w].view \in TrialType(Names, Steps, Floats)
           => t \in TrialType(Names, Steps, Floats)
    BY <2>2, AddReportType
  <2>4. s.view = t /\ s = [worker[w] EXCEPT !.pc = "objective", !.asked = None, !.view = s.view]
    BY <1>1 DEF Process
  <2> QED BY <1>7, <2>1, <2>3, <2>4
<1> QED BY <1>3, <1>4, <1>5, <1>6, <1>8, <1>9

\* Every step of a worker is sound for its own connection.
LEMMA WorkerStepSound ==
    ASSUME Typed, NEW w \in Workers, WorkerStep(w) \/ RecvFinished(w),
           UNCHANGED coordVars
    PROVE  Sound(w)
BY AskStepSound, OtherStepSound, RecvStepSound DEF WorkerStep

-----------------------------------------------------------------------------
(* The steps of the thread that serves the connection.                      *)

\* Answering: the thread is back at read_line, the request is consumed.
LEMMA AnswerSound ==
    ASSUME Typed, NEW w \in Workers, NEW r \in Response, NEW s \in Thread,
           Answer(w, r), Continue(w, s),
           UNCHANGED <<meta, up, boots, direction, worker>>,
           Served(w), conn[w].req # None,
           s.pc = "read", s.number = None,
           r.kind = "Trial" => r.number \in Owned(w)
    PROVE  Sound(w)
<1>1. Typing(w) /\ ThreadShape(w) /\ WorkerShape(w) /\ r # None
  BY TypedParts, NoneIsNoMessage
<1>2. /\ conn'[w] = [conn[w] EXCEPT !.req = None,
                                    !.resp = IF conn[w].link = "up" THEN r ELSE None]
      /\ thread'[w] = s /\ worker'[w] = worker[w] /\ up' = up
  BY AtConnection DEF Answer
<1>3. OneConnection(w)
  BY AtConnection DEF OneConnection, Answer
<1>4. /\ conn'[w].req = None /\ conn'[w].link = conn[w].link
      /\ conn'[w].resp = IF conn[w].link = "up" THEN r ELSE None
  BY <1>1, <1>2 DEF Typing, Connection
<1>5. Typing(w)'
  BY <1>1, <1>2 DEF Typing, Connection
<1>6. ThreadShape(w)'
  BY <1>1, <1>2, <1>4 DEF ThreadShape, WorkerShape, Served, Serving
<1>7. WorkerShape(w)'
  BY <1>1, <1>2, <1>4 DEF WorkerShape
<1>8. Owned(w)' \subseteq Owned(w)
  BY <1>2, <1>4 DEF Owned, Carried, Requested
<1>9. Keeps(w)
  BY <1>2 DEF Keeps
<1> QED BY <1>3, <1>5, <1>6, <1>7, <1>8, <1>9 DEF Sound, Fits

\* What a thread may do to the history: nothing, or save a trial it owns.
Stores(w) ==
    \/ UNCHANGED rows
    \/ Served(w) /\ \E t \in TrialRows : t.number \in Owned(w) /\ SaveTrial(t)

\* The answers that save nothing.
LEMMA RespondSound ==
    ASSUME Typed, NEW w \in Workers, UNCHANGED worker,
           \/ Authenticate(w) \/ Refuse(w) \/ BestValueResponse(w) \/ StorageError(w)
           \/ \E verdict \in BOOLEAN : ShouldPrune(w, verdict)
    PROVE  Sound(w) /\ Stores(w) /\ UNCHANGED counter /\ failed' \in {failed, failed \cup {w}}
<1>1. Typing(w) /\ ThreadShape(w)
  BY TypedParts
<1>2. ASSUME NEW r \in Response, Answer(w, r), r.kind # "Trial", thread[w].pc = "read",
             conn[w].req # None, UNCHANGED coordVars
      PROVE  Sound(w) /\ Stores(w)
  <2>1. thread[w].number = None /\ Served(w)
    BY <1>1, <1>2 DEF ThreadShape, Served, Serving
  <2>2. Continue(w, thread[w]) /\ thread[w] \in Thread
    BY <1>1, <1>2 DEF Continue, coordVars, Typing, Typed, TypeOK, CoordTypeOK
  <2> QED BY <1>2, <2>1, <2>2, AnswerSound DEF coordVars, Stores
<1>3. CASE Refuse(w)
  BY <1>2, <1>3 DEF Refuse, Error, Response, coordVars
<1>4. ASSUME NEW verdict \in BOOLEAN, ShouldPrune(w, verdict)
      PROVE  Sound(w) /\ Stores(w)
  BY <1>2, <1>4 DEF ShouldPrune, Pending, PruneIs, Response
<1>5. CASE BestValueResponse(w)
  <2>1. BestIs(BestValue(direction, rows)) \in Response
    BY DEF BestIs, Response
  <2> QED BY <1>2, <1>5, <2>1 DEF BestValueResponse, Pending, BestIs, coordVars
<1>6. CASE Authenticate(w)
  <2> DEFINE ok == ServerToken = None \/ conn[w].req.token = ServerToken
             s == [thread[w] EXCEPT !.authed = @ \/ ok]
  <2>1. /\ Answer(w, IF ok THEN Ack ELSE Error) /\ Continue(w, s)
        /\ thread[w].pc = "read" /\ conn[w].req # None
        /\ UNCHANGED <<rows, meta, up, boots, direction, counter, failed>>
    BY <1>6 DEF Authenticate, Pending
  <2>2. s \in Thread /\ s.pc = "read" /\ s.number = None
    BY <1>1, <2>1 DEF Typing, Thread, ThreadShape
  <2>3. /\ (IF ok THEN Ack ELSE Error) \in Response
        /\ (IF ok THEN Ack ELSE Error).kind # "Trial"
    BY DEF Ack, Error, Response
  <2>4. Served(w)
    BY <2>1 DEF Served, Serving
  <2> QED BY <2>1, <2>2, <2>3, <2>4, AnswerSound DEF Stores
<1>7. CASE StorageError(w)
  <2> DEFINE s == [thread[w] EXCEPT !.pc = "read", !.number = None, !.current = None]
  <2>1. /\ Answer(w, Error) /\ Continue(w, s)
        /\ UNCHANGED <<rows, meta, up, boots, direction, counter>>
        /\ failed' = failed \cup {w}
    BY <1>7 DEF StorageError
  <2>2. thread[w].pc \in Serving /\ conn[w].req # None
    BY <1>1, <1>7 DEF StorageError, Pending, ThreadShape, Serving
  <2>3. s \in Thread /\ s.pc = "read" /\ s.number = None
    BY <1>1 DEF Typing, Thread, Serving
  <2>4. Error \in Response /\ Error.kind # "Trial"
    BY DEF Error, Response
  <2> QED BY <2>1, <2>2, <2>3, <2>4, AnswerSound DEF Stores, Served
<1> QED BY <1>3, <1>4, <1>5, <1>6, <1>7
        DEF Authenticate, Refuse, BestValueResponse, ShouldPrune, coordVars

\* A thread's steps that answer nothing and save nothing.
LEMMA QuietThreadSound ==
    ASSUME Typed, NEW w \in Workers, UNCHANGED worker,
           Accept(w) \/ Hangup(w) \/ Partition(w) \/ SamplerPanic(w)
    PROVE  Sound(w) /\ Stores(w) /\ UNCHANGED counter /\ failed' \in {failed, failed \cup {w}}
<1>1. /\ Typing(w) /\ ThreadShape(w) /\ WorkerShape(w)
      /\ worker'[w] = worker[w] /\ Become(w, worker'[w])
      /\ conn' = conn => conn'[w] = conn[w] /\ SetConn(w, conn'[w])
  BY TypedParts, AtConnection
<1>2. CASE Accept(w)
  <2> DEFINE s == [NoThread EXCEPT !.pc = "read", !.authed = (ServerToken = None)]
  <2>1. /\ Continue(w, s) /\ thread'[w] = s /\ conn' = conn /\ up' = up /\ up
        /\ thread[w].pc = "none" /\ conn[w].link # "none"
        /\ UNCHANGED <<rows, meta, up, boots, direction, counter, failed>>
    BY <1>2, AtConnection DEF Accept
  <2>2. s \in Thread /\ s.pc = "read" /\ s.number = None
    BY DEF Thread, NoThread, Serving
  <2>3. Fits(w)
    BY <1>1, <2>1, <2>2, AtConnection
    DEF Fits, OneConnection, Typing, ThreadShape, WorkerShape, Requested
  <2>4. Owned(w)' = {}
    BY <1>1, <2>1, <2>2 DEF Owned, Carried, Requested, ThreadShape
  <2>5. Keeps(w)
    BY <2>1 DEF Keeps
  <2> QED BY <2>1, <2>3, <2>4, <2>5 DEF Sound, Stores
<1>3. CASE Hangup(w) \/ SamplerPanic(w)
  <2>1. /\ Continue(w, Gone) /\ thread'[w] = Gone
        /\ SetConn(w, conn'[w]) /\ conn'[w].req = None /\ conn'[w].link = "down"
        /\ conn'[w].resp = conn[w].resp
        /\ UNCHANGED <<rows, meta, up, boots, direction, counter>>
        /\ failed' \in {failed, failed \cup {w}}
        /\ conn'[w] \in Connection /\ conn[w].link # "none"
    <3>1. CASE Hangup(w)
      <4>1. /\ thread'[w] = Gone /\ conn'[w] = [conn[w] EXCEPT !.req = None]
            /\ SetConn(w, conn'[w]) /\ conn[w].link = "down"
        BY <3>1, AtConnection DEF Hangup
      <4> QED BY <1>1, <3>1, <4>1 DEF Hangup, Typing, Connection
    <3>2. CASE SamplerPanic(w)
      <4>1. /\ thread'[w] = Gone /\ SetConn(w, conn'[w])
            /\ conn'[w] = [conn[w] EXCEPT !.link = "down", !.req = None]
        BY <3>2, AtConnection DEF SamplerPanic
      <4> QED BY <1>1, <3>2, <4>1
             DEF SamplerPanic, Saving, Typing, Connection, ThreadShape, WorkerShape
    <3> QED BY <1>3, <3>1, <3>2
  <2>2. Gone \in Thread /\ Gone.pc = "gone" /\ Gone.number = None
    BY DEF Gone, NoThread, Thread, Serving
  <2>3. Fits(w)
    BY <1>1, <2>1, <2>2, AtConnection
    DEF Fits, OneConnection, Typing, ThreadShape, WorkerShape, Served, Serving
  <2>4. Owned(w)' \subseteq Owned(w)
    BY <1>1, <2>1, <2>2 DEF Owned, Carried, Requested
  <2>5. Keeps(w) /\ ~Served(w)'
    BY <2>1, <2>2 DEF Keeps, Served, Serving
  <2> QED BY <2>1, <2>3, <2>4, <2>5 DEF Sound, Stores
<1>4. CASE Partition(w)
  <2> DEFINE n == conn[w].req.number
             s == [thread[w] EXCEPT !.pc = "save", !.current = Current(n)]
  <2>1. /\ Continue(w, s) /\ thread'[w] = s /\ conn' = conn
        /\ thread[w].pc = "read" /\ conn[w].req # None
        /\ conn[w].req.op \in {"Suggest", "Report", "Finish"}
        /\ UNCHANGED <<rows, meta, up, boots, direction, counter, failed>>
    BY <1>4, AtConnection DEF Partition, Pending
  <2>2. conn[w].req \in Request(Vals \ {NaN})
    BY <1>1, <2>1 DEF Typing, Connection, BadLine
  <2>3. n \in Nat
    BY <2>1, <2>2, RequestFields
  <2>4. Current(n) \in TrialRows /\ Current(n).number = n /\ Current(n) # None
    <3>1. CASE n \in DOMAIN rows
      BY <3>1, NoneIsNoTrial DEF Typed, TypeOK, CoordTypeOK, Current
    <3>2. CASE n \notin DOMAIN rows
      BY <3>2, <2>3, NewTrialType, NoneIsNoTrial DEF TrialRows, Current
    <3> QED BY <3>1, <3>2
  <2>5. s \in Thread /\ s.pc = "save" /\ s.number = None /\ s.current = Current(n)
    BY <1>1, <2>1, <2>4 DEF Typing, Thread, Serving, ThreadShape
  <2>6. Fits(w)
    BY <1>1, <2>1, <2>4, <2>5, AtConnection
    DEF Fits, OneConnection, Typing, ThreadShape, WorkerShape, Served, Serving
  <2>7. Owned(w)' \subseteq Owned(w)
    BY <1>1, <2>1, <2>5 DEF Owned, Carried, Requested
  <2>8. Keeps(w) /\ Served(w)
    BY <2>1 DEF Keeps, Served, Serving
  <2> QED BY <2>1, <2>6, <2>7, <2>8 DEF Sound, Stores
<1> QED BY <1>2, <1>3, <1>4

\* The saves that end new_trial, suggest, report and finish.
LEMMA SaveSound ==
    ASSUME Typed, NEW w \in Workers, UNCHANGED worker,
           \/ NewTrialSave(w) \/ ReportSave(w) \/ FinishSave(w)
           \/ \E v \in UNION Dists : SuggestSave(w, v)
    PROVE  Sound(w) /\ Stores(w) /\ UNCHANGED <<counter, failed>>
<1>1. Typing(w) /\ ThreadShape(w)
  BY TypedParts
<1>2. Vals \ {NaN} \subseteq Int /\ Dists \subseteq SUBSET Int
  BY ProtocolAssumption DEF Floats
<1>3. CASE NewTrialSave(w)
  <2> DEFINE n == thread[w].number
             s == [thread[w] EXCEPT !.pc = "read", !.number = None]
  <2>1. /\ SaveTrial(NewTrial(n)) /\ Answer(w, TrialIs(n)) /\ Continue(w, s)
        /\ UNCHANGED <<meta, up, boots, direction, counter, failed>>
        /\ thread[w].pc = "save_new"
    BY <1>3 DEF NewTrialSave
  <2>2. n \in Nat /\ n \in Owned(w) /\ conn[w].req # None
    BY <1>1, <2>1 DEF ThreadShape, Typing, Thread, Owned
  <2>3. NewTrial(n) \in TrialRows /\ NewTrial(n).number = n
    BY <2>2, NewTrialType DEF TrialRows
  <2>4. s \in Thread /\ s.pc = "read" /\ s.number = None
    BY <1>1 DEF Typing, Thread, Serving
  <2>5. TrialIs(n) \in Response /\ TrialIs(n).number = n
    BY <2>2 DEF TrialIs, Response
  <2>6. Served(w)
    BY <2>1 DEF Served, Serving
  <2> QED BY <2>1, <2>2, <2>3, <2>4, <2>5, <2>6, AnswerSound DEF Stores
<1>4. ASSUME NEW t \in TrialRows, NEW r \in Response, SaveCurrent(w, t, r),
             thread[w].pc = "save", t.number = thread[w].current.number, r.kind # "Trial"
      PROVE  Sound(w) /\ Stores(w) /\ UNCHANGED <<counter, failed>>
  <2> DEFINE s == [thread[w] EXCEPT !.pc = "read", !.current = None]
  <2>1. /\ SaveTrial(t) /\ Answer(w, r) /\ Continue(w, s)
        /\ UNCHANGED <<meta, up, boots, direction, counter, failed>>
    BY <1>4 DEF SaveCurrent
  <2>2. conn[w].req # None /\ t.number \in Requested(w)
    BY <1>1, <1>4 DEF ThreadShape, Requested, Numbered
  <2>3. s \in Thread /\ s.pc = "read" /\ s.number = None
    BY <1>1, <1>4 DEF Typing, Thread, Serving, ThreadShape
  <2>4. Served(w) /\ t.number \in Owned(w)
    BY <1>4, <2>2 DEF Served, Serving, Owned
  <2> QED BY <1>4, <2>1, <2>2, <2>3, <2>4, AnswerSound DEF Stores
<1>5. thread[w].pc = "save" =>
        /\ thread[w].current \in TrialType(Names, Steps, Int)
        /\ conn[w].req \in Request(Vals \ {NaN})
  BY <1>1 DEF Typing, Thread, Connection, ThreadShape, TrialRows, BadLine
<1>6. ASSUME NEW v \in UNION Dists, SuggestSave(w, v)
      PROVE  Sound(w) /\ Stores(w) /\ UNCHANGED <<counter, failed>>
  <2>1. thread[w].pc = "save" /\ conn[w].req.op = "Suggest"
    BY <1>6 DEF SuggestSave, Saving
  <2>2. conn[w].req.name \in Names /\ v \in Int
    BY <1>2, <1>5, <2>1, RequestFields
  <2>3. LET t == Record(thread[w].current, conn[w].req.name, v)
        IN  t \in TrialRows /\ t.number = thread[w].current.number
    BY <1>5, <2>1, <2>2, RecordType DEF TrialRows
  <2>4. ValueIs(v) \in Response /\ ValueIs(v).kind # "Trial"
    BY <2>2 DEF ValueIs, Response
  <2> QED BY <1>4, <1>6, <2>1, <2>3, <2>4 DEF SuggestSave
<1>7. Ack \in Response /\ Ack.kind # "Trial"
  BY DEF Ack, Response
<1>8. CASE ReportSave(w)
  <2>1. thread[w].pc = "save" /\ conn[w].req.op = "Report"
    BY <1>8 DEF ReportSave, Saving
  <2>2. conn[w].req.step \in Steps /\ conn[w].req.value \in Int
    BY <1>2, <1>5, <2>1, RequestFields
  <2>3. LET t == AddReport(thread[w].current, conn[w].req.step, conn[w].req.value)
        IN  t \in TrialRows /\ t.number = thread[w].current.number
    BY <1>5, <2>1, <2>2, AddReportType DEF TrialRows
  <2> QED BY <1>4, <1>7, <1>8, <2>1, <2>3 DEF ReportSave
<1>9. CASE FinishSave(w)
  <2>1. thread[w].pc = "save" /\ conn[w].req.op = "Finish"
    BY <1>9 DEF FinishSave, Saving
  <2>2. conn[w].req.outcome \in Outcome(Vals \ {NaN})
    BY <1>5, <2>1, RequestFields
  <2>3. conn[w].req.outcome \in Outcome(Int)
    BY <1>2, <2>2 DEF Outcome
  <2>4. LET t == FinishTrial(thread[w].current, conn[w].req.outcome)
        IN  t \in TrialRows /\ t.number = thread[w].current.number
    BY <1>5, <2>1, <2>3, FinishTrialType DEF TrialRows
  <2> QED BY <1>4, <1>7, <1>9, <2>1, <2>4 DEF FinishSave
<1> QED BY <1>3, <1>6, <1>8, <1>9

\* The one step that takes a new number, and what it takes is the counter's.
LEMMA DrawSound ==
    ASSUME Typed, NEW w \in Workers, UNCHANGED worker, NewTrialDraw(w)
    PROVE  /\ Fits(w) /\ Keeps(w) /\ Served(w)
           /\ Admitted(w) /\ conn[w].req # None /\ conn[w].req.op = "NewTrial"
           /\ Owned(w)' \subseteq Owned(w) \cup {counter}
           /\ counter' = counter + 1 /\ UNCHANGED <<rows, failed>>
<1>1. /\ Typing(w) /\ ThreadShape(w) /\ WorkerShape(w)
      /\ worker'[w] = worker[w] /\ Become(w, worker'[w]) /\ counter \in Nat
  BY TypedParts, AtConnection DEF Typed, TypeOK, CoordTypeOK
<1> DEFINE s == [thread[w] EXCEPT !.pc = "save_new", !.number = counter]
<1>2. /\ Continue(w, s) /\ thread'[w] = s /\ conn' = conn /\ SetConn(w, conn'[w])
      /\ thread[w].pc = "read" /\ conn[w].req # None /\ conn[w].req.op = "NewTrial"
      /\ UNCHANGED <<rows, meta, up, boots, direction, failed>> /\ counter' = counter + 1
      /\ Admitted(w)
  BY AtConnection DEF NewTrialDraw, Pending
<1>3. s \in Thread /\ s.pc = "save_new" /\ s.number = counter /\ counter # None
  <2>1. s \in Thread /\ s.pc = "save_new" /\ s.number = counter
    BY <1>1 DEF Typing, Thread, Serving
  <2> QED BY <1>1, <2>1, SpecialValues
<1>4. Fits(w)
  BY <1>1, <1>2, <1>3, AtConnection
  DEF Fits, OneConnection, Typing, ThreadShape, WorkerShape, Served, Serving
<1>5. Owned(w)' \subseteq Owned(w) \cup {counter}
  BY <1>1, <1>2, <1>3 DEF Owned, Carried, Requested
<1>6. Keeps(w) /\ Served(w)
  BY <1>2 DEF Keeps, Served, Serving
<1> QED BY <1>2, <1>4, <1>5, <1>6

-----------------------------------------------------------------------------
(* The network and the two ends of a connection.                            *)

\* Dialling and a breaking network are sound for the connection they happen to.
LEMMA LinkSound ==
    ASSUME Typed, NEW w \in Workers, Dial(w) \/ NetBreak(w)
    PROVE  Sound(w) /\ UNCHANGED <<rows, counter, acked>> /\ failed' \in {failed, failed \cup {w}}
<1>1. Typing(w) /\ ThreadShape(w) /\ WorkerShape(w)
  BY TypedParts
<1>2. CASE NetBreak(w)
  <2>1. /\ conn'[w] = [conn[w] EXCEPT !.link = "down"] /\ SetConn(w, conn'[w])
        /\ thread' = thread /\ worker' = worker
        /\ UNCHANGED <<rows, meta, up, boots, direction, counter, acked>>
        /\ failed' = failed \cup {w} /\ conn[w].link = "up"
    BY <1>2, AtConnection DEF NetBreak, Disconnect
  <2>2. Fits(w)
    BY <1>1, <2>1, AtConnection
    DEF Fits, OneConnection, Typing, Connection, ThreadShape, WorkerShape, Served, Serving, Requested
  <2>3. Owned(w)' = Owned(w) /\ Keeps(w) /\ Served(w)' = Served(w)
    BY <1>1, <2>1 DEF Owned, Carried, Requested, Keeps, Served, Typing, Connection
  <2> QED BY <2>1, <2>2, <2>3 DEF Sound
<1>3. CASE Dial(w)
  <2>1. /\ thread' = thread /\ worker[w].pc = "new"
        /\ UNCHANGED <<rows, meta, up, boots, direction, counter, acked, failed>>
    BY <1>3 DEF Dial, Connect, ConnectFails, coordVars
  <2>2. PICK pc \in {"open", "ready", "exit"}, link \in {"up", "none"} :
            /\ worker'[w] = [worker[w] EXCEPT !.pc = pc] /\ Become(w, worker'[w])
            /\ conn'[w] = [conn[w] EXCEPT !.link = link] /\ SetConn(w, conn'[w])
            /\ pc = "open" => WorkerToken[w] # None
            /\ link = "none" => pc = "exit"
            /\ pc = "exit" => link = "none"
    <3>1. CASE Connect(w)
      <4> DEFINE pc == IF WorkerToken[w] = None THEN "ready" ELSE "open"
      <4>1. Become(w, [worker[w] EXCEPT !.pc = pc]) /\ SetConn(w, [conn[w] EXCEPT !.link = "up"])
        BY <3>1 DEF Connect
      <4> HIDE DEF pc
      <4>2. /\ worker'[w] = [worker[w] EXCEPT !.pc = pc] /\ Become(w, worker'[w])
            /\ conn'[w] = [conn[w] EXCEPT !.link = "up"] /\ SetConn(w, conn'[w])
        BY <4>1, AtConnection
      <4>3. pc \in {"open", "ready"} /\ (pc = "open" => WorkerToken[w] # None)
        BY DEF pc
      <4> QED BY <4>2, <4>3
    <3>2. CASE ConnectFails(w)
      <4>1. /\ worker'[w] = [worker[w] EXCEPT !.pc = "exit"] /\ Become(w, worker'[w])
            /\ conn'[w] = conn[w] /\ SetConn(w, conn'[w])
        BY <3>2, AtConnection DEF ConnectFails
      <4>2. conn[w] = [conn[w] EXCEPT !.link = "none"]
        BY <1>1, <2>1 DEF Typing, Connection, WorkerShape
      <4> QED BY <4>1, <4>2
    <3> QED BY <1>3, <3>1, <3>2 DEF Dial
  <2>3. /\ worker'[w].pc = pc /\ worker'[w].number = worker[w].number
        /\ worker'[w] \in Process /\ worker[w].number = None
        /\ conn'[w].link = link /\ conn'[w].req = conn[w].req /\ conn'[w].resp = conn[w].resp
        /\ conn'[w] \in Connection /\ conn[w].link = "none" /\ conn[w].req = None
        /\ thread[w].pc = "none" /\ conn[w].resp = None
    BY <1>1, <2>1, <2>2 DEF Typing, Connection, Process, WorkerShape, ThreadShape
  <2>4. Fits(w)
    BY <1>1, <2>1, <2>2, <2>3, AtConnection
    DEF Fits, OneConnection, Typing, ThreadShape, WorkerShape, Served, Serving, Requested
  <2>5. Owned(w)' = Owned(w) /\ Keeps(w) /\ Served(w)' = Served(w)
    BY <2>1, <2>3 DEF Owned, Carried, Requested, Keeps, Served
  <2> QED BY <2>1, <2>4, <2>5 DEF Sound
<1> QED BY <1>2, <1>3

\* A worker process dies.
LEMMA CrashSound ==
    ASSUME Typed, NEW w \in Workers, WorkerDies(w)
    PROVE  Sound(w) /\ UNCHANGED <<rows, counter, acked>> /\ failed' = failed \cup {w}
<1> DEFINE s == NoTrial([worker[w] EXCEPT !.pc = "exit"])
<1>1. /\ Become(w, s) /\ Disconnect(w) /\ worker[w].pc \notin {"new", "exit"}
      /\ UNCHANGED <<rows, meta, up, boots, direction, counter, thread, acked>>
      /\ failed' = failed \cup {w}
  BY DEF WorkerDies, WorkerCrash, Leave
<1>2. s \in Process /\ s.pc = "exit" /\ s.number = None
  <2>1. worker[w] \in Process /\ 0 \in 0 .. MaxCalls
    BY TypedParts, WorkerAssumption DEF Typing
  <2> QED BY <2>1 DEF NoTrial, Process
<1> QED BY <1>1, <1>2, OwnStepSound

-----------------------------------------------------------------------------
(* Every step is one of four kinds.                                         *)

\* A step at connection w that takes no new trial number.
Local(w) ==
    /\ Sound(w) /\ Stores(w) /\ UNCHANGED counter
    /\ failed' \in SUBSET Workers /\ acked' \in SUBSET TrialType(Names, Steps, Floats)

\* new_trial draws one.
Draw(w) ==
    /\ Fits(w) /\ Keeps(w) /\ Served(w)
    /\ Admitted(w) /\ conn[w].req # None /\ conn[w].req.op = "NewTrial"
    /\ Owned(w)' \subseteq Owned(w) \cup {counter}
    /\ counter' = counter + 1 /\ UNCHANGED <<rows, failed, acked>>

\* A step at a connection is local to it, or draws a number for it.
LEMMA MoveCases ==
    ASSUME Typed, NEW w \in Workers,
           \/ ThreadStep(w) /\ UNCHANGED <<worker, acked>>
           \/ WorkerStep(w) /\ UNCHANGED <<coordVars, acked>>
           \/ Dial(w) \/ Finished(w) \/ NetBreak(w) \/ WorkerDies(w)
    PROVE  Local(w) \/ Draw(w)
<1>1. failed \in SUBSET Workers /\ acked \in SUBSET TrialType(Names, Steps, Floats)
  BY DEF Typed, TypeOK, CoordTypeOK
<1>2. CASE ThreadStep(w) /\ UNCHANGED <<worker, acked>>
  BY <1>1, <1>2, RespondSound, QuietThreadSound, SaveSound, DrawSound
  DEF ThreadStep, Local, Draw
<1>3. CASE WorkerStep(w) /\ UNCHANGED <<coordVars, acked>>
  BY <1>1, <1>3, WorkerStepSound DEF coordVars, Local, Stores
<1>4. CASE Finished(w)
  <2>1. worker[w].view \in TrialType(Names, Steps, Floats)
    BY <1>4, TypedParts DEF Finished, RecvFinished, Receiving, WorkerShape, Numbered
  <2> QED BY <1>1, <1>4, <2>1, WorkerStepSound DEF Finished, coordVars, Local, Stores
<1>5. CASE Dial(w) \/ NetBreak(w)
  BY <1>1, <1>5, LinkSound DEF Local, Stores
<1>6. CASE WorkerDies(w)
  BY <1>1, <1>6, CrashSound DEF Local, Stores
<1> QED BY <1>2, <1>3, <1>4, <1>5, <1>6

\* Every step is local to one connection, draws a number for one, concerns the
\* coordinator process alone, or changes nothing.
LEMMA StepCases ==
    ASSUME Typed, Next
    PROVE  \/ \E w \in Workers : Local(w) \/ Draw(w)
           \/ CoordStep /\ UNCHANGED <<worker, acked>>
           \/ UNCHANGED vars
BY MoveCases DEF Next, Idle

-----------------------------------------------------------------------------
(* Types and shapes.                                                        *)

\* A step at w leaves every other connection as it was.
LEMMA Untouched ==
    ASSUME Typed, NEW w \in Workers, NEW v \in Workers, v # w, OneConnection(w)
    PROVE  /\ conn'[v] = conn[v] /\ thread'[v] = thread[v] /\ worker'[v] = worker[v]
           /\ Owned(v)' = Owned(v) /\ Served(v)' = Served(v)
           /\ Typing(v)' /\ ThreadShape(v)' /\ WorkerShape(v)'
<1>1. /\ conn'[v] = conn[v] /\ thread'[v] = thread[v] /\ worker'[v] = worker[v]
      /\ up' = up
  BY DEF OneConnection, SetConn, Continue, Become, Typed, TypeOK, ConnTypeOK,
         CoordTypeOK, WorkerTypeOK
<1>2. Owned(v)' = Owned(v) /\ Served(v)' = Served(v) /\ Requested(v)' = Requested(v)
  BY <1>1 DEF Owned, Carried, Requested, Served
<1>3. Typing(v) /\ ThreadShape(v) /\ WorkerShape(v)
  BY TypedParts
<1> QED BY <1>1, <1>2, <1>3 DEF Typing, ThreadShape, WorkerShape

\* A step that fits at one connection and saves at most one well-typed trial keeps
\* every type and every shape.
LEMMA FitsTyped ==
    ASSUME Typed, NEW w \in Workers, Fits(w), counter' \in Nat,
           rows' = rows \/ \E t \in TrialRows : SaveTrial(t),
           failed' \in SUBSET Workers, acked' \in SUBSET TrialType(Names, Steps, Floats)
    PROVE  Typed'
<1>1. \A v \in Workers : Typing(v)' /\ ThreadShape(v)' /\ WorkerShape(v)'
  BY Untouched DEF Fits
<1>2. /\ DOMAIN conn' = Workers /\ DOMAIN thread' = Workers /\ DOMAIN worker' = Workers
      /\ conn' = [v \in Workers |-> conn'[v]] /\ thread' = [v \in Workers |-> thread'[v]]
      /\ worker' = [v \in Workers |-> worker'[v]]
  BY DEF Fits, OneConnection, SetConn, Continue, Become, Typed, TypeOK, ConnTypeOK,
         CoordTypeOK, WorkerTypeOK
<1>3. ConnTypeOK' /\ WorkerTypeOK' /\ thread' \in [Workers -> Thread]
  BY <1>1, <1>2 DEF ConnTypeOK, WorkerTypeOK, Typing
<1>4. /\ DOMAIN rows' \subseteq Nat /\ IsFiniteSet(DOMAIN rows')
      /\ \A n \in DOMAIN rows' : rows'[n] \in TrialRows /\ rows'[n].number = n
  BY SaveTrialType DEF Typed, TypeOK, CoordTypeOK
<1>5. CoordTypeOK'
  BY <1>3, <1>4 DEF CoordTypeOK, Typed, TypeOK, Fits, OneConnection
<1> QED BY <1>1, <1>3, <1>5 DEF Typed, TypeOK, Shape

\* Starting or losing the coordinator process: no connection is served after.
LEMMA CoordStepTyped ==
    ASSUME Typed, CoordStep, UNCHANGED <<worker, acked>>
    PROVE  Typed' /\ \A w \in Workers : ~Served(w)'
<1>1. \A w \in Workers : Typing(w) /\ ThreadShape(w) /\ WorkerShape(w)
  BY TypedParts
<1>2. CASE \E d \in Directions : Boot(d) \/ BootFails(d)
  <2>1. /\ UNCHANGED <<rows, thread, conn, failed, worker, acked>> /\ ~up
        /\ boots' = boots + 1 /\ up' \in BOOLEAN
        /\ direction' \in Directions \cup {None} /\ meta' \in Directions \cup {None}
        /\ counter' \in {counter, Cardinality(DOMAIN rows)}
    BY <1>2 DEF Boot, BootFails, Adopted, SaveMeta, CountTrials, Typed, TypeOK, CoordTypeOK
  <2>2. CoordTypeOK'
    BY <2>1, FS_CardinalityType DEF CoordTypeOK, Typed, TypeOK
  <2>3. \A w \in Workers : ~Served(w)'
    BY <1>1, <2>1 DEF ThreadShape, Served
  <2>4. Shape'
    <3>1. ASSUME NEW w \in Workers PROVE ThreadShape(w)' /\ WorkerShape(w)'
      <4>1. /\ conn'[w] = conn[w] /\ thread'[w] = thread[w] /\ worker'[w] = worker[w]
            /\ Requested(w)' = Requested(w)
        BY <2>1 DEF Requested
      <4> QED BY <1>1, <2>3, <4>1 DEF ThreadShape, WorkerShape
    <3> QED BY <3>1 DEF Shape
  <2> QED BY <2>1, <2>2, <2>3, <2>4 DEF Typed, TypeOK, ConnTypeOK, WorkerTypeOK
<1>3. CASE Crash
  <2>1. \A w \in Workers :
           /\ thread'[w] = IF conn[w].link = "none" THEN thread[w] ELSE Gone
           /\ conn'[w] = IF conn[w].link = "none" THEN conn[w]
                         ELSE [conn[w] EXCEPT !.link = "down", !.req = None]
           /\ worker'[w] = worker[w]
    BY <1>3 DEF Crash
  <2>2. Gone \in Thread /\ Gone.pc = "gone" /\ Gone.number = None
    BY DEF Gone, NoThread, Thread, Serving
  <2>3. ASSUME NEW w \in Workers
        PROVE  Typing(w)' /\ ~Served(w)' /\ ThreadShape(w)' /\ WorkerShape(w)'
    <3>1. CASE conn[w].link = "none"
      <4>1. /\ conn'[w] = conn[w] /\ thread'[w] = thread[w] /\ worker'[w] = worker[w]
            /\ Requested(w)' = Requested(w) /\ thread[w].pc = "none"
        BY <1>1, <2>1, <3>1 DEF Requested, ThreadShape
      <4>2. ~Served(w)'
        BY <4>1 DEF Served, Serving
      <4> QED BY <1>1, <4>1, <4>2 DEF Typing, ThreadShape, WorkerShape
    <3>2. CASE conn[w].link # "none"
      <4>1. conn'[w].link = "down" /\ conn'[w].req = None /\ conn'[w].resp = conn[w].resp
            /\ conn'[w] \in Connection
        BY <1>1, <2>1, <3>2 DEF Typing, Connection
      <4>2. thread'[w] = Gone /\ worker'[w] = worker[w]
        BY <2>1, <3>2
      <4>3. Typing(w)' /\ ~Served(w)'
        BY <1>1, <2>2, <4>1, <4>2 DEF Typing, Served, Serving
      <4>4. ThreadShape(w)'
        BY <2>2, <4>1, <4>2, <4>3 DEF ThreadShape
      <4>5. WorkerShape(w)'
        BY <1>1, <3>2, <4>1, <4>2 DEF WorkerShape
      <4> QED BY <4>3, <4>4, <4>5
    <3> QED BY <3>1, <3>2
  <2>4. ConnTypeOK' /\ WorkerTypeOK' /\ thread' \in [Workers -> Thread]
    BY <1>3, <2>3 DEF Crash, ConnTypeOK, WorkerTypeOK, Typing, Typed, TypeOK
  <2>5. /\ DOMAIN rows' \subseteq Nat /\ IsFiniteSet(DOMAIN rows')
        /\ \A n \in DOMAIN rows' : rows'[n] \in TrialRows /\ rows'[n].number = n
    <3>1. CASE Backend = "memory"
      <4>1. rows' = <<>>
        BY <1>3, <3>1 DEF Crash
      <4>2. DOMAIN rows' = {}
        BY <4>1
      <4> QED BY <4>2, FS_EmptySet
    <3>2. CASE Backend # "memory"
      BY <1>3, <3>2 DEF Crash, Typed, TypeOK, CoordTypeOK
    <3> QED BY <3>1, <3>2
  <2>6. CoordTypeOK'
    BY <1>3, <2>4, <2>5 DEF Crash, CoordTypeOK, Typed, TypeOK
  <2> QED BY <1>3, <2>3, <2>4, <2>6 DEF Typed, TypeOK, Shape
<1> QED BY <1>2, <1>3 DEF CoordStep

\* Initially types and shapes hold, and no connection is served.
LEMMA TypedInit == Init => Typed /\ \A w \in Workers : ~Served(w)
<1> SUFFICES ASSUME Init PROVE Typed /\ \A w \in Workers : ~Served(w)
  OBVIOUS
<1>1. ConnTypeOK
  BY DEF Init, ConnInit, ConnTypeOK, Connection
<1>2. WorkerTypeOK
  <2>1. 0 \in 0 .. MaxCalls /\ \A w \in Workers : NTrials[w] \in Nat
    BY WorkerAssumption
  <2> QED BY <2>1 DEF Init, WorkerInit, WorkerTypeOK, Process
<1>3. CoordTypeOK
  <2>1. /\ rows \in Earlier /\ meta \in Directions \cup {None}
        /\ up = FALSE /\ boots = 0 /\ counter = 0 /\ direction = None /\ failed = {}
        /\ thread = [w \in Workers |-> NoThread]
    <3>1. CoordInit
      BY DEF Init
    <3> QED BY <3>1 DEF CoordInit
  <2>2. NoThread \in Thread
    BY DEF NoThread, Thread
  <2> QED BY <2>1, <2>2, EarlierAssumption DEF CoordTypeOK
<1>4. \A w \in Workers : ThreadShape(w) /\ WorkerShape(w) /\ ~Served(w)
  BY DEF Init, ConnInit, CoordInit, WorkerInit, ThreadShape, WorkerShape, Served, Serving,
         Requested, NoThread
<1> QED BY <1>1, <1>2, <1>3, <1>4 DEF Init, Typed, TypeOK, Shape

\* Every step keeps the types and the shapes.
LEMMA TypedStep == Typed /\ [Next]_vars => Typed'
<1> SUFFICES ASSUME Typed, [Next]_vars PROVE Typed'
  OBVIOUS
<1>1. ASSUME NEW w \in Workers, Local(w) PROVE Typed'
  BY <1>1, FitsTyped DEF Local, Sound, Stores, Typed, TypeOK, CoordTypeOK
<1>2. ASSUME NEW w \in Workers, Draw(w) PROVE Typed'
  BY <1>2, FitsTyped DEF Draw, Typed, TypeOK, CoordTypeOK
<1>3. CASE UNCHANGED vars
  <2>1. TypeOK'
    BY <1>3 DEF vars, Typed, TypeOK, ConnTypeOK, CoordTypeOK, WorkerTypeOK
  <2>2. ASSUME NEW w \in Workers PROVE ThreadShape(w)' /\ WorkerShape(w)'
    <3>1. ThreadShape(w)'
      BY <1>3, TypedParts DEF vars, ThreadShape, Requested, Served
    <3>2. WorkerShape(w)'
      BY <1>3, TypedParts DEF vars, WorkerShape
    <3> QED BY <3>1, <3>2
  <2> QED BY <2>1, <2>2 DEF Typed, Shape
<1> QED BY <1>1, <1>2, <1>3, StepCases, CoordStepTyped

\* Every variable keeps its type, and every part of a connection, of the thread
\* that serves it and of the worker at its other end agrees with the others.
THEOREM TypeCorrect == Spec => []TypeOK
<1>1. Typed => TypeOK
  BY DEF Typed
<1>2. Init => Typed
  BY TypedInit
<1> QED BY <1>1, <1>2, TypedStep, PTL DEF Spec

-----------------------------------------------------------------------------
(* Who owns which trial.  Every number in use is below the counter and in   *)
(* use at one connection, so the next number drawn is new to all of them.   *)

Unshared == Typed /\ OwnedBound /\ SingleOwner

\* What a connection works on are trial numbers.
LEMMA OwnedNat ==
    ASSUME Typed, NEW w \in Workers
    PROVE  Owned(w) \subseteq Nat
<1>1. Carried(w) \subseteq Nat
  BY TypedParts, ResponseFields DEF Carried
<1>2. Requested(w) \subseteq Nat
  BY TypedParts, RequestFields DEF Requested, Numbered, BadLine
<1> QED BY <1>1, <1>2, TypedParts DEF Owned

\* Every step keeps the numbers in use below the counter and apart.
LEMMA UnsharedStep == Unshared /\ [Next]_vars => Unshared'
<1> SUFFICES ASSUME Unshared, [Next]_vars PROVE OwnedBound' /\ SingleOwner'
  BY TypedStep DEF Unshared
<1>1. Typed /\ OwnedBound /\ SingleOwner /\ counter \in Nat
  BY DEF Unshared, Typed, TypeOK, CoordTypeOK
<1>2. ASSUME NEW w \in Workers, Fits(w), counter' >= counter, counter' \in Nat,
             Served(w)' => \A n \in Owned(w)' :
                 n < counter' /\ \A v \in Workers \ {w} : Served(v) => n \notin Owned(v)
      PROVE  OwnedBound' /\ SingleOwner'
  <2>1. \A v \in Workers \ {w} : Owned(v)' = Owned(v) /\ Served(v)' = Served(v)
    BY <1>1, <1>2, Untouched DEF Fits
  <2>2. \A v \in Workers : Owned(v) \subseteq Nat
    BY <1>1, TypedParts, OwnedNat
  <2>3. OwnedBound'
    <3>1. SUFFICES ASSUME NEW v \in Workers, Served(v)', NEW n \in Owned(v)' PROVE n < counter'
      BY DEF OwnedBound
    <3>2. CASE v = w
      BY <1>2, <3>1, <3>2
    <3>3. CASE v # w
      <4>1. n < counter /\ n \in Nat
        BY <1>1, <2>1, <2>2, <3>1, <3>3 DEF OwnedBound
      <4> QED BY <1>1, <1>2, <4>1
    <3> QED BY <3>2, <3>3
  <2>4. SingleOwner'
    <3>1. SUFFICES ASSUME NEW u \in Workers, NEW v \in Workers, u # v, Served(u)', Served(v)',
                          NEW n \in Owned(u)', n \in Owned(v)'
                   PROVE  FALSE
      BY DEF SingleOwner
    <3>2. CASE u = w
      BY <1>2, <2>1, <3>1, <3>2
    <3>3. CASE v = w
      BY <1>2, <2>1, <3>1, <3>3
    <3>4. CASE u # w /\ v # w
      BY <1>1, <2>1, <3>1, <3>4 DEF SingleOwner
    <3> QED BY <3>2, <3>3, <3>4
  <2> QED BY <2>3, <2>4
<1>3. ASSUME NEW w \in Workers, Local(w) PROVE OwnedBound' /\ SingleOwner'
  <2>1. Fits(w) /\ counter' = counter
    BY <1>3 DEF Local, Sound
  <2>2. ASSUME Served(w)', NEW n \in Owned(w)'
        PROVE  n < counter' /\ \A v \in Workers \ {w} : Served(v) => n \notin Owned(v)
    <3>1. Served(w) /\ n \in Owned(w)
      BY <1>3, <2>2 DEF Local, Sound
    <3> QED BY <1>1, <2>1, <3>1 DEF OwnedBound, SingleOwner
  <2> QED BY <1>1, <1>2, <2>1, <2>2
<1>4. ASSUME NEW w \in Workers, Draw(w) PROVE OwnedBound' /\ SingleOwner'
  <2>1. Fits(w) /\ counter' = counter + 1 /\ Served(w)
    BY <1>4 DEF Draw
  <2>2. ASSUME NEW n \in Owned(w)'
        PROVE  n < counter' /\ \A v \in Workers \ {w} : Served(v) => n \notin Owned(v)
    <3>1. CASE n = counter
      BY <1>1, <2>1, <3>1 DEF OwnedBound
    <3>2. CASE n # counter
      <4>1. n \in Owned(w) /\ n < counter
        BY <1>1, <1>4, <2>1, <2>2, <3>2 DEF Draw, OwnedBound
      <4>2. n \in Nat
        BY <1>1, <4>1, OwnedNat
      <4> QED BY <1>1, <2>1, <4>1, <4>2 DEF SingleOwner
    <3> QED BY <3>1, <3>2
  <2> QED BY <1>1, <1>2, <2>1, <2>2
<1>5. CASE CoordStep /\ UNCHANGED <<worker, acked>>
  BY <1>1, <1>5, CoordStepTyped DEF OwnedBound, SingleOwner
<1>6. CASE UNCHANGED vars
  <2>1. \A w \in Workers : Owned(w)' = Owned(w) /\ Served(w)' = Served(w)
    BY <1>6 DEF vars, Owned, Carried, Requested, Served
  <2> QED BY <1>1, <1>6, <2>1 DEF vars, OwnedBound, SingleOwner
<1> QED BY <1>1, <1>3, <1>4, <1>5, <1>6, StepCases

\* Initially no connection works on anything.
LEMMA UnsharedInit == Init => Unshared
BY TypedInit DEF Unshared, OwnedBound, SingleOwner

\* No two connections the coordinator serves ever work on the same trial,
\* however many workers there are and whatever breaks (coordinator.rs:207-211).
THEOREM OneOwner == Spec => []SingleOwner
<1>1. Unshared => SingleOwner
  BY DEF Unshared
<1> QED BY <1>1, UnsharedInit, UnsharedStep, PTL DEF Spec

-----------------------------------------------------------------------------
(* No lost update.                                                          *)

\* Every step leaves what a handler has loaded equal to what is stored: a save is
\* made for a number its own connection works on, and no other connection does.
LEMMA CurrentStep == Unshared /\ ReadIsCurrent /\ [Next]_vars => ReadIsCurrent'
<1> SUFFICES ASSUME Unshared, ReadIsCurrent, [Next]_vars,
                    NEW v \in Workers, thread'[v].pc = "save"
             PROVE  thread'[v].current = Current(conn[v].req.number)'
  BY DEF ReadIsCurrent
<1>1. Typed /\ SingleOwner
  BY DEF Unshared
<1>2. thread[v].pc = "save" => conn[v].req.number \in Owned(v) /\ Served(v)
  BY <1>1, TypedParts DEF ThreadShape, Owned, Requested, Numbered, Served, Serving
\* A step at another connection saves another trial.
<1>3. ASSUME NEW w \in Workers, w # v, Fits(w), Stores(w)
      PROVE  thread'[v].current = Current(conn[v].req.number)'
  <2>1. conn'[v] = conn[v] /\ thread'[v] = thread[v]
    BY <1>1, <1>3, Untouched DEF Fits
  <2>2. thread[v].current = Current(conn[v].req.number)
    BY <2>1 DEF ReadIsCurrent
  <2>3. conn[v].req.number \in Owned(v) /\ Served(v)
    BY <1>2, <2>1
  <2>4. CASE UNCHANGED rows
    BY <2>1, <2>2, <2>4 DEF Current
  <2>5. ASSUME NEW t \in TrialRows, t.number \in Owned(w), Served(w), SaveTrial(t)
        PROVE  thread'[v].current = Current(conn[v].req.number)'
    <3>1. t.number # conn[v].req.number
      BY <1>1, <1>3, <2>3, <2>5 DEF SingleOwner
    <3>2. rows' = [n \in DOMAIN rows \cup {t.number} |-> IF n = t.number THEN t ELSE rows[n]]
      BY <1>1, <2>5, SaveTrialType DEF Typed, TypeOK
    <3>3. Current(conn[v].req.number)' = Current(conn[v].req.number)
      BY <2>1, <3>1, <3>2 DEF Current
    <3> QED BY <2>1, <2>2, <3>3
  <2> QED BY <1>3, <2>4, <2>5 DEF Stores
<1>4. ASSUME Keeps(v)
      PROVE  thread'[v].current = Current(conn[v].req.number)'
  <2>1. /\ rows' = rows /\ conn'[v].req = conn[v].req
        /\ \/ thread[v].pc = "save" /\ thread'[v].current = thread[v].current
           \/ thread'[v].current = Current(conn[v].req.number)
    BY <1>4 DEF Keeps
  <2>2. Current(conn[v].req.number)' = Current(conn[v].req.number)
    BY <2>1 DEF Current
  <2> QED BY <2>1, <2>2 DEF ReadIsCurrent
<1>5. ASSUME NEW w \in Workers, Local(w) \/ Draw(w)
      PROVE  thread'[v].current = Current(conn[v].req.number)'
  <2>1. Fits(w) /\ Stores(w) /\ Keeps(w)
    BY <1>5 DEF Local, Draw, Sound, Stores
  <2> QED BY <1>3, <1>4, <2>1
<1>6. CASE CoordStep /\ UNCHANGED <<worker, acked>>
  BY <1>1, <1>6, CoordStepTyped DEF Served, Serving
<1>7. CASE UNCHANGED vars
  BY <1>7 DEF vars, ReadIsCurrent, Current
<1> QED BY <1>1, <1>5, <1>6, <1>7, StepCases

\* When a handler saves, the trial it has loaded is still the stored one: no
\* update of suggest, report or finish is ever lost (coordinator.rs:213-264).
THEOREM NoLostUpdate == Spec => []ReadIsCurrent
<1>1. Init => Unshared /\ ReadIsCurrent
  BY UnsharedInit DEF Init, CoordInit, NoThread, ReadIsCurrent
<1>2. Unshared /\ ReadIsCurrent /\ [Next]_vars => (Unshared /\ ReadIsCurrent)'
  BY UnsharedStep, CurrentStep
<1> QED BY <1>1, <1>2, PTL DEF Spec

-----------------------------------------------------------------------------
(* Numbering.  What a coordinator saves it has drawn a number for, and a     *)
(* start over a history without gaps draws past all of it.                  *)

\* As long as the process lives, a save is made for a number below the counter.
LEMMA StaysSeeded ==
    ASSUME Unshared, SeededPast, up, up', [Next]_vars
    PROVE  SeededPast'
<1>1. Typed /\ counter \in Nat /\ DOMAIN rows \subseteq Nat
  BY DEF Unshared, Typed, TypeOK, CoordTypeOK
<1>2. ASSUME NEW w \in Workers, Fits(w), Stores(w), counter' \in {counter, counter + 1}
      PROVE  SeededPast'
  <2>1. CASE UNCHANGED rows
    BY <1>1, <1>2, <2>1 DEF SeededPast
  <2>2. ASSUME NEW t \in TrialRows, t.number \in Owned(w), Served(w), SaveTrial(t)
        PROVE  SeededPast'
    <3>1. t.number < counter /\ t.number \in Nat
      BY <1>1, <2>2, OwnedNat, TypedParts DEF Unshared, OwnedBound
    <3>2. DOMAIN rows' = DOMAIN rows \cup {t.number}
      BY <2>2 DEF SaveTrial
    <3> QED BY <1>1, <1>2, <3>1, <3>2 DEF SeededPast
  <2> QED BY <1>2, <2>1, <2>2 DEF Stores
<1>3. ASSUME NEW w \in Workers, Local(w) \/ Draw(w)
      PROVE  SeededPast'
  <2>1. Fits(w) /\ Stores(w) /\ counter' \in {counter, counter + 1}
    BY <1>3 DEF Local, Draw, Sound, Stores
  <2> QED BY <1>2, <2>1
<1>4. ~CoordStep
  BY DEF CoordStep, Boot, BootFails, Crash
<1>5. CASE UNCHANGED vars
  BY <1>5 DEF vars, SeededPast
<1> QED BY <1>1, <1>3, <1>4, <1>5, StepCases

\* Before it lives nothing is saved, and if the history has no gap its length is
\* past its last number.
LEMMA StartsSeeded ==
    ASSUME Unshared, Gapless(rows), ~up, [Next]_vars
    PROVE  SeededPast' /\ Gapless(rows)'
<1>1. Typed /\ IsFiniteSet(DOMAIN rows)
  BY DEF Unshared, Typed, TypeOK, CoordTypeOK
<1>2. ASSUME NEW w \in Workers, Local(w) \/ Draw(w)
      PROVE  up' = up /\ rows' = rows
  <2>1. Fits(w) /\ Stores(w)
    BY <1>2 DEF Local, Draw, Sound, Stores
  <2>2. ~Served(w)
    BY <1>1, TypedParts DEF ThreadShape
  <2> QED BY <2>1, <2>2 DEF Fits, OneConnection, Stores
<1>3. CASE CoordStep /\ UNCHANGED <<worker, acked>>
  <2>1. rows' = rows /\ (up' => counter' = Cardinality(DOMAIN rows))
    <3>1. CASE \E d \in Directions : Boot(d)
      BY <3>1 DEF Boot, CountTrials
    <3>2. CASE \E d \in Directions : BootFails(d)
      BY <3>2 DEF BootFails
    <3>3. ~Crash
      BY Zenon DEF Crash
    <3> QED BY <1>3, <3>1, <3>2, <3>3 DEF CoordStep
  <2>2. Cardinality(DOMAIN rows) \in Nat
    BY <1>1, FS_CardinalityType
  <2> QED BY <2>1, <2>2 DEF SeededPast, Gapless
<1>4. CASE UNCHANGED vars
  BY <1>4 DEF vars, SeededPast, Gapless
<1>5. CASE up' = up /\ rows' = rows
  BY <1>5 DEF SeededPast, Gapless
<1> QED BY <1>1, <1>2, <1>3, <1>4, <1>5, StepCases

\* A coordinator that is never restarted stays past a history it found without gaps.
LEMMA SeededStep ==
    ASSUME "coordinator" \notin Faults, Unshared, SeededPast, up \/ Gapless(rows), [Next]_vars
    PROVE  SeededPast' /\ (up \/ Gapless(rows))'
<1>1. CASE up
  <2>1. up'
    <3>1. Typed
      BY DEF Unshared
    <3>2. ASSUME NEW w \in Workers, Local(w) \/ Draw(w) PROVE up' = up
      BY <3>2 DEF Local, Draw, Sound, Fits, OneConnection
    <3>3. CASE CoordStep
      BY <1>1, <3>3 DEF CoordStep, Boot, BootFails, Crash
    <3>4. CASE UNCHANGED vars
      BY <1>1, <3>4 DEF vars
    <3> QED BY <1>1, <3>1, <3>2, <3>3, <3>4, StepCases
  <2> QED BY <1>1, <2>1, StaysSeeded
<1>2. CASE ~up
  BY <1>2, StartsSeeded
<1> QED BY <1>1, <1>2

\* A coordinator started over a history without gaps hands out no number of it, and
\* while it lives none twice: whatever is recorded is below the next number, however
\* often coordinators have died before, whatever the earlier ones left and whatever
\* fails (coordinator.rs:67, 207-211).
THEOREM NumbersAhead == Spec => ResumesPast
<1>1. Unshared /\ [Next]_vars =>
          [up' /\ (IF up THEN SeededPast ELSE Gapless(rows)) => SeededPast']_vars
  <2> SUFFICES ASSUME Unshared, [Next]_vars, up', IF up THEN SeededPast ELSE Gapless(rows)
               PROVE  SeededPast'
    OBVIOUS
  <2>1. CASE up
    BY <2>1, StaysSeeded
  <2>2. CASE ~up
    BY <2>2, StartsSeeded
  <2> QED BY <2>1, <2>2
<1>2. Init => Unshared
  BY UnsharedInit
<1>3. Unshared /\ [Next]_vars => Unshared'
  BY UnsharedStep
<1> QED BY <1>1, <1>2, <1>3, PTL DEF Spec, ResumesPast

=============================================================================
