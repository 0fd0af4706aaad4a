------------------------------ MODULE Protocol ------------------------------
(***************************************************************************)
(* The wire between workers and the coordinator (hyperopt-distributed:     *)
(* protocol.rs and the framing of worker.rs, coordinator.rs).              *)
(*                                                                         *)
(* A worker process holds one connection for its whole life and Conn::call *)
(* writes one request line, then reads one response line: at most one of   *)
(* the two is under way, so a connection is two one-slot channels.         *)
(***************************************************************************)
EXTENDS Trials

CONSTANTS Workers,      \* worker processes
          Names,        \* parameter names
          Dists,        \* distributions, each the set of values it contains
          Steps,        \* steps an objective reports at
          Vals,         \* floats an objective reports and returns
          Studies,      \* study names
          Tokens        \* shared secrets

ASSUME ProtocolAssumption ==
    /\ Steps \subseteq Nat
    /\ Vals \subseteq Floats
    /\ Dists \subseteq (SUBSET Int) \ {{}}
    /\ None \notin Studies \cup Tokens

VARIABLE conn   \* conn[w]: the connection of worker w

(* Requests.  Every one but Auth names the study; serde_json writes a NaN   *)
(* as null, which no float field accepts, so such a line reaches the other  *)
(* side as something that is not a request.                                 *)
Request(Values) ==
    [op : {"Auth"}, token : Tokens]
      \cup [op : {"NewTrial", "BestValue"}, study : Studies]
      \cup [op : {"ShouldPrune"}, study : Studies, number : Nat]
      \cup [op : {"Suggest"}, study : Studies, number : Nat, name : Names, dist : Dists]
      \cup [op : {"Report"}, study : Studies, number : Nat, step : Steps, value : Values]
      \cup [op : {"Finish"}, study : Studies, number : Nat, outcome : Outcome(Values)]

BadLine == [op |-> "Unreadable"]

Wire(r) ==
    IF \/ r.op = "Report" /\ r.value = NaN
       \/ r.op = "Finish" /\ r.outcome.value = NaN
    THEN BadLine ELSE r

Numbered == {"Suggest", "Report", "ShouldPrune", "Finish"}

(* Responses.  Best(None) is written as null, and so is Best(Some(NaN)).     *)
Response ==
    [kind : {"Ack", "Error"}]
      \cup [kind : {"Trial"}, number : Nat]
      \cup [kind : {"Value"}, value : Int]
      \cup [kind : {"Prune"}, prune : BOOLEAN]
      \cup [kind : {"Best"}, value : Int \cup {None}]

Ack       == [kind |-> "Ack"]
Error     == [kind |-> "Error"]
TrialIs(n) == [kind |-> "Trial", number |-> n]
ValueIs(v) == [kind |-> "Value", value |-> v]
PruneIs(b) == [kind |-> "Prune", prune |-> b]
BestIs(v)  == [kind |-> "Best", value |-> IF v \in Int THEN v ELSE None]

ASSUME NoneIsNoMessage ==
    /\ None \notin Request(Vals) \cup {BadLine} \cup Response
    /\ None \notin TrialType(Names, Steps, Floats)

-----------------------------------------------------------------------------
(* link: "none" before connect, "up", "down" once either side or the        *)
(* network has closed it.  A connection never comes back.                   *)

Connection ==
    [link : {"none", "up", "down"},
     req  : Request(Vals \ {NaN}) \cup {BadLine, None},
     resp : Response \cup {None}]

ConnTypeOK == conn \in [Workers -> Connection]

ConnInit == conn = [w \in Workers |-> [link |-> "none", req |-> None, resp |-> None]]

SetConn(w, c) == conn' = [conn EXCEPT ![w] = c]

Transmit(w, r) == SetConn(w, [conn[w] EXCEPT !.req = Wire(r)])

\* Answering consumes the request; on a closed connection the answer is lost.
Answer(w, r) ==
    SetConn(w, [conn[w] EXCEPT !.req = None,
                             !.resp = IF conn[w].link = "up" THEN r ELSE None])

TakeResponse(w) == SetConn(w, [conn[w] EXCEPT !.resp = None])

Disconnect(w) == SetConn(w, [conn[w] EXCEPT !.link = "down"])

=============================================================================
