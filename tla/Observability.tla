---------------------------- MODULE Observability ----------------------------
(***************************************************************************)
(* The observability server of src/observability/mod.rs, as one of its     *)
(* connections sees it: each has a thread of its own, which reads once,    *)
(* answers and closes.  The threads share nothing but the telemetry        *)
(* handle, which they only read.                                           *)
(***************************************************************************)
EXTENDS Bearer, TelemetryWorker

CONSTANT Asks   \* requests: method, route, header

Methods == {"GET", "other"}
Routes == {"page", "health", "metrics", "other"}

ASSUME AskConstants ==
  Asks \subseteq [method : Methods, route : Routes, header : {ask.header : ask \in Asks}]

VARIABLE request   \* the one under way: what was sent, what of it was read, the answer

Nothing == [method |-> "none", route |-> "none", header |-> NoSecret]
NoPage == [cycles |-> 0, errors |-> 0, latest |-> NoSnapshot]

Request(phase, ask) ==
  [phase |-> phase, sent |-> ask, route |-> "none", status |-> 0, page |-> NoPage]

RequestTypeOK ==
  request \in
    [phase : {"none", "sent", "counters", "done"}, sent : Asks \cup {Nothing},
     route : Routes \cup {"none"}, status : {0, 200, 401, 404, 405},
     page : [cycles : 0 .. MaxCycles, errors : 0 .. MaxCycles,
             latest : Snapshot \cup {NoSnapshot}]]

RequestInit == request = Request("none", Nothing)

(* A connection; the one before it has been answered. *)
Ask(ask) ==
  /\ config.http /\ request.phase \in {"none", "done"}
  /\ request' = Request("sent", ask)

(* One read of at most 4096 bytes may end before the header does or in the  *)
(* middle of its value, which then is worth no more than none, in the       *)
(* middle of the path, or in that of the method; of nothing at all the code *)
(* makes a GET of "/".                                                      *)
FirstRead(ask) ==
  {ask, [ask EXCEPT !.header = NoSecret]}
    \cup [method : Methods, route : Routes \ {"metrics"}, header : {NoSecret}]

(* 0: the check panics, and its thread closes the connection unanswered. *)
Status(ask) ==
  IF ask.method # "GET" THEN 405
  ELSE IF ask.route # "health" /\ Panics(ask.header) THEN 0
  ELSE IF ask.route # "health" /\ ~Authorized(ask.header) THEN 401
  ELSE IF ask.route = "other" THEN 404 ELSE 200

(* handle; what needs no counters is answered at once, from the store or a  *)
(* constant.                                                               *)
Answer ==
  /\ request.phase = "sent"
  /\ \E ask \in FirstRead(request.sent) :
       /\ Status(ask) = 200 => ask.route \notin {"health", "metrics"}
       /\ request' = [request EXCEPT !.phase = "done", !.route = ask.route, !.status = Status(ask)]

(* stats_snapshot: the counters, under the lock. *)
Counters(page) == [page EXCEPT !.cycles = shared.seq, !.errors = shared.errors]

Health ==
  /\ request.phase = "sent"
  /\ \E ask \in FirstRead(request.sent) :
       /\ Status(ask) = 200 /\ ask.route = "health"
       /\ request' = [request EXCEPT !.phase = "done", !.route = ask.route, !.status = 200,
                                     !.page = Counters(@)]

(* prometheus: the counters, and under the lock once more the snapshot. *)
Metrics_Counters ==
  /\ request.phase = "sent"
  /\ \E ask \in FirstRead(request.sent) :
       /\ Status(ask) = 200 /\ ask.route = "metrics"
       /\ request' = [request EXCEPT !.phase = "counters", !.route = ask.route, !.page = Counters(@)]

(* Mutant: one of the counters is read with the snapshot. *)
Metrics_Latest_Recounts ==
  /\ request.phase = "counters"
  /\ request' = [request EXCEPT !.phase = "done", !.status = 200,
       !.page = [@ EXCEPT !.latest = shared.latest, !.errors = shared.errors]]

Metrics_Latest ==
  /\ request.phase = "counters"
  /\ request' = [request EXCEPT !.phase = "done", !.status = 200,
                                !.page = [@ EXCEPT !.latest = shared.latest]]

Requests ==
  \/ \E ask \in Asks : Ask(ask)
  \/ Answer \/ Health \/ Metrics_Counters \/ Metrics_Latest

=============================================================================
