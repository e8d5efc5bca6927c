------------------------------ MODULE Endpoints ------------------------------
(***************************************************************************)
(* What leaves the process: the telemetry worker, the loop that takes its  *)
(* ticks and puts each into the event stream (run_headless of src/main.rs; *)
(* drain_telemetry does the same at its end), the stream's clients, and    *)
(* the observability server.                                               *)
(***************************************************************************)
EXTENDS EventStream, Observability, FiniteSets

vars == <<workerVars, shared, seen, streamVars, request, config>>

Init ==
  /\ config \in Configs
  /\ WorkerInit /\ StreamInit /\ RequestInit

others == <<request, config>>
telemetry == <<workerVars, shared, seen>>

(* poll_tick and emit_json; without the stream nothing polls here. *)
Tick ==
  /\ config.stream /\ PollTick
  /\ Emit(shared.latest.n)
  /\ UNCHANGED others

(* The dashboard is closed; the headless loop does not end. *)
Close == config.stream /\ Release /\ UNCHANGED <<telemetry, others>>

Telemetry_Step == Worker /\ UNCHANGED <<streamVars, others>>
Stream_Step == Serve /\ UNCHANGED <<telemetry, others>>
Client_Step == ClientSteps /\ UNCHANGED <<telemetry, others>>
Request_Step == Requests /\ UNCHANGED <<telemetry, streamVars, config>>

Next == Telemetry_Step \/ Tick \/ Close \/ Stream_Step \/ Client_Step \/ Request_Step

Spec == Init /\ [][Next]_vars

(* The server thread runs: recv_timeout returns after 100 ms at the latest. *)
FairSpec == Spec /\ WF_vars(Stream_Step)

-----------------------------------------------------------------------------
(* Properties *)

Secret == IF config.mode = "token" THEN config.token ELSE config.jwt
LetIn(h) == config.mode = "local" \/ (h = Secret /\ h # NoSecret)

(* The numbers of the snapshots grow on their way from the worker through   *)
(* the shared state into the stream, and none is ahead of the store.        *)
Shared ==
  [seq : Nat, latest : [n : Nat, ts : Times, value : Values] \cup {NoSnapshot},
   errors : Nat, error : BOOLEAN, polls : BOOLEAN]

InHand == worker \in {"persist", "publish"}

Numbered ==
  /\ cycles \in Seq(Values \cup {NoSnapshot}) /\ shared \in Shared
  /\ seen \in 0 .. shared.seq /\ stored \in 0 .. Len(cycles)
  /\ InHand => collected \in [n : {Len(cycles)}, ts : Times, value : Values]
  /\ worker = "persist" => stored < Len(cycles)
  /\ worker = "publish" => stored = Len(cycles)
  /\ shared.seq > 0 =>
       /\ shared.latest \in [n : 0 .. stored, ts : Times, value : Values]
       /\ InHand => shared.latest.n < Len(cycles)
  /\ \A i \in DOMAIN emitted :
       /\ shared.seq > 0 /\ emitted[i] <= shared.latest.n
       /\ shared.seq # seen => emitted[i] < shared.latest.n
  /\ \A i, j \in DOMAIN emitted : i < j => emitted[i] < emitted[j]
  /\ \A i \in DOMAIN emitted : emitted[i] <= stored

(* Who waits is in the backlog, once, and has got nothing; who has joined   *)
(* has got no more than was taken since.                                   *)
Connected ==
  /\ \A i \in DOMAIN backlog : conn[backlog[i]] = "waiting"
  /\ \A i, j \in DOMAIN backlog : backlog[i] = backlog[j] => i = j
  /\ \A c \in Clients :
       /\ conn[c] \in {"new", "waiting"} => got[c] = <<>>
       /\ joined[c] + Len(got[c]) <= served
       /\ conn[c] = "admitted" \/ got[c] # <<>> => LetIn(header[c])

(* A client gets every snapshot from its admission on, once, in order and   *)
(* whole, until it is dropped, and while the server runs it is dropped only *)
(* when it hung up or did not read.  A torn frame is the last thing it sees *)
(* (serve, retain_mut).                                                    *)
Delivered(c) ==
  /\ \A i \in DOMAIN got[c] :
       \/ got[c][i] = emitted[joined[c] + i]
       \/ got[c][i] = Torn /\ i = Len(got[c]) /\ conn[c] = "dropped"
  /\ conn[c] = "admitted" => Len(got[c]) = served - joined[c]
  /\ conn[c] = "dropped" /\ server # "gone" => peer[c] # "reads"

(* A client that is not let in has taken the server down. *)
Panicked ==
  /\ server = "gone" /\ config.mode # "local"
  /\ \E c \in Clients : conn[c] = "dropped" /\ header[c] = Halved /\ got[c] = <<>>

(* The server ends with its channel, which is empty then, or by a panic. *)
Ended == server = "gone" => (~held /\ served = Len(emitted)) \/ Panicked

(* What is streamed has been stored, is newer than what was streamed before *)
(* it, and reaches only those whom the configured mode lets in, completely  *)
(* unless the header of another client makes the check panic               *)
(* (extract_bearer), which ends the stream for all of them.                *)
StreamSound ==
  /\ StreamTypeOK /\ Numbered /\ Connected /\ Ended
  /\ \A c \in Clients : Delivered(c)

(* Collections that succeeded, among the first k. *)
Good(k) == Cardinality({i \in 1 .. k : cycles[i] # NoSnapshot})

(* A page of metrics shows the counters of one moment, and a snapshot that  *)
(* is at least as new; and nothing but the health check is answered to      *)
(* somebody the configured mode does not let in, wherever the single read   *)
(* of the request ends (handle, prometheus).                               *)
PageSound ==
  LET page == request.page  answered == request.phase = "done" /\ request.status = 200 IN
  /\ WorkerTypeOK /\ RequestTypeOK
  /\ \E k \in 0 .. Len(cycles) : page.cycles = Good(k) /\ page.errors = k - Good(k)
  /\ answered /\ request.route = "metrics" /\ page.cycles > 0 =>
       page.latest # NoSnapshot /\ Good(page.latest.n) >= page.cycles
  /\ answered => request.route = "health" \/ LetIn(request.sent.header)

HeldUp == server = "header" /\ header[Head(backlog)] = Silent

(* Whatever is emitted is taken out of the channel, however slow or dead    *)
(* the clients are, unless one holds back the end of its request: the       *)
(* thread that writes the events waits for it without a limit              *)
(* (authorize_client); or unless one sends a header on which its check      *)
(* panics (extract_bearer).                                                *)
EventsTaken ==
  []<>(served = Len(emitted) \/ HeldUp \/ Panicked)

=============================================================================
