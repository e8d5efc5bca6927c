----------------------------- MODULE EventStream -----------------------------
(***************************************************************************)
(* The event stream of src/app/event_stream.rs: an unbounded channel into  *)
(* which the program puts its events, and one thread that takes turns in   *)
(* accepting a client and in writing the next event to all of them.  The   *)
(* channel is the part of emitted behind served.                           *)
(***************************************************************************)
EXTENDS Bearer, Integers, Sequences

CONSTANTS
  Clients,
  Headers,   \* values of the Authorization header a client may send, or NoSecret
  Silent,    \* a client that has not sent the end of its request
  Garbled,   \* a request with a line that is not UTF-8
  Torn       \* the front part of a frame

ASSUME StreamConstants == NoSecret \in Headers /\ Silent \notin Headers /\ Garbled # NoSecret

VARIABLES
  emitted,   \* all events emitted so far
  served,    \* how many of them the server has taken out of the channel
  held,      \* does anybody still hold an EventStreamOutput?
  server,    \* what the server thread does next
  backlog,   \* connections that wait to be accepted; in "header", the first one is read
  conn,      \* the connection of each client, as the server sees it
  header,    \* what each client has sent
  peer,      \* what each client does: read, let its buffers fill up, or hang up
  got        \* the frames written to each client

(* History, for the properties. *)
VARIABLE joined   \* events taken before the client was admitted

serverVars == <<served, server, backlog, conn, got, joined>>
streamVars == <<emitted, held, header, peer, serverVars>>

States == {"new", "waiting", "admitted", "refused", "dropped"}

StreamTypeOK ==
  /\ emitted \in Seq(Nat) /\ served \in 0 .. Len(emitted) /\ held \in BOOLEAN
  /\ server \in {"accept", "header", "recv", "gone"}
  /\ backlog \in Seq(Clients) /\ (server = "header" => backlog # <<>>)
  /\ conn \in [Clients -> States]
  /\ header \in [Clients -> Headers \cup {Silent}]
  /\ peer \in [Clients -> {"reads", "stalls", "gone"}]
  /\ got \in [Clients -> Seq(Nat \cup {Torn})] /\ joined \in [Clients -> Nat]

StreamInit ==
  /\ emitted = <<>> /\ served = 0 /\ held = TRUE /\ server = "accept" /\ backlog = <<>>
  /\ conn = [c \in Clients |-> "new"] /\ header = [c \in Clients |-> Silent]
  /\ peer = [c \in Clients |-> "reads"]
  /\ got = [c \in Clients |-> <<>>] /\ joined = [c \in Clients |-> 0]

Admitted == {c \in Clients : conn[c] = "admitted"}

-----------------------------------------------------------------------------
(* The program: emit_json, which never waits, and the end of its last user. *)

Emit(event) ==
  /\ held
  /\ emitted' = Append(emitted, event)
  /\ UNCHANGED <<held, header, peer, serverVars>>

Release ==
  /\ held
  /\ held' = FALSE
  /\ UNCHANGED <<emitted, header, peer, serverVars>>

-----------------------------------------------------------------------------
(* The clients *)

Connect(c) ==
  /\ config.stream /\ conn[c] = "new" /\ server # "gone"
  /\ conn' = [conn EXCEPT ![c] = "waiting"] /\ backlog' = Append(backlog, c)
  /\ UNCHANGED <<emitted, held, header, peer, served, server, got, joined>>

SendHeader(c, h) ==
  /\ conn[c] = "waiting" /\ header[c] = Silent /\ peer[c] # "gone"
  /\ header' = [header EXCEPT ![c] = h]
  /\ UNCHANGED <<emitted, held, peer, serverVars>>

(* From now on its buffers may be full, for a while or for good. *)
Stall(c) ==
  /\ conn[c] = "admitted" /\ peer[c] = "reads"
  /\ peer' = [peer EXCEPT ![c] = "stalls"]
  /\ UNCHANGED <<emitted, held, header, serverVars>>

HangUp(c) ==
  /\ conn[c] \in {"waiting", "admitted"} /\ peer[c] # "gone"
  /\ peer' = [peer EXCEPT ![c] = "gone"]
  /\ UNCHANGED <<emitted, held, header, serverVars>>

-----------------------------------------------------------------------------
(* serve *)

Accept ==
  /\ server = "accept" /\ backlog # <<>>
  /\ server' = "header"
  /\ UNCHANGED <<emitted, held, header, peer, served, backlog, conn, got, joined>>

(* Mutant: the listener waits for a client. *)
Accept_Blocks == server = "accept" /\ backlog # <<>> /\ UNCHANGED streamVars

(* WouldBlock, or another error. *)
Accept_Nobody ==
  /\ server = "accept" /\ backlog = <<>>
  /\ server' = "recv"
  /\ UNCHANGED <<emitted, held, header, peer, served, backlog, conn, got, joined>>

(* authorize_client waits for the end of the header or of the connection. *)
Answerable(c) ==
  /\ server = "header" /\ c = Head(backlog)
  /\ header[c] # Silent \/ peer[c] = "gone"

Authorizing(c) ==
  /\ Answerable(c)
  /\ server' = "recv" /\ backlog' = Tail(backlog)
  /\ UNCHANGED <<emitted, held, header, peer, served, got>>

Sent(c) == IF header[c] = Silent THEN NoSecret ELSE header[c]

(* read_line fails on a garbled line, in every mode. *)
Welcome(c) == header[c] # Garbled /\ Authorized(Sent(c))

Admit(c) ==
  /\ Authorizing(c) /\ Welcome(c)
  /\ conn' = [conn EXCEPT ![c] = "admitted"] /\ joined' = [joined EXCEPT ![c] = served]

(* Refused, or the status line cannot be written any more. *)
Refuse(c) ==
  /\ Authorizing(c)
  /\ (~Welcome(c) /\ ~Panics(Sent(c))) \/ peer[c] = "gone"
  /\ conn' = [conn EXCEPT ![c] = "refused"] /\ UNCHANGED joined

(* write_all of a frame to a socket that does not block. *)
Writes(c) ==
  CASE peer[c] = "reads"  -> {"whole"}
    [] peer[c] = "stalls" -> {"whole", "torn", "failed"}
    [] peer[c] = "gone"   -> {"whole", "failed"}

Received(c, result) ==
  CASE result = "whole"  -> Append(got[c], emitted[served + 1])
    [] result = "torn"   -> Append(got[c], Torn)
    [] result = "failed" -> got[c]

Taking == server = "recv" /\ served < Len(emitted) /\ served' = served + 1 /\ server' = "accept"

Results ==
  {r \in [Admitted -> {"whole", "torn", "failed"}] : \A c \in Admitted : r[c] \in Writes(c)}

(* Mutant: a client stays although a write to it failed. *)
Forward_Keeps ==
  /\ Taking
  /\ \E result \in Results :
       got' = [c \in Clients |-> IF c \in Admitted THEN Received(c, result[c]) ELSE got[c]]
  /\ UNCHANGED <<emitted, held, header, peer, backlog, conn, joined>>

(* retain_mut: who cannot take the frame at once is dropped. *)
Forward ==
  /\ Taking
  /\ \E result \in Results :
       /\ got' = [c \in Clients |-> IF c \in Admitted THEN Received(c, result[c]) ELSE got[c]]
       /\ conn' = [c \in Clients |->
                     IF c \in Admitted /\ result[c] # "whole" THEN "dropped" ELSE conn[c]]
  /\ UNCHANGED <<emitted, held, header, peer, backlog, joined>>

Timeout ==
  /\ server = "recv" /\ served = Len(emitted) /\ held
  /\ server' = "accept"
  /\ UNCHANGED <<emitted, held, header, peer, served, backlog, conn, got, joined>>

(* The thread ends; its listener, its channel and its connections are closed. *)
Ending ==
  /\ server' = "gone" /\ backlog' = <<>>
  /\ conn' = [c \in Clients |-> IF conn[c] \in {"waiting", "admitted"} THEN "dropped" ELSE conn[c]]
  /\ UNCHANGED <<emitted, held, header, peer, served, got, joined>>

Disconnected == server = "recv" /\ served = Len(emitted) /\ ~held /\ Ending

(* Nothing catches the panic of a check; emit_json goes on, into nothing. *)
Panic(c) == Answerable(c) /\ Panics(Sent(c)) /\ Ending

Serve ==
  \/ Accept \/ Accept_Nobody
  \/ \E c \in Clients : Admit(c) \/ Refuse(c) \/ Panic(c)
  \/ Forward \/ Timeout \/ Disconnected

ClientSteps ==
  \E c \in Clients :
    \/ Connect(c) \/ Stall(c) \/ HangUp(c)
    \/ \E h \in Headers : SendHeader(c, h)

=============================================================================
