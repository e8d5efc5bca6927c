--------------------------- MODULE EndpointsProofs ---------------------------
(***************************************************************************)
(* StreamSound is inductive: whatever the clients do, and however many     *)
(* they are, what the stream delivers is complete, in order, and newer     *)
(* than what was delivered before, for every set of configurations and     *)
(* headers.  PageSound follows from PageInv, which relates the counters    *)
(* that are shared to the collections there have been.                     *)
(***************************************************************************)
EXTENDS EndpointsInvariant, FiniteSetTheorems, TLAPS

(* Nothing has been streamed at the start. *)
LEMMA StreamInitial ==
  ASSUME Init
  PROVE  StreamSound
<1>1. StreamTypeOK BY DEF Init, StreamInit, StreamTypeOK, States
<1>2. Numbered
  BY DEF Init, WorkerInit, StreamInit, Numbered, Shared, NoShared, InHand
<1>3. Connected BY DEF Init, StreamInit, Connected
<1>4. ASSUME NEW c \in Clients PROVE Delivered(c)
  BY <1>4 DEF Init, StreamInit, Delivered
<1>5. Ended BY DEF Init, StreamInit, Ended
<1> QED BY <1>1, <1>2, <1>3, <1>4, <1>5 DEF StreamSound

-----------------------------------------------------------------------------
(* The numbers of the snapshots *)

(* The worker hands the numbers on in order. *)
LEMMA WorkerKeepsNumbered ==
  ASSUME StreamTypeOK, Numbered, Worker, UNCHANGED emitted
  PROVE  Numbered'
<1>0. emitted \in Seq(Nat) BY DEF StreamTypeOK
<1>1. ASSUME NEW value \in Values, NEW ts \in Times, Collect(value, ts), UNCHANGED seen
      PROVE  Numbered'
  BY <1>0, <1>1 DEF Collect, Numbered, Shared, InHand
<1>2. ASSUME Collect_Fails, UNCHANGED seen PROVE Numbered'
  <2>1. /\ worker = "collect" /\ worker' = "connectors"
        /\ cycles' = Append(cycles, NoSnapshot) /\ UNCHANGED <<stored, seen, emitted>>
        /\ shared' = [shared EXCEPT !.errors = @ + 1, !.error = TRUE]
    BY <1>2 DEF Collect_Fails
  <2>2. shared \in Shared BY DEF Numbered
  <2> DEFINE counted == [shared EXCEPT !.errors = @ + 1]
  <2>a. shared' = [counted EXCEPT !.error = TRUE] BY <2>1
  <2>b. counted \in Shared /\ counted.seq = shared.seq /\ counted.latest = shared.latest
    BY <2>2 DEF Shared
  <2> HIDE DEF counted
  <2>3. shared' \in Shared /\ (shared').seq = shared.seq /\ (shared').latest = shared.latest
    BY <2>a, <2>b, <2>2 DEF Shared
  <2>4. cycles' \in Seq(Values \cup {NoSnapshot}) /\ Len(cycles') = Len(cycles) + 1
    BY <2>1 DEF Numbered
  <2>5. stored' \in 0 .. Len(cycles') BY <2>1, <2>4 DEF Numbered
  <2> QED BY <1>0, <2>1, <2>3, <2>4, <2>5 DEF Numbered, InHand
<1>3. ASSUME Persist, UNCHANGED seen PROVE Numbered'
  BY <1>0, <1>3 DEF Persist, Numbered, Shared, InHand
<1>4. ASSUME Publish, UNCHANGED seen PROVE Numbered'
  <2>1. /\ worker = "publish" /\ worker' = "connectors"
        /\ UNCHANGED <<cycles, stored, seen, emitted>>
        /\ shared' = [shared EXCEPT !.seq = @ + 1, !.latest = collected, !.error = FALSE]
    BY <1>4 DEF Publish
  <2>2. /\ shared \in Shared /\ stored = Len(cycles) /\ seen \in 0 .. shared.seq
        /\ collected \in [n : {Len(cycles)}, ts : Times, value : Values]
    BY <2>1 DEF Numbered, InHand
  <2>3. Len(cycles) \in Nat BY DEF Numbered
  <2> DEFINE next == [shared EXCEPT !.seq = @ + 1]
             shown == [next EXCEPT !.latest = collected]
  <2>a. shared' = [shown EXCEPT !.error = FALSE] BY <2>1
  <2>b. next \in Shared /\ next.seq = shared.seq + 1 BY <2>2 DEF Shared
  <2> HIDE DEF next
  <2>c. shown \in Shared /\ shown.seq = next.seq /\ shown.latest = collected
    BY <2>2, <2>3, <2>b DEF Shared
  <2> HIDE DEF shown
  <2>4. /\ shared' \in Shared
        /\ (shared').seq = shared.seq + 1 /\ (shared').latest = collected
    BY <2>a, <2>b, <2>c DEF Shared
  <2>5. seen' \in 0 .. (shared').seq /\ (shared').seq > 0
    BY <2>1, <2>2, <2>4 DEF Shared
  <2>6. /\ (shared').latest \in [n : 0 .. stored', ts : Times, value : Values]
        /\ (shared').latest.n = Len(cycles)
    BY <2>1, <2>2, <2>3, <2>4
  <2>7. ASSUME NEW i \in DOMAIN emitted PROVE emitted[i] < Len(cycles)
    <3>1. shared.seq > 0 /\ emitted[i] <= shared.latest.n /\ shared.latest.n < Len(cycles)
      BY <2>1 DEF Numbered, InHand
    <3>2. emitted[i] \in Nat /\ shared.latest.n \in Nat BY <1>0, <3>1 DEF Numbered
    <3> QED BY <2>3, <3>1, <3>2
  <2>8. \A i \in DOMAIN emitted' : emitted'[i] < (shared').latest.n
    BY <2>1, <2>6, <2>7
  <2>9. \A i \in DOMAIN emitted' : emitted'[i] <= (shared').latest.n
    BY <1>0, <2>1, <2>3, <2>6, <2>7
  <2> QED BY <2>1, <2>4, <2>5, <2>6, <2>8, <2>9 DEF Numbered, InHand
<1>5. ASSUME Connectors, UNCHANGED seen PROVE Numbered'
  BY <1>0, <1>5 DEF Connectors, Numbered, Shared, InHand
<1> QED BY <1>1, <1>2, <1>3, <1>4, <1>5 DEF Worker

(* A tick hands over a snapshot that is newer than all the stream has. *)
LEMMA TickKeepsNumbered ==
  ASSUME StreamTypeOK, Numbered, Tick
  PROVE  Numbered'
<1> DEFINE n == shared.latest.n
<1>1. Fresh /\ seen' = shared.seq /\ UNCHANGED <<workerVars, shared>> /\ emitted' = Append(emitted, n)
  BY DEF Tick, PollTick, Emit
<1>2. shared.seq > 0 /\ n \in 0 .. stored
  BY <1>1 DEF Numbered, Shared, Fresh
<1>3. emitted \in Seq(Nat) /\ n \in Nat BY <1>2 DEF StreamTypeOK, Numbered
<1>4. \A i \in DOMAIN emitted : emitted[i] < n BY <1>1 DEF Numbered, Fresh
<1>5. /\ DOMAIN emitted' = 1 .. Len(emitted) + 1
      /\ \A i \in DOMAIN emitted : emitted'[i] = emitted[i]
      /\ emitted'[Len(emitted) + 1] = n
  BY <1>1, <1>3
<1>6. \A i \in DOMAIN emitted' : emitted'[i] <= n
  BY <1>3, <1>4, <1>5
<1>7. ASSUME NEW i \in DOMAIN emitted', NEW j \in DOMAIN emitted', i < j
      PROVE  emitted'[i] < emitted'[j]
  <2>1. i \in DOMAIN emitted BY <1>3, <1>5, <1>7
  <2>2. CASE j = Len(emitted) + 1 BY <1>4, <1>5, <2>1, <2>2
  <2>3. CASE j \in DOMAIN emitted BY <1>5, <1>7, <2>1, <2>3 DEF Numbered
  <2> QED BY <1>3, <1>5, <1>7, <2>2, <2>3
<1>8. \A i \in DOMAIN emitted' : emitted'[i] <= stored
  <2>1. stored \in Nat /\ n <= stored BY <1>2 DEF Numbered
  <2>2. \A i \in DOMAIN emitted : emitted[i] <= stored BY DEF Numbered
  <2> QED BY <1>3, <1>5, <2>1, <2>2
<1>9. UNCHANGED <<cycles, worker, collected, stored, shared>> BY <1>1 DEF workerVars
<1>10. seen' \in 0 .. (shared').seq /\ (shared').seq = seen' BY <1>1, <1>9 DEF Numbered, Shared
<1>11. \A i \in DOMAIN emitted' : emitted'[i] <= (shared').latest.n BY <1>6, <1>9
<1> QED BY <1>2, <1>7, <1>8, <1>9, <1>10, <1>11 DEF Numbered, InHand

(* A step that hands on no snapshot keeps the numbers. *)
LEMMA NumberedUnchanged ==
  ASSUME Numbered, UNCHANGED <<workerVars, shared, seen, emitted>>
  PROVE  Numbered'
BY DEF Numbered, InHand, workerVars

(* Every step keeps the numbers. *)
LEMMA NumberedStep ==
  ASSUME StreamTypeOK, Numbered, [Next]_vars
  PROVE  Numbered'
<1>1. CASE Telemetry_Step
  BY <1>1, WorkerKeepsNumbered DEF Telemetry_Step, streamVars
<1>2. CASE Tick BY <1>2, TickKeepsNumbered
<1>3. CASE Close BY <1>3, NumberedUnchanged DEF Close, Release, telemetry
<1>4. CASE Stream_Step
  <2>1. UNCHANGED emitted
    BY <1>4 DEF Stream_Step, Serve, Accept, Accept_Nobody, Admit, Refuse, Authorizing, Forward,
       Timeout, Disconnected, Panic, Ending
  <2> QED BY <1>4, <2>1, NumberedUnchanged DEF Stream_Step, telemetry
<1>5. CASE Client_Step
  <2>1. UNCHANGED emitted
    BY <1>5 DEF Client_Step, ClientSteps, Connect, Stall, HangUp, SendHeader
  <2> QED BY <1>5, <2>1, NumberedUnchanged DEF Client_Step, telemetry
<1>6. CASE Request_Step
  BY <1>6, NumberedUnchanged DEF Request_Step, telemetry, streamVars
<1>7. CASE UNCHANGED vars BY <1>7, NumberedUnchanged DEF vars, streamVars
<1> QED BY <1>1, <1>2, <1>3, <1>4, <1>5, <1>6, <1>7 DEF Next

-----------------------------------------------------------------------------
(* The stream, for a step that leaves the server alone *)

(* What a stream step must preserve besides the types. *)
Clients_OK == Connected /\ Ended /\ \A c \in Clients : Delivered(c)

(* Who is let in was let in: the header of a client is not taken back. *)
LEMMA EmitKeepsStream ==
  ASSUME StreamTypeOK, Clients_OK, NEW event \in Nat, Emit(event), UNCHANGED config
  PROVE  StreamTypeOK' /\ Clients_OK'
<1>1. held /\ emitted' = Append(emitted, event) /\ UNCHANGED <<held, header, peer, serverVars>>
  BY DEF Emit
<1>2. UNCHANGED <<held, header, peer, served, server, backlog, conn, got, joined, config>>
  BY <1>1 DEF serverVars
<1>3. /\ emitted' \in Seq(Nat) /\ Len(emitted') = Len(emitted) + 1
      /\ \A i \in 1 .. Len(emitted) : emitted'[i] = emitted[i]
  BY <1>1 DEF StreamTypeOK
<1>4. StreamTypeOK' BY <1>2, <1>3 DEF StreamTypeOK
<1>5. Connected' BY <1>2 DEF Clients_OK, Connected, LetIn, Secret
<1>a. Ended' BY <1>1, <1>2 DEF Clients_OK, Ended, Panicked
<1>6. ASSUME NEW c \in Clients PROVE Delivered(c)'
  <2>1. /\ got[c] \in Seq(Nat \cup {Torn}) /\ joined[c] \in Nat
        /\ joined[c] + Len(got[c]) <= served /\ served \in 0 .. Len(emitted)
    BY DEF StreamTypeOK, Clients_OK, Connected
  <2>2. Len(emitted) \in Nat BY DEF StreamTypeOK
  <2>3. \A i \in DOMAIN got[c] : joined[c] + i \in 1 .. Len(emitted)
    BY <2>1, <2>2
  <2> QED BY <1>2, <1>3, <2>3 DEF Clients_OK, Delivered
<1> QED BY <1>4, <1>5, <1>6, <1>a DEF Clients_OK

(* The last user of the stream ends. *)
LEMMA ReleaseKeepsStream ==
  ASSUME StreamTypeOK, Clients_OK, Release, UNCHANGED config
  PROVE  StreamTypeOK' /\ Clients_OK'
<1>1. held' = FALSE /\ UNCHANGED <<emitted, header, peer, served, server, backlog, conn, got, joined>>
  BY DEF Release, serverVars
<1>2. StreamTypeOK' BY <1>1 DEF StreamTypeOK
<1>3. Connected' BY <1>1 DEF Clients_OK, Connected, LetIn, Secret
<1>4. ASSUME NEW c \in Clients PROVE Delivered(c)'
  BY <1>1 DEF Clients_OK, Delivered
<1>5. Ended' BY <1>1 DEF Clients_OK, Ended, Panicked
<1> QED BY <1>2, <1>3, <1>4, <1>5 DEF Clients_OK

(* A client connects, sends its header, stalls or hangs up. *)
LEMMA ClientsKeepStream ==
  ASSUME StreamTypeOK, Clients_OK, ClientSteps, UNCHANGED config
  PROVE  StreamTypeOK' /\ Clients_OK'
<1>1. PICK c \in Clients :
        Connect(c) \/ Stall(c) \/ HangUp(c) \/ \E h \in Headers : SendHeader(c, h)
  BY DEF ClientSteps
<1>2. CASE Connect(c)
  <2>1. /\ conn[c] = "new" /\ server # "gone"
        /\ conn' = [conn EXCEPT ![c] = "waiting"] /\ backlog' = Append(backlog, c)
        /\ UNCHANGED <<emitted, held, header, peer, served, server, got, joined>>
    BY <1>2 DEF Connect
  <2>2. /\ conn \in [Clients -> States] /\ backlog \in Seq(Clients)
    BY DEF StreamTypeOK
  <2>3. /\ backlog' \in Seq(Clients) /\ backlog' # <<>>
        /\ DOMAIN backlog' = 1 .. Len(backlog) + 1
        /\ \A i \in DOMAIN backlog : backlog'[i] = backlog[i]
        /\ backlog'[Len(backlog) + 1] = c
    BY <2>1, <2>2
  <2>4. /\ conn' \in [Clients -> States] /\ conn'[c] = "waiting"
        /\ \A d \in Clients : d # c => conn'[d] = conn[d]
    BY <2>1, <2>2 DEF States
  <2>5. StreamTypeOK' BY <2>1, <2>3, <2>4 DEF StreamTypeOK
  <2>6. \A i \in DOMAIN backlog : backlog[i] # c BY <2>1 DEF Clients_OK, Connected
  <2>7. \A i \in DOMAIN backlog' : conn'[backlog'[i]] = "waiting"
    BY <2>2, <2>3, <2>4, <2>6 DEF Clients_OK, Connected
  <2>8. \A i, j \in DOMAIN backlog' : backlog'[i] = backlog'[j] => i = j
    BY <2>2, <2>3, <2>6 DEF Clients_OK, Connected
  <2>9. ASSUME NEW d \in Clients
        PROVE  /\ conn'[d] \in {"new", "waiting"} => got'[d] = <<>>
               /\ joined'[d] + Len(got'[d]) <= served'
               /\ conn'[d] = "admitted" \/ got'[d] # <<>> => LetIn(header[d])'
    BY <2>1, <2>4 DEF Clients_OK, Connected, LetIn, Secret
  <2>10. ASSUME NEW d \in Clients PROVE Delivered(d)'
    <3>1. CASE d = c
      BY <2>1, <2>4, <3>1 DEF Clients_OK, Connected, Delivered
    <3>2. CASE d # c BY <2>1, <2>4, <3>2 DEF Clients_OK, Delivered
    <3> QED BY <3>1, <3>2
  <2>11. Ended' BY <2>1 DEF Ended
  <2> QED BY <2>5, <2>7, <2>8, <2>9, <2>10, <2>11 DEF Clients_OK, Connected
<1>3. ASSUME NEW h \in Headers, SendHeader(c, h) PROVE StreamTypeOK' /\ Clients_OK'
  <2>1. /\ conn[c] = "waiting" /\ header' = [header EXCEPT ![c] = h]
        /\ UNCHANGED <<emitted, held, peer, served, server, backlog, conn, got, joined>>
    BY <1>3 DEF SendHeader, serverVars
  <2>2. StreamTypeOK' BY <2>1 DEF StreamTypeOK
  <2>3. got[c] = <<>> BY <2>1 DEF Clients_OK, Connected
  <2>4. \A d \in Clients : d # c => header'[d] = header[d] BY <2>1 DEF StreamTypeOK
  <2>5. Connected' BY <2>1, <2>3, <2>4 DEF Clients_OK, Connected, LetIn, Secret
  <2>6. ASSUME NEW d \in Clients PROVE Delivered(d)' BY <2>1 DEF Clients_OK, Delivered
  <2>7. Panicked => Panicked' BY <2>1, <2>4 DEF Panicked
  <2>8. Ended' BY <2>1, <2>7 DEF Clients_OK, Ended
  <2> QED BY <2>2, <2>5, <2>6, <2>8 DEF Clients_OK
<1>4. ASSUME Stall(c) \/ HangUp(c) PROVE StreamTypeOK' /\ Clients_OK'
  <2>1. /\ \/ peer' = [peer EXCEPT ![c] = "stalls"]
           \/ peer' = [peer EXCEPT ![c] = "gone"]
        /\ UNCHANGED <<emitted, held, header, served, server, backlog, conn, got, joined>>
    BY <1>4 DEF Stall, HangUp, serverVars
  <2>2. StreamTypeOK' BY <2>1 DEF StreamTypeOK
  <2>3. Connected' BY <2>1 DEF Clients_OK, Connected, LetIn, Secret
  <2>4. \A d \in Clients : peer[d] # "reads" => peer'[d] # "reads"
    BY <2>1 DEF StreamTypeOK
  <2>5. ASSUME NEW d \in Clients PROVE Delivered(d)' BY <2>1, <2>4 DEF Clients_OK, Delivered
  <2>6. Ended' BY <2>1 DEF Clients_OK, Ended, Panicked
  <2> QED BY <2>2, <2>3, <2>5, <2>6 DEF Clients_OK
<1> QED BY <1>1, <1>2, <1>3, <1>4

-----------------------------------------------------------------------------
(* The server *)

(* A header that was not sent authenticates nobody. *)
LEMMA AuthorizedIsLetIn ==
  ASSUME NEW c \in Clients, Welcome(c)
  PROVE  LetIn(header[c])
BY DEF Welcome, Authorized, BearerEquals, Sent, LetIn, Secret

(* The check panics only over a header that was sent, and against a secret. *)
LEMMA PanicFacts ==
  ASSUME NEW h, Panics(h)
  PROVE  config.mode # "local" /\ h = Halved
BY DEF Panics, BearerPanics

(* A turn of the server that answers nobody. *)
LEMMA TurnKeepsStream ==
  ASSUME StreamTypeOK, Clients_OK, Accept \/ Accept_Nobody \/ Timeout, UNCHANGED config
  PROVE  StreamTypeOK' /\ Clients_OK'
<1>1. /\ server' \in {"accept", "header", "recv"} /\ (server' = "header" => backlog # <<>>)
      /\ UNCHANGED <<emitted, held, header, peer, served, backlog, conn, got, joined>>
  BY DEF Accept, Accept_Nobody, Timeout
<1>2. StreamTypeOK' BY <1>1 DEF StreamTypeOK
<1>3. Connected' BY <1>1 DEF Clients_OK, Connected, LetIn, Secret
<1>a. server # "gone" BY DEF Accept, Accept_Nobody, Timeout
<1>4. ASSUME NEW c \in Clients PROVE Delivered(c)' BY <1>1, <1>a DEF Clients_OK, Delivered
<1>5. Ended' BY <1>1 DEF Ended
<1> QED BY <1>2, <1>3, <1>4, <1>5 DEF Clients_OK

(* The first of the backlog is taken out of it, and waits there no more. *)
LEMMA AuthorizingStep ==
  ASSUME StreamTypeOK, Clients_OK, NEW c \in Clients, Authorizing(c),
         NEW state \in States, conn' = [conn EXCEPT ![c] = state]
  PROVE  /\ conn[c] = "waiting" /\ got[c] = <<>> /\ server # "gone"
         /\ backlog' \in Seq(Clients) /\ conn' \in [Clients -> States]
         /\ conn'[c] = state /\ \A d \in Clients : d # c => conn'[d] = conn[d]
         /\ \A i \in DOMAIN backlog' : conn'[backlog'[i]] = "waiting"
         /\ \A i, j \in DOMAIN backlog' : backlog'[i] = backlog'[j] => i = j
<1>1. backlog \in Seq(Clients) /\ backlog # <<>> /\ conn \in [Clients -> States]
  BY DEF StreamTypeOK, Authorizing, Answerable
<1>2. backlog[1] = c /\ backlog' = Tail(backlog) /\ server = "header"
  BY <1>1 DEF Authorizing, Answerable
<1>3. /\ backlog' \in Seq(Clients) /\ Len(backlog) \in Nat \ {0}
      /\ DOMAIN backlog' = 1 .. Len(backlog) - 1
      /\ \A i \in DOMAIN backlog' : backlog'[i] = backlog[i + 1]
  BY <1>1, <1>2
<1>4. /\ \A i \in DOMAIN backlog : conn[backlog[i]] = "waiting"
      /\ \A i, j \in DOMAIN backlog : backlog[i] = backlog[j] => i = j
  BY DEF Clients_OK, Connected
<1>5. DOMAIN backlog = 1 .. Len(backlog) /\ \A i \in DOMAIN backlog : backlog[i] \in Clients
  BY <1>1
<1>6. conn[c] = "waiting" BY <1>2, <1>3, <1>4, <1>5
<1>7. got[c] = <<>> BY <1>6 DEF Clients_OK, Connected
<1>8. /\ conn' \in [Clients -> States] /\ conn'[c] = state
      /\ \A d \in Clients : d # c => conn'[d] = conn[d]
  BY <1>1
<1>9. ASSUME NEW i \in DOMAIN backlog'
      PROVE  backlog'[i] # c /\ conn'[backlog'[i]] = "waiting"
  <2>1. i + 1 \in DOMAIN backlog /\ 1 \in DOMAIN backlog /\ i + 1 # 1
    BY <1>3, <1>5, <1>9
  <2> QED BY <1>2, <1>3, <1>4, <1>5, <1>8, <2>1
<1>10. ASSUME NEW i \in DOMAIN backlog', NEW j \in DOMAIN backlog', backlog'[i] = backlog'[j]
       PROVE  i = j
  <2>1. i + 1 \in DOMAIN backlog /\ j + 1 \in DOMAIN backlog /\ i \in Int /\ j \in Int
    BY <1>3, <1>5, <1>10
  <2> QED BY <1>3, <1>4, <1>10, <2>1
<1> QED BY <1>2, <1>3, <1>6, <1>7, <1>8, <1>9, <1>10

(* A client is admitted. *)
LEMMA AdmitKeepsStream ==
  ASSUME StreamTypeOK, Clients_OK, NEW c \in Clients, Admit(c), UNCHANGED config
  PROVE  StreamTypeOK' /\ Clients_OK'
<1>1. /\ server' = "recv" /\ UNCHANGED <<emitted, held, header, peer, served, got>>
      /\ conn' = [conn EXCEPT ![c] = "admitted"] /\ joined' = [joined EXCEPT ![c] = served]
      /\ Authorizing(c) /\ Welcome(c)
  BY DEF Admit, Authorizing
<1>2. /\ got[c] = <<>> /\ server # "gone" /\ backlog' \in Seq(Clients) /\ conn' \in [Clients -> States]
      /\ conn'[c] = "admitted" /\ \A d \in Clients : d # c => conn'[d] = conn[d]
      /\ \A i \in DOMAIN backlog' : conn'[backlog'[i]] = "waiting"
      /\ \A i, j \in DOMAIN backlog' : backlog'[i] = backlog'[j] => i = j
  BY <1>1, AuthorizingStep DEF States
<1>3. served \in Nat /\ joined \in [Clients -> Nat] BY DEF StreamTypeOK
<1>4. /\ joined' \in [Clients -> Nat] /\ joined'[c] = served
      /\ \A d \in Clients : d # c => joined'[d] = joined[d]
  BY <1>1, <1>3
<1>5. StreamTypeOK' BY <1>1, <1>2, <1>4 DEF StreamTypeOK
<1>6. LetIn(header[c]) BY <1>1, AuthorizedIsLetIn
<1>7. ASSUME NEW d \in Clients
      PROVE  /\ conn'[d] \in {"new", "waiting"} => got'[d] = <<>>
             /\ joined'[d] + Len(got'[d]) <= served'
             /\ conn'[d] = "admitted" \/ got'[d] # <<>> => LetIn(header[d])'
             /\ Delivered(d)'
  <2>1. CASE d = c
    <3>1. Len(got[c]) = 0 /\ DOMAIN got[c] = {} BY <1>2
    <3> QED BY <1>1, <1>2, <1>3, <1>4, <1>6, <2>1, <3>1 DEF Delivered, LetIn, Secret
  <2>2. CASE d # c
    BY <1>1, <1>2, <1>4, <2>2 DEF Clients_OK, Connected, Delivered, LetIn, Secret
  <2> QED BY <2>1, <2>2
<1>8. Ended' BY <1>1 DEF Ended
<1> QED BY <1>2, <1>5, <1>7, <1>8 DEF Clients_OK, Connected

(* A client is refused. *)
LEMMA RefuseKeepsStream ==
  ASSUME StreamTypeOK, Clients_OK, NEW c \in Clients, Refuse(c), UNCHANGED config
  PROVE  StreamTypeOK' /\ Clients_OK'
<1>1. /\ server' = "recv" /\ UNCHANGED <<emitted, held, header, peer, served, got, joined>>
      /\ conn' = [conn EXCEPT ![c] = "refused"] /\ Authorizing(c)
  BY DEF Refuse, Authorizing
<1>2. /\ got[c] = <<>> /\ server # "gone" /\ backlog' \in Seq(Clients) /\ conn' \in [Clients -> States]
      /\ conn'[c] = "refused" /\ \A d \in Clients : d # c => conn'[d] = conn[d]
      /\ \A i \in DOMAIN backlog' : conn'[backlog'[i]] = "waiting"
      /\ \A i, j \in DOMAIN backlog' : backlog'[i] = backlog'[j] => i = j
  BY <1>1, AuthorizingStep DEF States
<1>3. StreamTypeOK' BY <1>1, <1>2 DEF StreamTypeOK
<1>4. ASSUME NEW d \in Clients
      PROVE  /\ conn'[d] \in {"new", "waiting"} => got'[d] = <<>>
             /\ joined'[d] + Len(got'[d]) <= served'
             /\ conn'[d] = "admitted" \/ got'[d] # <<>> => LetIn(header[d])'
             /\ Delivered(d)'
  <2>1. CASE d = c
    BY <1>1, <1>2, <2>1 DEF Clients_OK, Connected, Delivered, LetIn, Secret
  <2>2. CASE d # c
    BY <1>1, <1>2, <2>2 DEF Clients_OK, Connected, Delivered, LetIn, Secret
  <2> QED BY <2>1, <2>2
<1>5. Ended' BY <1>1 DEF Ended
<1> QED BY <1>2, <1>3, <1>4, <1>5 DEF Clients_OK, Connected

(* One client and one frame. *)
LEMMA WrittenOnce ==
  ASSUME StreamTypeOK, Clients_OK, Taking, NEW c \in Admitted,
         NEW result \in Writes(c), got'[c] = Received(c, result),
         conn'[c] = IF result # "whole" THEN "dropped" ELSE conn[c],
         UNCHANGED <<emitted, held, header, peer, joined>>
  PROVE  /\ got'[c] \in Seq(Nat \cup {Torn})
         /\ joined[c] + Len(got'[c]) <= served'
         /\ Delivered(c)'
<1>1. /\ c \in Clients /\ conn[c] = "admitted"
      /\ got[c] \in Seq(Nat \cup {Torn}) /\ joined[c] \in Nat
      /\ peer[c] \in {"reads", "stalls", "gone"}
  BY DEF Admitted, StreamTypeOK
<1>2. /\ emitted \in Seq(Nat) /\ served \in Nat /\ served < Len(emitted) /\ served' = served + 1
  BY DEF Taking, StreamTypeOK
<1>3. emitted[served + 1] \in Nat BY <1>2
<1>4. /\ Len(got[c]) = served - joined[c]
      /\ \A i \in DOMAIN got[c] : got[c][i] = emitted[joined[c] + i]
  BY <1>1 DEF Clients_OK, Delivered
<1>5. result \in {"whole", "torn", "failed"} /\ (peer[c] = "reads" => result = "whole")
  BY <1>1 DEF Writes
<1>a. joined[c] + Len(got[c]) = served /\ Len(got[c]) \in Nat /\ joined[c] \in Nat
  <2>1. Len(got[c]) \in Nat /\ joined[c] \in Nat BY <1>1
  <2> QED BY <1>2, <1>4, <2>1
<1>6. CASE result = "whole"
  <2>1. got'[c] = Append(got[c], emitted[served + 1]) BY <1>6 DEF Received
  <2>2. /\ got'[c] \in Seq(Nat \cup {Torn}) /\ Len(got'[c]) = Len(got[c]) + 1
        /\ \A i \in DOMAIN got[c] : got'[c][i] = got[c][i]
        /\ got'[c][Len(got[c]) + 1] = emitted[served + 1]
        /\ DOMAIN got'[c] = 1 .. Len(got[c]) + 1 /\ DOMAIN got[c] = 1 .. Len(got[c])
    BY <1>1, <1>3, <2>1
  <2>3. \A i \in DOMAIN got'[c] : got'[c][i] = emitted[joined[c] + i]
    <3>1. joined[c] + (Len(got[c]) + 1) = served + 1 /\ Len(got[c]) \in Nat
      BY <1>2, <1>a
    <3> QED BY <1>4, <2>2, <3>1
  <2>4. Len(got'[c]) = served' - joined[c] /\ joined[c] + Len(got'[c]) <= served'
    <3>1. Len(got'[c]) = Len(got[c]) + 1 BY <2>2
    <3> QED BY <1>2, <1>a, <3>1
  <2>5. conn'[c] = "admitted" BY <1>1, <1>6
  <2> QED BY <2>2, <2>3, <2>4, <2>5 DEF Delivered
<1>7. CASE result = "torn"
  <2>1. got'[c] = Append(got[c], Torn) BY <1>7 DEF Received
  <2>2. /\ got'[c] \in Seq(Nat \cup {Torn}) /\ Len(got'[c]) = Len(got[c]) + 1
        /\ \A i \in DOMAIN got[c] : got'[c][i] = got[c][i]
        /\ got'[c][Len(got[c]) + 1] = Torn
        /\ DOMAIN got'[c] = 1 .. Len(got[c]) + 1 /\ DOMAIN got[c] = 1 .. Len(got[c])
    BY <1>1, <2>1
  <2>3. conn'[c] = "dropped" /\ peer[c] # "reads" BY <1>5, <1>7
  <2>4. ASSUME NEW i \in DOMAIN got'[c]
        PROVE  \/ got'[c][i] = emitted[joined[c] + i]
               \/ got'[c][i] = Torn /\ i = Len(got'[c])
    <3>1. Len(got[c]) \in Nat BY <1>1
    <3>2. i \in DOMAIN got[c] \/ i = Len(got[c]) + 1 BY <2>2, <3>1
    <3> QED BY <1>4, <2>2, <3>2
  <2>5. joined[c] + Len(got'[c]) <= served'
    <3>1. Len(got'[c]) = Len(got[c]) + 1 BY <2>2
    <3> QED BY <1>2, <1>a, <3>1
  <2> QED BY <2>2, <2>3, <2>4, <2>5 DEF Delivered
<1>8. CASE result = "failed"
  <2>1. got'[c] = got[c] BY <1>8 DEF Received
  <2>2. conn'[c] = "dropped" /\ peer[c] # "reads" BY <1>5, <1>8
  <2>3. joined[c] + Len(got'[c]) <= served'
    <3>1. Len(got'[c]) = Len(got[c]) BY <2>1
    <3> QED BY <1>2, <1>a, <3>1
  <2> QED BY <1>1, <1>4, <2>1, <2>2, <2>3 DEF Delivered
<1> QED BY <1>5, <1>6, <1>7, <1>8

(* An event is written to all clients. *)
LEMMA ForwardKeepsStream ==
  ASSUME StreamTypeOK, Clients_OK, Forward, UNCHANGED config
  PROVE  StreamTypeOK' /\ Clients_OK'
<1>1. /\ Taking /\ UNCHANGED <<emitted, held, header, peer, backlog, joined>>
      /\ served' = served + 1 /\ served < Len(emitted) /\ server' = "accept"
  BY DEF Forward, Taking
<1>2. PICK result \in Results :
        /\ got' = [c \in Clients |-> IF c \in Admitted THEN Received(c, result[c]) ELSE got[c]]
        /\ conn' = [c \in Clients |->
                      IF c \in Admitted /\ result[c] # "whole" THEN "dropped" ELSE conn[c]]
  BY DEF Forward
<1>3. /\ served \in Nat /\ emitted \in Seq(Nat) /\ conn \in [Clients -> States]
      /\ got \in [Clients -> Seq(Nat \cup {Torn})] /\ joined \in [Clients -> Nat]
  BY DEF StreamTypeOK
<1>4. conn' \in [Clients -> States] BY <1>2, <1>3 DEF States
<1>5. ASSUME NEW c \in Clients
      PROVE  /\ got'[c] \in Seq(Nat \cup {Torn})
             /\ conn'[c] \in {"new", "waiting"} => got'[c] = <<>>
             /\ joined'[c] + Len(got'[c]) <= served'
             /\ conn'[c] = "admitted" \/ got'[c] # <<>> => LetIn(header[c])'
             /\ Delivered(c)'
  <2>1. CASE c \in Admitted
    <3>1. conn[c] = "admitted" BY <2>1 DEF Admitted
    <3>2. LetIn(header[c]) BY <3>1 DEF Clients_OK, Connected
    <3>3. /\ result[c] \in Writes(c) /\ got'[c] = Received(c, result[c])
          /\ conn'[c] = IF result[c] # "whole" THEN "dropped" ELSE conn[c]
      BY <1>2, <2>1 DEF Results
    <3>4. /\ got'[c] \in Seq(Nat \cup {Torn})
          /\ joined[c] + Len(got'[c]) <= served' /\ Delivered(c)'
      BY <1>1, <2>1, <3>3, WrittenOnce
    <3>5. conn'[c] \notin {"new", "waiting"} BY <3>1, <3>3
    <3> QED BY <1>1, <3>2, <3>4, <3>5 DEF LetIn, Secret
  <2>2. CASE c \notin Admitted
    <3>1. conn'[c] = conn[c] /\ got'[c] = got[c] /\ conn[c] # "admitted"
      BY <1>2, <2>2 DEF Admitted
    <3>2. joined[c] + Len(got[c]) <= served /\ joined[c] \in Nat /\ Len(got[c]) \in Nat
      BY <1>3 DEF Clients_OK, Connected
    <3>3. joined'[c] + Len(got'[c]) <= served' BY <1>1, <1>3, <3>1, <3>2
    <3>4. got'[c] \in Seq(Nat \cup {Torn}) BY <1>3, <3>1
    <3>a. server # "gone" BY <1>1 DEF Taking
    <3>5. Delivered(c)' BY <1>1, <3>1, <3>a DEF Clients_OK, Delivered
    <3> QED BY <1>1, <3>1, <3>3, <3>4, <3>5 DEF Clients_OK, Connected, LetIn, Secret
  <2> QED BY <2>1, <2>2
<1>6. got' \in [Clients -> Seq(Nat \cup {Torn})] BY <1>2, <1>5
<1>7. served' \in 0 .. Len(emitted') BY <1>1, <1>3
<1>8. StreamTypeOK' BY <1>1, <1>4, <1>6, <1>7 DEF StreamTypeOK
<1>9. ASSUME NEW i \in DOMAIN backlog' PROVE conn'[backlog'[i]] = "waiting"
  <2>1. conn[backlog[i]] = "waiting" /\ backlog[i] \in Clients
    BY <1>1, <1>9 DEF Clients_OK, Connected, StreamTypeOK
  <2> QED BY <1>1, <1>2, <2>1 DEF Admitted
<1>10. \A i, j \in DOMAIN backlog' : backlog'[i] = backlog'[j] => i = j
  BY <1>1 DEF Clients_OK, Connected
<1>11. Ended' BY <1>1 DEF Ended
<1> QED BY <1>5, <1>8, <1>9, <1>10, <1>11 DEF Clients_OK, Connected

(* The server ends, with its channel or by a panic. *)
LEMMA EndingKeepsStream ==
  ASSUME StreamTypeOK, Clients_OK, UNCHANGED config,
         Disconnected \/ \E c \in Clients : Panic(c)
  PROVE  StreamTypeOK' /\ Clients_OK'
<1>1. /\ server' = "gone" /\ backlog' = <<>>
      /\ conn' = [c \in Clients |->
                    IF conn[c] \in {"waiting", "admitted"} THEN "dropped" ELSE conn[c]]
      /\ UNCHANGED <<emitted, held, header, peer, served, got, joined>>
  BY DEF Disconnected, Panic, Ending
<1>2. conn \in [Clients -> States] BY DEF StreamTypeOK
<1>3. StreamTypeOK' BY <1>1, <1>2 DEF StreamTypeOK, States
<1>4. Connected' BY <1>1, <1>2 DEF Clients_OK, Connected, LetIn, Secret
<1>5. ASSUME NEW c \in Clients PROVE Delivered(c)'
  BY <1>1 DEF Clients_OK, Delivered
<1>6. CASE Disconnected
  <2>1. Ended' BY <1>1, <1>6 DEF Disconnected, Ended
  <2> QED BY <1>3, <1>4, <1>5, <2>1 DEF Clients_OK
<1>7. ASSUME NEW c \in Clients, Panic(c) PROVE StreamTypeOK' /\ Clients_OK'
  <2>1. /\ server = "header" /\ backlog # <<>> /\ c = Head(backlog)
        /\ config.mode # "local" /\ Sent(c) = Halved
    BY <1>7, PanicFacts DEF Panic, Answerable, StreamTypeOK
  <2>2. conn[c] = "waiting" /\ got[c] = <<>>
    <3>1. backlog \in Seq(Clients) /\ 1 \in DOMAIN backlog /\ backlog[1] = c
      BY <2>1 DEF StreamTypeOK
    <3> QED BY <3>1 DEF Clients_OK, Connected
  <2>3. header[c] = Halved BY <2>1, BearerConstants DEF Sent
  <2>4. conn'[c] = "dropped" BY <1>1, <2>2
  <2>5. Panicked' BY <1>1, <2>1, <2>2, <2>3, <2>4 DEF Panicked
  <2> QED BY <1>3, <1>4, <1>5, <2>5 DEF Clients_OK, Ended
<1> QED BY <1>6, <1>7

-----------------------------------------------------------------------------
(* Together *)

(* Every step keeps the stream sound. *)
LEMMA StreamStep ==
  ASSUME StreamSound, [Next]_vars
  PROVE  StreamSound'
<1>1. StreamTypeOK /\ Numbered /\ Clients_OK BY DEF StreamSound, Clients_OK
<1>2. Numbered' BY <1>1, NumberedStep
<1>3. StreamTypeOK' /\ Clients_OK'
  <2>1. CASE Tick
    <3>1. shared.latest.n \in Nat /\ Emit(shared.latest.n) /\ UNCHANGED config
      <4>1. Fresh /\ Emit(shared.latest.n) /\ UNCHANGED config BY <2>1 DEF Tick, PollTick, others
      <4> QED BY <1>1, <4>1 DEF Numbered, Shared, Fresh
    <3> QED BY <1>1, <3>1, EmitKeepsStream
  <2>2. CASE Close BY <1>1, <2>2, ReleaseKeepsStream DEF Close, others
  <2>3. CASE Stream_Step
    <3>1. Serve /\ UNCHANGED config BY <2>3 DEF Stream_Step, others
    <3>2. CASE Accept \/ Accept_Nobody \/ Timeout BY <1>1, <3>1, <3>2, TurnKeepsStream
    <3>3. ASSUME NEW c \in Clients, Admit(c) PROVE StreamTypeOK' /\ Clients_OK'
      BY <1>1, <3>1, <3>3, AdmitKeepsStream
    <3>4. ASSUME NEW c \in Clients, Refuse(c) PROVE StreamTypeOK' /\ Clients_OK'
      BY <1>1, <3>1, <3>4, RefuseKeepsStream
    <3>5. CASE Forward BY <1>1, <3>1, <3>5, ForwardKeepsStream
    <3>6. CASE Disconnected \/ \E c \in Clients : Panic(c)
      BY <1>1, <3>1, <3>6, EndingKeepsStream
    <3> QED BY <3>1, <3>2, <3>3, <3>4, <3>5, <3>6 DEF Serve
  <2>4. CASE Client_Step BY <1>1, <2>4, ClientsKeepStream DEF Client_Step, others
  <2>5. CASE Telemetry_Step \/ Request_Step \/ UNCHANGED vars
    <3>1. UNCHANGED <<emitted, held, header, peer, served, server, backlog, conn, got, joined, config>>
      BY <2>5 DEF Telemetry_Step, Request_Step, vars, others, streamVars, serverVars
    <3>2. StreamTypeOK' BY <1>1, <3>1 DEF StreamTypeOK
    <3>3. Connected' BY <1>1, <3>1 DEF Clients_OK, Connected, LetIn, Secret
    <3>4. ASSUME NEW c \in Clients PROVE Delivered(c)' BY <1>1, <3>1 DEF Clients_OK, Delivered
    <3>5. Ended' BY <1>1, <3>1 DEF Clients_OK, Ended, Panicked
    <3> QED BY <3>2, <3>3, <3>4, <3>5 DEF Clients_OK
  <2> QED BY <2>1, <2>2, <2>3, <2>4, <2>5 DEF Next
<1> QED BY <1>2, <1>3 DEF StreamSound, Clients_OK

(* Every client gets every event from its admission on, once, in order and  *)
(* whole, until it is dropped; while the server runs only who hangs up or   *)
(* does not read is dropped; the server ends with its channel, or because   *)
(* the check of a header has panicked; only who is let in gets anything;    *)
(* and the snapshots that are streamed are stored before and grow (serve,   *)
(* authorize_client, run_headless): for any number of clients and events.   *)
THEOREM StreamSoundHolds ==
  Spec => []StreamSound
<1>1. Init => StreamSound BY StreamInitial
<1>2. StreamSound /\ [Next]_vars => StreamSound' BY StreamStep
<1> QED BY <1>1, <1>2, PTL DEF Spec

-----------------------------------------------------------------------------
(* The pages *)

(* Collections that succeeded, among the first k of c. *)
GoodIn(c, k) == Cardinality({i \in 1 .. k : c[i] # NoSnapshot})

(* There are no more of them than collections, and none at first. *)
LEMMA GoodNat ==
  ASSUME NEW c, NEW k \in Nat
  PROVE  /\ IsFiniteSet({i \in 1 .. k : c[i] # NoSnapshot})
         /\ GoodIn(c, k) \in Nat /\ GoodIn(c, k) <= k /\ GoodIn(c, 0) = 0
<1> DEFINE S == {i \in 1 .. k : c[i] # NoSnapshot}
<1>1. IsFiniteSet(1 .. k) /\ Cardinality(1 .. k) = k
  BY FS_Interval
<1>2. S \subseteq 1 .. k
  OBVIOUS
<1>3. IsFiniteSet(S) /\ Cardinality(S) <= k
  BY <1>1, <1>2, FS_Subset
<1>4. Cardinality(S) \in Nat
  BY <1>3, FS_CardinalityType
<1>5. {i \in 1 .. 0 : c[i] # NoSnapshot} = {}
  OBVIOUS
<1>6. GoodIn(c, 0) = 0
  BY <1>5, FS_EmptySet DEF GoodIn
<1>7. QED
  BY <1>3, <1>4, <1>6 DEF GoodIn

(* One more collection counts if it succeeded. *)
LEMMA GoodNext ==
  ASSUME NEW c, NEW k \in Nat
  PROVE  GoodIn(c, k + 1) = IF c[k + 1] # NoSnapshot THEN GoodIn(c, k) + 1 ELSE GoodIn(c, k)
<1> DEFINE S == {i \in 1 .. k : c[i] # NoSnapshot}
           T == {i \in 1 .. k + 1 : c[i] # NoSnapshot}
<1>0. 1 .. k + 1 = (1 .. k) \cup {k + 1}
  OBVIOUS
<1>a. k + 1 \notin S
  OBVIOUS
<1>b. IsFiniteSet(S)
  BY GoodNat
<1>1. IsFiniteSet(S) /\ k + 1 \notin S
  BY <1>a, <1>b
<1>2. CASE c[k + 1] # NoSnapshot
  <2>1. T = S \cup {k + 1}
    BY <1>0, <1>2
  <2>2. Cardinality(T) = Cardinality(S) + 1
    BY <1>1, <2>1, FS_AddElement
  <2>3. QED
    BY <1>2, <2>2 DEF GoodIn
<1>3. CASE c[k + 1] = NoSnapshot
  <2>1. T = S
    BY <1>0, <1>3
  <2>2. QED
    BY <1>3, <2>1 DEF GoodIn
<1>4. QED
  BY <1>2, <1>3

(* Later collections change nothing about earlier ones. *)
LEMMA GoodSame ==
  ASSUME NEW c, NEW d, NEW k \in Nat, \A i \in 1 .. k : c[i] = d[i]
  PROVE  GoodIn(c, k) = GoodIn(d, k)
<1>1. {i \in 1 .. k : c[i] # NoSnapshot} = {i \in 1 .. k : d[i] # NoSnapshot}
  OBVIOUS
<1>2. QED
  BY <1>1 DEF GoodIn

(* Good is this count. *)
LEMMA GoodIs ==
  ASSUME NEW k
  PROVE  Good(k) = GoodIn(cycles, k)
  BY DEF Good, GoodIn

(* What a collection appends leaves the counts of those before it alone. *)
LEMMA GoodAppend ==
  ASSUME NEW S, NEW c \in Seq(S), NEW v, NEW k \in 0 .. Len(c)
  PROVE  GoodIn(Append(c, v), k) = GoodIn(c, k)
<1>1. k \in Nat /\ \A i \in 1 .. k : Append(c, v)[i] = c[i]
  OBVIOUS
<1>2. QED
  BY <1>1, GoodSame

(* The header that is checked is the one sent, or none. *)
LEMMA ReadIsLetIn ==
  ASSUME request.sent \in Asks \cup {Nothing},
         NEW ask \in FirstRead(request.sent), Authorized(ask.header)
  PROVE  LetIn(request.sent.header)
<1>1. LetIn(ask.header)
  BY DEF Authorized, BearerEquals, LetIn, Secret
<1>2. CASE ask = request.sent
  BY <1>1, <1>2
<1>3. CASE ask.header = NoSecret
  BY <1>1, <1>3 DEF LetIn
<1>4. ask = request.sent \/ ask.header = NoSecret
  BY AskConstants DEF FirstRead, Nothing
<1>5. QED
  BY <1>2, <1>3, <1>4

(* The worker keeps the types and the counters, the counts of earlier       *)
(* collections stay, and the number of good ones shared never falls.       *)
WorkerCounts ==
  /\ WorkerTypeOK' /\ CountersInv'
  /\ Len(cycles) \in Nat /\ Len(cycles') \in Nat /\ Len(cycles) <= Len(cycles')
  /\ \A k \in 0 .. Len(cycles) : GoodIn(cycles', k) = GoodIn(cycles, k)
  /\ shared.seq \in Nat /\ shared'.seq \in Nat /\ shared.seq <= shared'.seq

(* What is counted, in numbers. *)
LEMMA CountFacts ==
  ASSUME WorkerTypeOK, CountersInv
  PROVE  /\ Len(cycles) \in Nat /\ MaxCycles \in Nat /\ Len(cycles) <= MaxCycles
         /\ Counted \in Nat /\ Counted <= Len(cycles)
         /\ shared.seq \in Nat /\ shared.errors \in Nat
         /\ shared.seq + shared.errors = Counted
         /\ InHand => Counted + 1 = Len(cycles)
         /\ ~InHand => Counted = Len(cycles)
<1>1. Len(cycles) \in Nat /\ MaxCycles \in Nat /\ Len(cycles) <= MaxCycles
  BY WorkerConstants DEF WorkerTypeOK, CountersInv
<1>2. shared.seq \in Nat /\ shared.errors \in Nat
  BY DEF WorkerTypeOK
<1>3. InHand => Len(cycles) >= 1
  BY <1>1 DEF CountersInv, Snapshot
<1>4. Counted \in Nat /\ Counted <= Len(cycles) /\ (InHand => Counted + 1 = Len(cycles))
      /\ (~InHand => Counted = Len(cycles))
  BY <1>1, <1>3 DEF Counted
<1>5. Good(Counted) \in Nat
  BY <1>4, GoodIs, GoodNat
<1>6. shared.seq + shared.errors = Counted
  BY <1>2, <1>4, <1>5 DEF CountersInv
<1>7. QED
  BY <1>1, <1>2, <1>4, <1>6

(* A collection. *)
LEMMA CollectCounts ==
  ASSUME WorkerTypeOK, CountersInv, NEW value \in Values, NEW ts \in Times,
         Collect(value, ts), UNCHANGED seen
  PROVE  WorkerCounts
<1> DEFINE s == [n |-> Len(cycles) + 1, ts |-> ts, value |-> value]
<1>1. /\ worker' = "persist" /\ collected' = s /\ cycles' = Append(cycles, value)
      /\ stored' = stored /\ shared' = shared /\ seen' = seen
      /\ worker = "collect" /\ Len(cycles) < MaxCycles
  BY DEF Collect
<1>2. ~InHand /\ InHand'
  BY <1>1 DEF InHand
<1>3. s \in Snapshot /\ s.n = Len(cycles) + 1
  BY <1>1, CountFacts DEF Snapshot
<1> HIDE DEF s
<1>4. /\ cycles' \in Seq(Values \cup {NoSnapshot}) /\ Len(cycles') = Len(cycles) + 1
      /\ cycles'[Len(cycles')] # NoSnapshot
  BY <1>1, NoSnapshotIsNone DEF WorkerTypeOK
<1>5. \A k \in 0 .. Len(cycles) : GoodIn(cycles', k) = GoodIn(cycles, k)
  BY <1>1, GoodAppend DEF WorkerTypeOK
<1>6. WorkerTypeOK'
  BY <1>1, <1>3, <1>4 DEF WorkerTypeOK
<1>7. Counted' = Counted /\ Counted \in 0 .. Len(cycles)
  BY <1>2, <1>4, CountFacts DEF Counted
<1>8. Good(Counted)' = Good(Counted)
  BY <1>5, <1>7 DEF Good, GoodIn
<1>9. ASSUME shared'.seq > 0
      PROVE  /\ shared'.latest \in Snapshot /\ shared'.latest.n <= Counted'
             /\ Good(shared.latest.n)' = shared'.seq
  <2>1. /\ shared.latest \in Snapshot /\ shared.latest.n <= Counted
        /\ Good(shared.latest.n) = shared.seq
    BY <1>1, <1>9 DEF CountersInv
  <2>2. shared.latest.n \in 0 .. Len(cycles)
    BY <1>7, <2>1, CountFacts DEF Snapshot
  <2>3. Good(shared.latest.n)' = Good(shared.latest.n)
    BY <1>1, <1>5, <2>2 DEF Good, GoodIn
  <2>4. QED
    BY <1>1, <1>7, <2>1, <2>3
<1>10. CountersInv'
  BY <1>1, <1>2, <1>3, <1>4, <1>7, <1>8, <1>9, CountFacts DEF CountersInv
<1>11. QED
  BY <1>1, <1>4, <1>5, <1>6, <1>10, CountFacts DEF WorkerCounts

(* A collection that fails. *)
LEMMA CollectFailsCounts ==
  ASSUME WorkerTypeOK, CountersInv, Collect_Fails, UNCHANGED seen
  PROVE  WorkerCounts
<1>1. /\ worker' = "connectors" /\ collected' = collected /\ cycles' = Append(cycles, NoSnapshot)
      /\ stored' = stored /\ seen' = seen
      /\ shared' = [shared EXCEPT !.errors = shared.errors + 1, !.error = TRUE]
      /\ worker = "collect" /\ Len(cycles) < MaxCycles
  BY DEF Collect_Fails
<1>2. /\ shared'.seq = shared.seq /\ shared'.latest = shared.latest
      /\ shared'.errors = shared.errors + 1
  BY <1>1 DEF WorkerTypeOK
<1>3. ~InHand /\ ~InHand'
  BY <1>1 DEF InHand
<1>4. /\ cycles' \in Seq(Values \cup {NoSnapshot}) /\ Len(cycles') = Len(cycles) + 1
      /\ cycles'[Len(cycles) + 1] = NoSnapshot
  BY <1>1 DEF WorkerTypeOK
<1>5. \A k \in 0 .. Len(cycles) : GoodIn(cycles', k) = GoodIn(cycles, k)
  BY <1>1, GoodAppend DEF WorkerTypeOK
<1>6. shared.errors + 1 \in 0 .. MaxCycles
  BY <1>1, CountFacts
<1>7. WorkerTypeOK'
  BY <1>1, <1>4, <1>6 DEF WorkerTypeOK
<1>8. Counted = Len(cycles) /\ Counted' = Counted + 1 /\ Counted \in Nat
  BY <1>3, <1>4, CountFacts DEF Counted
<1>9. GoodIn(cycles', Counted + 1) = GoodIn(cycles, Counted)
  <2>1. cycles'[Counted + 1] = NoSnapshot
    BY <1>4, <1>8
  <2>2. GoodIn(cycles', Counted + 1) = GoodIn(cycles', Counted)
    BY <1>8, <2>1, GoodNext
  <2>3. QED
    BY <1>5, <1>8, <2>2
<1>10. Good(Counted)' = Good(Counted) /\ Good(Counted) \in Nat
  <2>1. Good(Counted)' = GoodIn(cycles', Counted + 1)
    BY <1>8 DEF Good, GoodIn
  <2>2. Good(Counted) \in Nat
    BY <1>8, GoodIs, GoodNat
  <2>3. QED
    BY <1>9, <2>1, <2>2, GoodIs
<1>11. ASSUME shared'.seq > 0
       PROVE  /\ shared'.latest \in Snapshot /\ shared'.latest.n <= Counted'
              /\ Good(shared.latest.n)' = shared'.seq
  <2>1. /\ shared.latest \in Snapshot /\ shared.latest.n <= Counted
        /\ Good(shared.latest.n) = shared.seq
    BY <1>2, <1>11 DEF CountersInv
  <2>2. shared.latest.n \in 0 .. Len(cycles)
    BY <1>8, <2>1, CountFacts DEF Snapshot
  <2>3. Good(shared.latest.n)' = Good(shared.latest.n)
    BY <1>2, <1>5, <2>2 DEF Good, GoodIn
  <2>4. QED
    BY <1>2, <1>8, <2>1, <2>2, <2>3
<1>12. shared'.seq = Good(Counted)' /\ shared'.errors = Counted' - Good(Counted)'
  <2>1. shared.seq = Good(Counted) /\ shared.errors = Counted - Good(Counted)
    BY DEF CountersInv
  <2>2. QED
    BY <1>2, <1>8, <1>10, <2>1
<1>13. CountersInv'
  BY <1>1, <1>3, <1>4, <1>11, <1>12, CountFacts DEF CountersInv
<1>14. QED
  BY <1>2, <1>4, <1>5, <1>7, <1>13, CountFacts DEF WorkerCounts

(* The snapshot goes to the store. *)
LEMMA PersistCounts ==
  ASSUME WorkerTypeOK, CountersInv, Persist, UNCHANGED seen
  PROVE  WorkerCounts
<1>1. /\ worker' = "publish" /\ collected' = collected /\ cycles' = cycles
      /\ stored' = collected.n /\ seen' = seen /\ shared' = shared /\ worker = "persist"
  BY DEF Persist
<1>2. InHand /\ InHand' /\ Counted' = Counted
  BY <1>1 DEF InHand, Counted
<1>3. stored' \in 0 .. MaxCycles
  BY <1>1, <1>2, CountFacts DEF CountersInv
<1>4. WorkerTypeOK'
  BY <1>1, <1>3 DEF WorkerTypeOK
<1>5. CountersInv'
  BY <1>1, <1>2 DEF CountersInv, Good
<1>6. QED
  BY <1>1, <1>4, <1>5, CountFacts DEF WorkerCounts

(* The snapshot is published. *)
LEMMA PublishCounts ==
  ASSUME WorkerTypeOK, CountersInv, Publish, UNCHANGED seen
  PROVE  WorkerCounts
<1>1. /\ worker' = "connectors" /\ collected' = NoSnapshot /\ cycles' = cycles
      /\ stored' = stored /\ seen' = seen /\ worker = "publish"
      /\ shared' = [shared EXCEPT !.seq = shared.seq + 1, !.latest = collected, !.error = FALSE]
  BY DEF Publish
<1>2. InHand /\ ~InHand'
  BY <1>1 DEF InHand
<1>3. /\ collected \in Snapshot /\ collected.n = Len(cycles)
      /\ cycles[Len(cycles)] # NoSnapshot
  BY <1>2 DEF CountersInv
<1>4. /\ shared'.seq = shared.seq + 1 /\ shared'.latest = collected
      /\ shared'.errors = shared.errors
  BY <1>1 DEF WorkerTypeOK
<1>5. Counted' = Counted + 1 /\ Counted + 1 = Len(cycles) /\ Counted \in Nat
  BY <1>1, <1>2, CountFacts DEF Counted
<1>6. shared.seq + 1 \in 0 .. MaxCycles
  BY <1>5, CountFacts
<1>7. WorkerTypeOK'
  BY <1>1, <1>3, <1>6 DEF WorkerTypeOK
<1>8. Good(Counted)' = Good(Counted) + 1 /\ Good(Counted) \in Nat
  <2>1. cycles[Counted + 1] # NoSnapshot
    BY <1>3, <1>5
  <2>2. GoodIn(cycles, Counted + 1) = GoodIn(cycles, Counted) + 1
    BY <1>5, <2>1, GoodNext
  <2>3. GoodIn(cycles, Counted) \in Nat
    BY <1>5, GoodNat
  <2>4. QED
    BY <1>1, <1>5, <2>2, <2>3 DEF Good, GoodIn
<1>9. shared'.seq = Good(Counted)' /\ shared'.errors = Counted' - Good(Counted)'
  <2>1. shared.seq = Good(Counted) /\ shared.errors = Counted - Good(Counted)
    BY DEF CountersInv
  <2>2. QED
    BY <1>4, <1>5, <1>8, <2>1
<1>10. /\ shared'.latest \in Snapshot /\ shared'.latest.n <= Counted'
       /\ Good(shared.latest.n)' = shared'.seq
  <2>1. shared'.latest.n = Counted'
    BY <1>3, <1>4, <1>5
  <2>2. Good(shared.latest.n)' = Good(Counted)'
    BY <2>1 DEF Good
  <2>3. QED
    BY <1>3, <1>4, <1>5, <1>9, <2>1, <2>2
<1>11. CountersInv'
  BY <1>1, <1>2, <1>9, <1>10 DEF CountersInv
<1>12. QED
  BY <1>1, <1>4, <1>7, <1>11, CountFacts DEF WorkerCounts

(* The connectors are polled. *)
LEMMA ConnectorsCounts ==
  ASSUME WorkerTypeOK, CountersInv, Connectors, UNCHANGED seen
  PROVE  WorkerCounts
<1>1. PICK due \in BOOLEAN : shared' = [shared EXCEPT !.polls = shared.polls \/ (HasConnectors /\ due)]
  BY DEF Connectors
<1>2. /\ worker' = "collect" /\ collected' = collected /\ cycles' = cycles
      /\ stored' = stored /\ seen' = seen /\ worker = "connectors"
  BY DEF Connectors
<1>3. (shared.polls \/ (HasConnectors /\ due)) \in BOOLEAN
  OBVIOUS
<1>4. /\ shared'.seq = shared.seq /\ shared'.latest = shared.latest
      /\ shared'.errors = shared.errors
  BY <1>1 DEF WorkerTypeOK
<1>5. WorkerTypeOK'
  BY <1>1, <1>2, <1>3 DEF WorkerTypeOK
<1>6. ~InHand /\ ~InHand' /\ Counted' = Counted
  BY <1>2 DEF InHand, Counted
<1>7. CountersInv'
  BY <1>2, <1>4, <1>6 DEF CountersInv, Good
<1>8. QED
  BY <1>2, <1>4, <1>5, <1>7, CountFacts DEF WorkerCounts

(* Every step of the worker. *)
LEMMA WorkerStepCounts ==
  ASSUME WorkerTypeOK, CountersInv, Worker
  PROVE  WorkerCounts
  BY CollectCounts, CollectFailsCounts, PersistCounts, PublishCounts, ConnectorsCounts DEF Worker

(* A page shows the counters of one moment. *)
OneMoment(page, c) ==
  \E k \in 0 .. Len(c) : page.cycles = GoodIn(c, k) /\ page.errors = k - GoodIn(c, k)

(* It shows a snapshot that is at least as new as its counters. *)
NewEnough(page, c) ==
  page.cycles > 0 =>
    /\ page.latest # NoSnapshot /\ page.latest.n <= Len(c)
    /\ GoodIn(c, page.latest.n) >= page.cycles

(* PageInv, in terms of the page and the collections. *)
PageParts ==
  /\ WorkerTypeOK /\ RequestTypeOK /\ CountersInv /\ BetweenInv
  /\ OneMoment(request.page, cycles)
  /\ request.phase = "done" /\ request.status = 200 =>
       /\ request.route = "health" \/ LetIn(request.sent.header)
       /\ request.route = "metrics" => NewEnough(request.page, cycles)

(* PageInv is these parts. *)
LEMMA PageIs == PageInv <=> PageParts
<1> DEFINE Answered == request.phase = "done" /\ request.status = 200
           Shows == Answered /\ request.route = "metrics" /\ request.page.cycles > 0
           Seen == /\ request.page.latest # NoSnapshot
                   /\ GoodIn(cycles, request.page.latest.n) >= request.page.cycles
<1>1. PageSound <=>
        /\ WorkerTypeOK /\ RequestTypeOK /\ OneMoment(request.page, cycles)
        /\ Shows => Seen
        /\ Answered => request.route = "health" \/ LetIn(request.sent.header)
  BY DEF PageSound, Good, GoodIn, OneMoment
<1>2. ShownInv <=> (Shows => request.page.latest.n <= Len(cycles))
  BY DEF ShownInv
<1>3. PageInv <=> PageSound /\ CountersInv /\ BetweenInv /\ ShownInv
  BY DEF PageInv
<1>4. NewEnough(request.page, cycles) <=>
        (request.page.cycles > 0 => Seen /\ request.page.latest.n <= Len(cycles))
  BY DEF NewEnough
<1>5. Shows <=> Answered /\ request.route = "metrics" /\ request.page.cycles > 0
  OBVIOUS
<1> HIDE DEF Shows, Seen
<1>6. QED
  BY <1>1, <1>2, <1>3, <1>4, <1>5 DEF PageParts

(* The same after a step. *)
LEMMA PageNextIs ==
  PageInv' <=>
    /\ WorkerTypeOK' /\ RequestTypeOK' /\ CountersInv' /\ BetweenInv'
    /\ OneMoment(request'.page, cycles')
    /\ request'.phase = "done" /\ request'.status = 200 =>
         /\ request'.route = "health" \/ LetIn(request.sent.header)'
         /\ request'.route = "metrics" => NewEnough(request'.page, cycles')
<1>1. PageInv' <=> PageParts'
  BY PageIs, PTL
<1>2. QED
  BY <1>1 DEF PageParts

(* More collections take nothing back from what a page shows.              *)
LEMMA PagesStay ==
  ASSUME WorkerTypeOK, RequestTypeOK, WorkerCounts
  PROVE  /\ OneMoment(request.page, cycles) => OneMoment(request.page, cycles')
         /\ NewEnough(request.page, cycles) => NewEnough(request.page, cycles')
<1>1. /\ Len(cycles) \in Nat /\ Len(cycles') \in Nat /\ Len(cycles) <= Len(cycles')
      /\ \A k \in 0 .. Len(cycles) : GoodIn(cycles', k) = GoodIn(cycles, k)
  BY DEF WorkerCounts
<1>2. ASSUME OneMoment(request.page, cycles) PROVE OneMoment(request.page, cycles')
  <2>1. PICK k \in 0 .. Len(cycles) :
          request.page.cycles = GoodIn(cycles, k) /\ request.page.errors = k - GoodIn(cycles, k)
    BY <1>2 DEF OneMoment
  <2>2. k \in 0 .. Len(cycles') /\ GoodIn(cycles', k) = GoodIn(cycles, k)
    BY <1>1
  <2>3. QED
    BY <2>1, <2>2 DEF OneMoment
<1>3. ASSUME NewEnough(request.page, cycles) PROVE NewEnough(request.page, cycles')
  <2>1. SUFFICES ASSUME request.page.cycles > 0
                 PROVE  /\ request.page.latest # NoSnapshot
                        /\ request.page.latest.n <= Len(cycles')
                        /\ GoodIn(cycles', request.page.latest.n) >= request.page.cycles
    BY DEF NewEnough
  <2>2. /\ request.page.latest # NoSnapshot /\ request.page.latest.n <= Len(cycles)
        /\ GoodIn(cycles, request.page.latest.n) >= request.page.cycles
    BY <1>3, <2>1 DEF NewEnough
  <2>3. request.page.latest.n \in 0 .. Len(cycles)
    BY <1>1, <2>2 DEF RequestTypeOK, Snapshot
  <2>4. request.page.latest.n <= Len(cycles') /\ GoodIn(cycles', request.page.latest.n) =
          GoodIn(cycles, request.page.latest.n)
    BY <1>1, <2>2, <2>3
  <2>5. QED
    BY <2>2, <2>4
<1>4. QED
  BY <1>2, <1>3

(* The invariant holds at the start. *)
LEMMA PageInitial == Init => PageInv
<1> SUFFICES ASSUME Init PROVE PageInv
  OBVIOUS
<1>1. /\ worker = "collect" /\ collected = NoSnapshot /\ shared = NoShared /\ seen = 0
      /\ cycles = <<>> /\ stored = 0 /\ request = Request("none", Nothing)
  BY DEF Init, WorkerInit, RequestInit
<1>2. MaxCycles \in Nat /\ Len(cycles) = 0
  BY <1>1, WorkerConstants
<1>3. WorkerTypeOK
  BY <1>1, <1>2 DEF WorkerTypeOK, NoShared
<1>4. RequestTypeOK
  BY <1>1, <1>2 DEF RequestTypeOK, Request, NoPage, Routes
<1>5. GoodIn(cycles, 0) = 0
  BY GoodNat
<1>6. CountersInv
  <2>1. ~InHand /\ Counted = 0
    BY <1>1, <1>2 DEF InHand, Counted
  <2>2. QED
    BY <1>1, <1>2, <1>5, <2>1, GoodIs DEF CountersInv, NoShared
<1>7. BetweenInv
  BY <1>1 DEF BetweenInv, Request
<1>8. OneMoment(request.page, cycles)
  <2>1. request.page.cycles = 0 /\ request.page.errors = 0
    BY <1>1 DEF Request, NoPage
  <2>2. 0 \in 0 .. Len(cycles) /\ request.page.cycles = GoodIn(cycles, 0)
        /\ request.page.errors = 0 - GoodIn(cycles, 0)
    BY <1>2, <1>5, <2>1
  <2>3. QED
    BY <2>2 DEF OneMoment
<1>9. request.phase # "done"
  BY <1>1 DEF Request
<1>10. QED
  BY <1>3, <1>4, <1>6, <1>7, <1>8, <1>9, PageIs DEF PageParts

(* A step of the worker. *)
LEMMA WorkerKeepsPages ==
  ASSUME PageInv, Telemetry_Step
  PROVE  PageInv'
<1>1. /\ WorkerTypeOK /\ RequestTypeOK /\ CountersInv /\ BetweenInv
      /\ OneMoment(request.page, cycles)
      /\ request.phase = "done" /\ request.status = 200 =>
           /\ request.route = "health" \/ LetIn(request.sent.header)
           /\ request.route = "metrics" => NewEnough(request.page, cycles)
  BY PageIs DEF PageParts
<1>2. Worker /\ request' = request /\ config' = config
  BY DEF Telemetry_Step, others
<1>3. WorkerCounts
  BY <1>1, <1>2, WorkerStepCounts
<1>4. WorkerTypeOK' /\ CountersInv'
  BY <1>3 DEF WorkerCounts
<1>5. RequestTypeOK'
  BY <1>1, <1>2 DEF RequestTypeOK
<1>6. BetweenInv'
  <2>1. SUFFICES ASSUME request.phase = "counters"
                 PROVE  /\ request.route = "metrics" /\ LetIn(request.sent.header)'
                        /\ request.page.cycles <= shared'.seq
    BY <1>2 DEF BetweenInv
  <2>2. /\ request.route = "metrics" /\ LetIn(request.sent.header)
        /\ request.page.cycles <= shared.seq
    BY <1>1, <2>1 DEF BetweenInv
  <2>3. shared.seq \in Nat /\ shared'.seq \in Nat /\ shared.seq <= shared'.seq
    BY <1>3 DEF WorkerCounts
  <2>4. request.page.cycles \in Nat
    BY <1>1, WorkerConstants DEF RequestTypeOK
  <2>5. request.page.cycles <= shared'.seq
    BY <2>2, <2>3, <2>4
  <2>6. QED
    BY <1>2, <2>2, <2>5 DEF LetIn, Secret
<1>7. OneMoment(request.page, cycles')
  BY <1>1, <1>3, PagesStay
<1>8. request.phase = "done" /\ request.status = 200 =>
        /\ request.route = "health" \/ LetIn(request.sent.header)'
        /\ request.route = "metrics" => NewEnough(request.page, cycles')
  <2>1. LetIn(request.sent.header)' <=> LetIn(request.sent.header)
    BY <1>2 DEF LetIn, Secret
  <2>2. QED
    BY <1>1, <1>3, <2>1, PagesStay
<1>9. QED
  BY <1>2, <1>4, <1>5, <1>6, <1>7, <1>8, PageNextIs

(* A step that changes nothing but the tick that has been seen. *)
LEMMA OthersKeepPages ==
  ASSUME PageInv, seen' \in 0 .. MaxCycles, UNCHANGED <<workerVars, shared, request, config>>
  PROVE  PageInv'
<1>1. UNCHANGED <<worker, collected, cycles, stored, shared, request, config>>
  BY DEF workerVars
<1>2. WorkerTypeOK'
  BY <1>1 DEF PageInv, PageSound, WorkerTypeOK
<1>3. RequestTypeOK'
  BY <1>1 DEF PageInv, PageSound, RequestTypeOK
<1>4. CountersInv' /\ BetweenInv'
  BY <1>1 DEF PageInv, CountersInv, BetweenInv, InHand, Counted, Good, LetIn, Secret
<1>5. LetIn(request.sent.header)' <=> LetIn(request.sent.header)
  BY <1>1 DEF LetIn, Secret
<1>6. QED
  BY <1>1, <1>2, <1>3, <1>4, <1>5, PageIs, PageNextIs DEF PageParts

(* What a step of a request needs for the invariant to hold afterwards. *)
LEMMA RequestKeepsPages ==
  ASSUME PageInv, UNCHANGED <<telemetry, config>>, RequestTypeOK',
         OneMoment(request'.page, cycles),
         request'.phase = "counters" =>
           /\ request'.route = "metrics" /\ LetIn(request'.sent.header)
           /\ request'.page.cycles <= shared.seq,
         request'.phase = "done" /\ request'.status = 200 =>
           /\ request'.route = "health" \/ LetIn(request'.sent.header)
           /\ request'.route = "metrics" => NewEnough(request'.page, cycles)
  PROVE  PageInv'
<1>1. UNCHANGED <<worker, collected, cycles, stored, shared, seen, config>>
  BY DEF telemetry, workerVars
<1>2. WorkerTypeOK' /\ CountersInv'
  BY <1>1 DEF PageInv, PageSound, WorkerTypeOK, CountersInv, InHand, Counted, Good
<1>3. LetIn(request.sent.header)' <=> LetIn(request'.sent.header)
  BY <1>1 DEF LetIn, Secret
<1>4. BetweenInv'
  BY <1>1, <1>3 DEF BetweenInv
<1>5. QED
  BY <1>1, <1>2, <1>3, <1>4, PageNextIs

(* The counters that are read are those of the collections counted. *)
LEMMA CountersRead ==
  ASSUME PageInv
  PROVE  /\ Counters(request.page).cycles = shared.seq
         /\ Counters(request.page).latest = request.page.latest
         /\ OneMoment(Counters(request.page), cycles)
         /\ Counters(request.page) \in [cycles : 0 .. MaxCycles, errors : 0 .. MaxCycles,
                                        latest : Snapshot \cup {NoSnapshot}]
<1>1. WorkerTypeOK /\ RequestTypeOK /\ CountersInv
  BY DEF PageInv, PageSound
<1> DEFINE page == Counters(request.page)
<1>2. /\ page.cycles = shared.seq /\ page.errors = shared.errors
      /\ page.latest = request.page.latest
      /\ page \in [cycles : 0 .. MaxCycles, errors : 0 .. MaxCycles,
                   latest : Snapshot \cup {NoSnapshot}]
  BY <1>1 DEF Counters, RequestTypeOK, WorkerTypeOK
<1> HIDE DEF page
<1>3. Counted \in 0 .. Len(cycles)
  BY <1>1, CountFacts
<1>4. shared.seq = GoodIn(cycles, Counted) /\ shared.errors = Counted - GoodIn(cycles, Counted)
  BY <1>1, GoodIs DEF CountersInv
<1>5. OneMoment(page, cycles)
  BY <1>2, <1>3, <1>4 DEF OneMoment
<1>6. QED
  BY <1>2, <1>5 DEF page

(* What is read of a request is a request. *)
LEMMA ReadIsAsk ==
  ASSUME request.sent \in Asks \cup {Nothing}, NEW ask \in FirstRead(request.sent)
  PROVE  ask.route \in Routes \cup {"none"}
  BY AskConstants DEF FirstRead, Nothing, Routes

(* The next request. *)
LEMMA AskKeepsPages ==
  ASSUME PageInv, NEW ask \in Asks, Ask(ask), UNCHANGED <<telemetry, config>>
  PROVE  PageInv'
<1>1. request' = Request("sent", ask)
  BY DEF Ask
<1>2. MaxCycles \in Nat
  BY WorkerConstants
<1>3. RequestTypeOK'
  BY <1>1, <1>2 DEF RequestTypeOK, Request, NoPage, Routes
<1>4. OneMoment(request'.page, cycles)
  <2>1. request'.page.cycles = 0 /\ request'.page.errors = 0
    BY <1>1 DEF Request, NoPage
  <2>2. GoodIn(cycles, 0) = 0
    BY GoodNat
  <2>3. Len(cycles) \in Nat
    BY DEF PageInv, PageSound, WorkerTypeOK
  <2>4. QED
    BY <2>1, <2>2, <2>3 DEF OneMoment
<1>5. request'.phase = "sent"
  BY <1>1 DEF Request
<1>6. QED
  BY <1>3, <1>4, <1>5, RequestKeepsPages

(* A request is the record of its fields. *)
LEMMA RequestFields ==
  ASSUME PageInv
  PROVE  request = [phase |-> request.phase, sent |-> request.sent, route |-> request.route,
                    status |-> request.status, page |-> request.page]
<1>1. RequestTypeOK
  BY DEF PageInv, PageSound
<1>2. QED
  BY <1>1 DEF RequestTypeOK

(* Whom a first read lets in, and what it asks for. *)
LEMMA ReadFacts ==
  ASSUME PageInv, NEW ask \in FirstRead(request.sent)
  PROVE  /\ ask.route \in Routes \cup {"none"}
         /\ Status(ask) \in {0, 200, 401, 404, 405}
         /\ Status(ask) = 200 => ask.route = "health" \/ LetIn(request.sent.header)
<1>1. request.sent \in Asks \cup {Nothing}
  BY DEF PageInv, PageSound, RequestTypeOK
<1>2. Status(ask) = 200 => ask.route = "health" \/ Authorized(ask.header)
  BY DEF Status
<1>3. Status(ask) \in {0, 200, 401, 404, 405}
  BY DEF Status
<1>4. QED
  BY <1>1, <1>2, <1>3, ReadIsAsk, ReadIsLetIn

(* An answer without a page. *)
LEMMA AnswerKeepsPages ==
  ASSUME PageInv, Answer, UNCHANGED <<telemetry, config>>
  PROVE  PageInv'
<1>1. PICK ask \in FirstRead(request.sent) :
        /\ Status(ask) = 200 => ask.route \notin {"health", "metrics"}
        /\ request' = [request EXCEPT !.phase = "done", !.route = ask.route, !.status = Status(ask)]
  BY DEF Answer
<1>2. request' = [phase |-> "done", sent |-> request.sent, route |-> ask.route,
                  status |-> Status(ask), page |-> request.page]
  BY <1>1, RequestFields
<1>3. RequestTypeOK'
  <2>1. ask.route \in Routes \cup {"none"} /\ Status(ask) \in {0, 200, 401, 404, 405}
    BY ReadFacts
  <2>2. QED
    BY <1>2, <2>1 DEF PageInv, PageSound, RequestTypeOK
<1>4. OneMoment(request'.page, cycles)
  BY <1>2, PageIs DEF PageParts
<1>5. request'.phase = "done" /\ request'.route = ask.route /\ request'.sent = request.sent
      /\ request'.status = Status(ask)
  BY <1>2
<1>6. QED
  BY <1>1, <1>3, <1>4, <1>5, ReadFacts, RequestKeepsPages

(* The health check. *)
LEMMA HealthKeepsPages ==
  ASSUME PageInv, Health, UNCHANGED <<telemetry, config>>
  PROVE  PageInv'
<1>1. PICK ask \in FirstRead(request.sent) :
        /\ Status(ask) = 200 /\ ask.route = "health"
        /\ request' = [request EXCEPT !.phase = "done", !.route = ask.route, !.status = 200,
                                      !.page = Counters(request.page)]
  BY DEF Health
<1>2. request' = [phase |-> "done", sent |-> request.sent, route |-> "health",
                  status |-> 200, page |-> Counters(request.page)]
  BY <1>1, RequestFields
<1>3. RequestTypeOK'
  <2>1. request.sent \in Asks \cup {Nothing} /\ "health" \in Routes
    BY DEF PageInv, PageSound, RequestTypeOK, Routes
  <2>2. QED
    BY <1>2, <2>1, CountersRead DEF RequestTypeOK
<1>4. OneMoment(request'.page, cycles)
  BY <1>2, CountersRead
<1>5. request'.phase = "done" /\ request'.route = "health"
  BY <1>2
<1>6. QED
  BY <1>3, <1>4, <1>5, RequestKeepsPages

(* The first read of the metrics. *)
LEMMA MetricsCountersKeepsPages ==
  ASSUME PageInv, Metrics_Counters, UNCHANGED <<telemetry, config>>
  PROVE  PageInv'
<1>1. PICK ask \in FirstRead(request.sent) :
        /\ Status(ask) = 200 /\ ask.route = "metrics"
        /\ request' = [request EXCEPT !.phase = "counters", !.route = ask.route,
                                      !.page = Counters(request.page)]
  BY DEF Metrics_Counters
<1>2. request' = [phase |-> "counters", sent |-> request.sent, route |-> "metrics",
                  status |-> request.status, page |-> Counters(request.page)]
  BY <1>1, RequestFields
<1>3. RequestTypeOK'
  <2>1. /\ request.sent \in Asks \cup {Nothing} /\ "metrics" \in Routes
        /\ request.status \in {0, 200, 401, 404, 405}
    BY DEF PageInv, PageSound, RequestTypeOK, Routes
  <2>2. QED
    BY <1>2, <2>1, CountersRead DEF RequestTypeOK
<1>4. OneMoment(request'.page, cycles)
  BY <1>2, CountersRead
<1>5. /\ request'.phase = "counters" /\ request'.route = "metrics"
      /\ request'.sent = request.sent /\ request'.page = Counters(request.page)
  BY <1>2
<1>6. request'.page.cycles <= shared.seq /\ LetIn(request'.sent.header)
  <2>1. request'.page.cycles = shared.seq /\ shared.seq \in Nat
    BY <1>5, CountersRead DEF PageInv, PageSound, WorkerTypeOK
  <2>2. LetIn(request.sent.header)
    BY <1>1, ReadFacts
  <2>3. QED
    BY <1>5, <2>1, <2>2
<1>7. QED
  BY <1>3, <1>4, <1>5, <1>6, RequestKeepsPages

(* The second read of the metrics. *)
LEMMA MetricsLatestKeepsPages ==
  ASSUME PageInv, Metrics_Latest, UNCHANGED <<telemetry, config>>
  PROVE  PageInv'
<1>1. /\ request.phase = "counters"
      /\ request' = [request EXCEPT !.phase = "done", !.status = 200,
                                    !.page = [request.page EXCEPT !.latest = shared.latest]]
  BY DEF Metrics_Latest
<1>2. WorkerTypeOK /\ RequestTypeOK /\ CountersInv /\ BetweenInv
  BY DEF PageInv, PageSound
<1> DEFINE page == [request.page EXCEPT !.latest = shared.latest]
<1>3. /\ page.cycles = request.page.cycles /\ page.errors = request.page.errors
      /\ page.latest = shared.latest
      /\ page \in [cycles : 0 .. MaxCycles, errors : 0 .. MaxCycles,
                   latest : Snapshot \cup {NoSnapshot}]
  BY <1>2 DEF RequestTypeOK, WorkerTypeOK
<1>4. request' = [phase |-> "done", sent |-> request.sent, route |-> request.route,
                  status |-> 200, page |-> page]
  BY <1>1, <1>2 DEF RequestTypeOK
<1> HIDE DEF page
<1>5. RequestTypeOK'
  BY <1>2, <1>3, <1>4 DEF RequestTypeOK
<1>6. OneMoment(page, cycles)
  <2>1. OneMoment(request.page, cycles)
    BY PageIs DEF PageParts
  <2>2. QED
    BY <1>3, <2>1 DEF OneMoment
<1>7. LetIn(request.sent.header) /\ request.page.cycles <= shared.seq
  BY <1>1, <1>2 DEF BetweenInv
<1>8. NewEnough(page, cycles)
  <2>1. SUFFICES ASSUME page.cycles > 0
                 PROVE  /\ page.latest # NoSnapshot /\ page.latest.n <= Len(cycles)
                        /\ GoodIn(cycles, page.latest.n) >= page.cycles
    BY DEF NewEnough
  <2>2. page.cycles \in Nat /\ page.cycles <= shared.seq /\ shared.seq \in Nat
    BY <1>2, <1>3, <1>7, WorkerConstants DEF RequestTypeOK, WorkerTypeOK
  <2>3. shared.seq > 0
    BY <2>1, <2>2
  <2>4. /\ shared.latest \in Snapshot /\ shared.latest.n <= Counted
        /\ GoodIn(cycles, shared.latest.n) = shared.seq
    BY <1>2, <2>3, GoodIs DEF CountersInv
  <2>5. shared.latest # NoSnapshot
    BY <2>4, NoSnapshotIsNone
  <2>6. shared.latest.n <= Len(cycles)
    <3>1. shared.latest.n \in Nat
      BY <2>4 DEF Snapshot
    <3>2. Counted \in Nat /\ Counted <= Len(cycles) /\ Len(cycles) \in Nat
      BY <1>2, CountFacts
    <3>3. QED
      BY <2>4, <3>1, <3>2
  <2>7. QED
    BY <1>3, <2>2, <2>4, <2>5, <2>6
<1>9. request'.phase = "done" /\ request'.page = page /\ request'.sent = request.sent
  BY <1>4
<1>10. QED
  BY <1>5, <1>6, <1>7, <1>8, <1>9, RequestKeepsPages

(* Every step keeps the invariant. *)
LEMMA PageStep ==
  ASSUME PageInv, [Next]_vars
  PROVE  PageInv'
<1>1. CASE Telemetry_Step
  BY <1>1, WorkerKeepsPages
<1>2. CASE Tick
  <2>1. seen' = shared.seq /\ UNCHANGED <<workerVars, shared, request, config>>
    BY <1>2 DEF Tick, PollTick, others
  <2>2. seen' \in 0 .. MaxCycles
    BY <2>1 DEF PageInv, PageSound, WorkerTypeOK
  <2>3. QED
    BY <2>1, <2>2, OthersKeepPages
<1>3. CASE Close \/ Stream_Step \/ Client_Step \/ UNCHANGED vars
  <2>1. seen' = seen /\ UNCHANGED <<workerVars, shared, request, config>>
    BY <1>3 DEF Close, Stream_Step, Client_Step, vars, telemetry, others
  <2>2. seen' \in 0 .. MaxCycles
    BY <2>1 DEF PageInv, PageSound, WorkerTypeOK
  <2>3. QED
    BY <2>1, <2>2, OthersKeepPages
<1>4. CASE Request_Step
  <2>1. Requests /\ UNCHANGED <<telemetry, config>>
    BY <1>4 DEF Request_Step
  <2>2. QED
    BY <2>1, AskKeepsPages, AnswerKeepsPages, HealthKeepsPages, MetricsCountersKeepsPages,
       MetricsLatestKeepsPages DEF Requests
<1>5. QED
  BY <1>1, <1>2, <1>3, <1>4 DEF Next

(* The counters that are shared are those of the collections, and a page    *)
(* between its two reads is behind them (run_worker, prometheus).          *)
THEOREM PageInvariantHolds ==
  Spec => []PageInv
<1>1. Init => PageInv
  BY PageInitial
<1>2. PageInv /\ [Next]_vars => PageInv'
  BY PageStep
<1>3. QED
  BY <1>1, <1>2, PTL DEF Spec

(* A page of metrics shows the counters of one moment and a snapshot that   *)
(* is at least as new, and nothing but the health check is answered to      *)
(* somebody who is not let in (handle, prometheus): for any requests, and   *)
(* any number of collections.                                              *)
THEOREM PageSoundHolds ==
  Spec => []PageSound
<1>1. PageInv => PageSound
  BY DEF PageInv
<1>2. QED
  BY <1>1, PageInvariantHolds, PTL

=============================================================================
