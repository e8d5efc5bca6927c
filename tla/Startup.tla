------------------------------ MODULE Startup ------------------------------
(***************************************************************************)
(* Starting and ending the dashboard: the profile files are applied to the *)
(* environment, the environment becomes a configuration or an error        *)
(* (src/main.rs, src/core/config.rs), and the helper is started inside the *)
(* process or as a process of its own, found by its socket file and asked  *)
(* for its health (src/security/helper.rs). The dashboard ends in order or *)
(* is killed, and a later start may meet what an earlier one has left: the *)
(* name of the socket is made of the process id, which is used again here  *)
(* by every start.                                                         *)
(***************************************************************************)
EXTENDS Naturals, Sequences

CONSTANTS
  Launches,    \* what the program is started with: [environ, profile, overlay]
  MaxStarts,   \* bound: starts of the dashboard
  MaxDeaths,   \* bound: helpers that die of themselves
  NONE

(* What a variable MANTICORE_... may be set to; it need not be set.  A      *)
(* setting that is only clamped or replaced by its default is left out.    *)
Values ==
  [privileged |-> {"on", "off", "bad"}, helperMode |-> {"embedded", "subprocess", "bad"},
   authMode |-> {"local", "token", "evrus", "bad"}, role |-> {"viewer", "operator", "admin", "bad"},
   token |-> {"short", "long"}, issuedAt |-> {"number", "bad"},
   ttl |-> {"inRange", "outOfRange", "bad"}, grace |-> {"inRange", "outOfRange", "bad"},
   refresh |-> {"inRange", "outOfRange", "bad"}, evrus |-> {"on", "off", "bad"},
   jwt |-> {"blank", "given"}, eventStream |-> {"on", "off", "bad"}, eventPort |-> {"number", "bad"},
   peerweave |-> {"on", "off", "bad"}, publish |-> {"on", "off", "bad"}, space |-> {"blank", "given"},
   anchor |-> {"on", "off", "bad"}, rpc |-> {"complete"},  \* address, user and password
   obsBind |-> {"loopback", "other"}, allowedUid |-> {"own", "other", "bad"}]
Settings == DOMAIN Values

IsEnvironment(e) == DOMAIN e \subseteq Settings /\ \A s \in DOMAIN e : e[s] \in Values[s]

IsFile(lines) ==
  /\ Len(lines) \in Nat /\ DOMAIN lines = 1 .. Len(lines)
  /\ \A i \in DOMAIN lines : lines[i].key \in Settings /\ lines[i].value \in Values[lines[i].key]

ASSUME StartupConstants ==
  /\ MaxStarts \in Nat /\ MaxDeaths \in Nat /\ NONE \notin Nat
  /\ \A l \in Launches : /\ IsEnvironment(l.environ) /\ IsFile(l.overlay)
                         /\ l.profile = NONE \/ IsFile(l.profile)  \* NONE: no such file

VARIABLES
  launch,      \* what this start of the program is started with
  env,         \* its environment after the profile was applied
  config,      \* RuntimeConfig
  phase,       \* of the dashboard; "off" if it does not run
  start,       \* the number of this start, which is its helper's name too
  helpers,     \* of every start
  socket       \* whose listener the socket file belongs to; NONE if there is no file

(* History, for the properties and the bounds. *)
VARIABLES
  ended,       \* how each start ended: "failed", "orderly" or "killed"
  deaths

vars == <<launch, env, config, phase, start, helpers, socket, ended, deaths>>

Phases == {"off", "loaded", "waiting", "checking", "asking", "started", "running"}
HelperPhases == {"spawned", "bound", "listening", "serving", "dead"}
Alive == HelperPhases \ {"dead"}
Capabilities == {"KillProcess", "ReniceProcess"}

TypeOK ==
  /\ launch \in Launches \cup {NONE} /\ IsEnvironment(env) /\ phase \in Phases
  /\ config = NONE \/ config.warnings \subseteq {"SSE", "Observability"}
  /\ start \in 0 .. MaxStarts /\ DOMAIN helpers \subseteq 1 .. start
  /\ \A n \in DOMAIN helpers :
       helpers[n] \in [phase : HelperPhases, caps : SUBSET Capabilities,
                       uid : Values.allowedUid, embedded : BOOLEAN]
  /\ socket \in DOMAIN helpers \cup {NONE}
  /\ ended \in Seq({"failed", "orderly", "killed"})
  /\ Len(ended) = IF phase = "off" THEN start ELSE start - 1
  /\ deaths \in 0 .. MaxDeaths

Init ==
  /\ launch = NONE /\ env = <<>> /\ config = NONE
  /\ phase = "off" /\ start = 0 /\ helpers = <<>> /\ socket = NONE
  /\ ended = <<>> /\ deaths = 0

-----------------------------------------------------------------------------
(* load_profile_env, load_runtime_config *)

Put(l, e) == [s \in DOMAIN e \cup {l.key} |-> IF s = l.key THEN l.value ELSE e[s]]

(* Mutant: a profile takes precedence over the environment. *)
Apply_Overwrites(lines, overwrite, e) ==
  LET after[i \in 0 .. Len(lines)] == IF i = 0 THEN e ELSE Put(lines[i], after[i - 1])
  IN after[Len(lines)]

(* apply_env_file: the lines in turn. *)
Apply(lines, overwrite, e) ==
  LET after[i \in 0 .. Len(lines)] ==
        IF i = 0 THEN e
        ELSE IF ~overwrite /\ lines[i].key \in DOMAIN after[i - 1] THEN after[i - 1]
        ELSE Put(lines[i], after[i - 1])
  IN after[Len(lines)]

WithProfile(l) == Apply(l.overlay, TRUE, Apply(l.profile, FALSE, l.environ))

Is(e, s, value) == s \in DOMAIN e /\ e[s] = value

Get(e, s, default) == IF s \in DOMAIN e THEN e[s] ELSE default

Needs(e, s, value) == ~Is(e, s, value)

May(e, s, value) == s \in DOMAIN e /\ e[s] # value

(* load_connector_config, and the AnchorConfig that new makes of it. *)
Connected(e) ==
  [publishing |-> IF ~Is(e, "peerweave", "on") \/ ~Is(e, "publish", "on") THEN "off"
                  ELSE IF Is(e, "space", "given") THEN "on" ELSE "unset",
   identity   |-> Is(e, "evrus", "on") /\ Is(e, "jwt", "given"),
   anchoring  |-> Is(e, "evrus", "on") /\ Is(e, "anchor", "on") /\ "rpc" \in DOMAIN e]

(* The settings that are checked; a mistake in another one is not seen. *)
LoadFails(e) ==
  \/ \E s \in {"privileged", "helperMode", "authMode", "role"} : Is(e, s, "bad")
  \/ May(e, "refresh", "inRange")
  \/ /\ Get(e, "authMode", "local") = "token"
     /\ \/ Needs(e, "token", "long") \/ Needs(e, "issuedAt", "number") \/ Needs(e, "ttl", "inRange")
        \/ May(e, "grace", "inRange")
  \/ Get(e, "authMode", "local") = "evrus" /\ ~Connected(e).identity

Role(e) == Get(e, "role", IF Is(e, "privileged", "on") THEN "admin" ELSE "viewer")

Loaded(e) ==
  [privileged  |-> Is(e, "privileged", "on"),
   helperMode  |-> Get(e, "helperMode", "embedded"),
   authMode    |-> Get(e, "authMode", "local"),
   role        |-> Role(e),
   connectors  |-> Connected(e),
   eventStream |-> IF ~Is(e, "eventStream", "on") THEN "off"
                   ELSE IF Is(e, "eventPort", "number") THEN "given" ELSE "default",
   warnings    |-> {w \in {"SSE", "Observability"} :
                      \/ w = "SSE" /\ Is(e, "eventStream", "on") /\ Is(e, "eventPort", "bad")
                      \/ w = "Observability" /\ Is(e, "obsBind", "other")}]

-----------------------------------------------------------------------------
(* main and SentinelDashboard::new, which go on from the one to the other   *)

Goto(p) == phase' = p /\ UNCHANGED <<launch, env, config, start, ended>>

(* The process is gone, and an embedded helper with it. *)
Ends(how) ==
  /\ phase' = "off" /\ launch' = NONE /\ env' = <<>> /\ config' = NONE
  /\ ended' = Append(ended, how)
  /\ UNCHANGED start

WithoutEmbedded(hs) ==
  [n \in DOMAIN hs |-> IF hs[n].embedded THEN [hs[n] EXCEPT !.phase = "dead"] ELSE hs[n]]

(* A process id is not used again while a helper that its process has       *)
(* spawned has still to bind its socket.                                   *)
Main(l) ==
  /\ phase = "off" /\ start < MaxStarts
  /\ \A n \in DOMAIN helpers : helpers[n].phase # "spawned"
  /\ start' = start + 1
  /\ IF l.profile = NONE \/ LoadFails(WithProfile(l))
     THEN ended' = Append(ended, "failed") /\ UNCHANGED <<launch, env, config, phase>>
     ELSE /\ launch' = l /\ env' = WithProfile(l) /\ config' = Loaded(env')
          /\ phase' = "loaded"
          /\ UNCHANGED ended
  /\ UNCHANGED <<helpers, socket, deaths>>

Granted(c) == IF c.privileged THEN Capabilities ELSE {}

NewHelper(p, embedded) ==
  [phase |-> p, caps |-> Granted(config), uid |-> Get(env, "allowedUid", "own"), embedded |-> embedded]

WithHelper(h) == [n \in DOMAIN helpers \cup {start} |-> IF n = start THEN h ELSE helpers[n]]

(* start_embedded: HelperServer::spawn. A user id that is not a number is   *)
(* an error after the socket file was made; the file stays.                *)
Start_Embedded ==
  /\ phase = "loaded" /\ config.helperMode = "embedded"
  /\ socket' = start
  /\ IF Is(env, "allowedUid", "bad")
     THEN helpers' = WithHelper(NewHelper("dead", TRUE)) /\ Ends("failed")
     ELSE helpers' = WithHelper(NewHelper("serving", TRUE)) /\ Goto("started")
  /\ UNCHANGED deaths

(* Mutant: a socket file that is there is left to the helper to remove. *)
Start_Subprocess_KeepsSocket ==
  /\ phase = "loaded" /\ config.helperMode = "subprocess"
  /\ helpers' = WithHelper(NewHelper("spawned", FALSE))
  /\ Goto("waiting")
  /\ UNCHANGED <<socket, deaths>>

(* start_subprocess, up to wait_for_startup *)
Start_Subprocess ==
  /\ phase = "loaded" /\ config.helperMode = "subprocess"
  /\ socket' = NONE
  /\ helpers' = WithHelper(NewHelper("spawned", FALSE))
  /\ Goto("waiting")
  /\ UNCHANGED deaths

(* The socket cannot be bound, or the process not be spawned. *)
Start_Fails ==
  /\ phase = "loaded"
  /\ socket' = NONE /\ Ends("failed")
  /\ UNCHANGED <<helpers, deaths>>

(* wait_for_startup looks for the file, for two seconds. *)
Wait_Seen ==
  /\ phase = "waiting" /\ socket # NONE /\ Goto("checking")
  /\ UNCHANGED <<helpers, socket, deaths>>

(* Mutant: the file is waited for without a limit. *)
Wait_Timeout_WhileAlive ==
  /\ phase = "waiting" /\ socket = NONE /\ helpers[start].phase # "dead"
  /\ Ends("failed")
  /\ UNCHANGED <<helpers, socket, deaths>>

(* The Child is dropped, which ends nothing; so in the next two actions.    *)
Wait_Timeout ==
  /\ phase = "waiting" /\ socket = NONE
  /\ Ends("failed")
  /\ UNCHANGED <<helpers, socket, deaths>>

(* send_request: the file is there from bind on, a connection is accepted   *)
(* from listen on.                                                         *)
Check_Connect ==
  /\ phase = "checking"
  /\ IF socket # NONE /\ helpers[socket].phase \in {"listening", "serving"}
     THEN Goto("asking") ELSE Ends("failed")
  /\ UNCHANGED <<helpers, socket, deaths>>

(* serve, for the health check: ok unless the peer is not admitted. There   *)
(* is no answer from a helper that died.                                   *)
Check_Answer ==
  /\ phase = "asking" /\ helpers[socket].phase \in {"serving", "dead"}
  /\ IF helpers[socket].phase = "serving" /\ helpers[socket].uid = "own"
     THEN Goto("started") ELSE Ends("failed")
  /\ UNCHANGED <<helpers, socket, deaths>>

(* Mutant: only a helper in a thread is ended. *)
Drop_KeepsChild(hs) == WithoutEmbedded(hs)

(* HelperRuntime::drop: the child is killed and waited for. *)
Drop(hs) == WithoutEmbedded([hs EXCEPT ![start].phase = "dead"])

(* The rest of new, and eframe. *)
New_Done == phase = "started" /\ Goto("running") /\ UNCHANGED <<helpers, socket, deaths>>

(* An error in the rest of new, or the end of run_native: what was built is *)
(* dropped, and the socket file removed.                                   *)
Dropped ==
  /\ phase \in {"started", "running"}
  /\ helpers' = Drop(helpers) /\ socket' = NONE
  /\ Ends("orderly")
  /\ UNCHANGED deaths

Killed ==
  /\ phase # "off"
  /\ helpers' = WithoutEmbedded(helpers)
  /\ Ends("killed")
  /\ UNCHANGED <<socket, deaths>>

-----------------------------------------------------------------------------
(* run_helper_daemon_from_env.  The child's main loads the configuration    *)
(* once more, from the environment that its parent has changed.            *)

Becomes(n, p) == helpers' = [helpers EXCEPT ![n].phase = p]

(* A file that is there is removed; bind makes a new one. *)
Child_Binds(n) ==
  /\ helpers[n].phase = "spawned"
  /\ Becomes(n, "bound") /\ socket' = n
  /\ UNCHANGED <<launch, env, config, phase, start, ended, deaths>>

Child_Listens(n) ==
  /\ helpers[n].phase = "bound" /\ Becomes(n, "listening")
  /\ UNCHANGED <<launch, env, config, phase, start, socket, ended, deaths>>

(* resolve_allowed_uid, then serve. *)
Child_Serves(n) ==
  /\ helpers[n].phase = "listening"
  /\ Becomes(n, IF helpers[n].uid = "bad" THEN "dead" ELSE "serving")
  /\ UNCHANGED <<launch, env, config, phase, start, socket, ended, deaths>>

Child_Dies(n) ==
  /\ ~helpers[n].embedded /\ helpers[n].phase # "dead"
  /\ deaths < MaxDeaths /\ deaths' = deaths + 1
  /\ Becomes(n, "dead")
  /\ UNCHANGED <<launch, env, config, phase, start, socket, ended>>

Child(n) == Child_Binds(n) \/ Child_Listens(n) \/ Child_Serves(n)

New ==
  \/ Start_Embedded \/ Start_Subprocess \/ Start_Fails
  \/ Wait_Seen \/ Wait_Timeout \/ Check_Connect \/ Check_Answer \/ New_Done

Next ==
  \/ \E l \in Launches : Main(l)
  \/ New \/ Dropped \/ Killed
  \/ \E n \in DOMAIN helpers : Child(n) \/ Child_Dies(n)

Spec == Init /\ [][Next]_vars

(* The main thread runs, and so do the helpers. *)
FairSpec == Spec /\ WF_vars(New) /\ \A n \in 1 .. MaxStarts : WF_vars(n \in DOMAIN helpers /\ Child(n))

-----------------------------------------------------------------------------
(* Properties *)

IndicesOf(lines, s) == {i \in DOMAIN lines : lines[i].key = s}

(* What the documents say of a setting: the local overlay wins, with its    *)
(* last line for it, then the environment the program was started in, then *)
(* the profile, with its first line (docs/configuration.md:3-6).           *)
Says(l, s, value) ==
  LET over == IndicesOf(l.overlay, s)  under == IndicesOf(l.profile, s) IN
  IF over # {} THEN \E i \in over : l.overlay[i].value = value /\ \A j \in over : j <= i
  ELSE IF s \in DOMAIN l.environ THEN l.environ[s] = value
  ELSE \E i \in under : l.profile[i].value = value /\ \A j \in under : i <= j

(* What the program may do to the host, and what it hands to other          *)
(* services, is what its launch says: privilege, the role of an admin,      *)
(* publishing, anchoring, and the identity needed in EVRUS mode, whatever   *)
(* the files hold and in which order they are read (load_profile_env,      *)
(* load_runtime_config, load_connector_config).                            *)
NothingUnasked ==
  config # NONE =>
    /\ config.privileged = Says(launch, "privileged", "on")
    /\ config.role = "admin" =>
         \/ Says(launch, "role", "admin")
         \/ config.privileged /\ \A v \in Values.role : ~Says(launch, "role", v)
    /\ config.connectors.publishing # "off" =>
         Says(launch, "peerweave", "on") /\ Says(launch, "publish", "on")
    /\ config.connectors.anchoring => Says(launch, "evrus", "on") /\ Says(launch, "anchor", "on")
    /\ config.authMode = "evrus" => Says(launch, "evrus", "on") /\ Says(launch, "jwt", "given")

(* When the helper has been started, and unless it has died since, the      *)
(* socket leads to this start's own helper with the capabilities of this    *)
(* start's configuration, and a helper process admits the dashboard: never *)
(* to one that an earlier start has left, with the capabilities of that     *)
(* (start_embedded, start_subprocess).                                     *)
OwnHelper ==
  phase \in {"started", "running"} =>
    /\ socket = start /\ helpers[start].caps = Granted(config)
    /\ helpers[start].phase \in {"serving", "dead"}
    /\ helpers[start].embedded \/ helpers[start].uid = "own"

(* A dashboard that ended in order leaves no helper and no socket file; a   *)
(* helper outlives its dashboard only if that was killed or gave up while   *)
(* it was starting the helper (HelperRuntime::drop).                       *)
NothingLeft ==
  \A n \in DOMAIN ended :
    ended[n] = "orderly" => socket # n /\ (n \in DOMAIN helpers => helpers[n].phase = "dead")

(* Every variable is in its type, and nothing is left. *)
StartupInv == TypeOK /\ NothingLeft

(* A start that has spawned its helper gets on or gives up, whether the     *)
(* helper serves, is late or dies at any point: only the request has no     *)
(* timeout of its own (wait_for_startup, send_request).                    *)
StartupEnds ==
  \A n \in 1 .. MaxStarts :
    (start = n /\ phase = "waiting") ~> (start # n \/ phase \notin {"waiting", "checking", "asking"})

=============================================================================
