-------------------------- MODULE StartupInvariant --------------------------
(***************************************************************************)
(* The inductive invariant behind the properties of Startup: whose socket  *)
(* file and which helper each phase of a start can meet.                   *)
(***************************************************************************)
EXTENDS Startup

Starting == {"waiting", "checking", "asking"}

(* The configuration is that of the launch, and no mistake was seen in it.  *)
ConfigInv ==
  /\ phase = "off" => config = NONE
  /\ phase # "off" =>
    /\ launch \in Launches /\ launch.profile # NONE
    /\ env = WithProfile(launch) /\ config = Loaded(env) /\ ~LoadFails(env)

(* Only the helper of the latest start has still to bind its socket, and a  *)
(* start has no helper before it makes one.                                *)
SpawnedInv ==
  /\ \A n \in DOMAIN helpers : helpers[n].phase = "spawned" => n = start
  /\ phase = "loaded" => start \notin DOMAIN helpers
  /\ phase \notin {"off", "loaded"} =>
       start \in DOMAIN helpers /\ helpers[start].caps = Granted(config)

(* A start that looks for its helper finds no other: it has removed the     *)
(* socket file that was there, and nobody else makes one.                  *)
SocketInv ==
  /\ phase \in Starting => ~helpers[start].embedded
  /\ phase = "waiting" =>
       socket = NONE \/ (socket = start /\ helpers[start].phase # "spawned")
  /\ phase \in {"checking", "asking", "started", "running"} =>
       socket = start /\ helpers[start].phase # "spawned"
  /\ phase = "asking" => helpers[start].phase # "bound"

(* What every step of the dashboard and of the helpers keeps.               *)
LaunchInv == StartupInv /\ ConfigInv /\ SpawnedInv /\ SocketInv /\ OwnHelper

=============================================================================
