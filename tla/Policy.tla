------------------------------- MODULE Policy -------------------------------
(***************************************************************************)
(* The pure decisions of src/core/policy.rs and src/security/auth.rs: what *)
(* a role may do in an auth mode, what an EVRUS policy adds, and whether a *)
(* submitted token authenticates.  Commands are known by their kind:       *)
(* show_other is show memory, disk, network or processes, which need a     *)
(* snapshot as show cpu does; help is any command that is always answered  *)
(* inline (alerts, config, connectors, audit, storage, search, help ...).  *)
(***************************************************************************)
EXTENDS Integers

Modes == {"local", "token", "evrus"}
Roles == {"viewer", "operator", "admin"}
Kinds == {"show_cpu", "show_other", "help", "kill_process", "renice_process"}

Permission(kind) ==
  CASE kind = "kill_process"   -> "KillProcess"
    [] kind = "renice_process" -> "ReniceProcess"
    [] OTHER                   -> "ViewSystemMetrics"

(* Mutant: token mode does not demote the admin. *)
Allows_AdminInTokenMode(mode, role, permission) ==
  \/ role = "viewer" /\ permission = "ViewSystemMetrics"
  \/ role = "operator" /\ permission \in {"ViewSystemMetrics", "ReniceProcess"}
  \/ role = "admin"

Allows(mode, role, permission) ==
  /\ ~(mode = "token" /\ role = "admin")
  /\ \/ role = "viewer" /\ permission = "ViewSystemMetrics"
     \/ role = "operator" /\ permission \in {"ViewSystemMetrics", "ReniceProcess"}
     \/ role = "admin"

(* A SystemActionPolicy.  Whether one of its host patterns matches this     *)
(* host is all the model keeps of deny_on_hosts and of the host's name; an  *)
(* absent require_capability is "none".                                     *)
EvrusPolicy ==
  [action     : {"kill_process", "renice_process", "read_only", "*"},
   roles      : SUBSET Roles,
   capability : {"none", "KillProcess", "ReniceProcess", "ViewSystemMetrics", "other"},
   hostDenied : BOOLEAN,
   confirm    : BOOLEAN]

PolicyAction(kind) ==
  IF kind \in {"kill_process", "renice_process"} THEN kind ELSE "read_only"

(* A policy for another action does not apply.                              *)
EvrusAccepts(role, kind, policy) ==
  \/ policy.action \notin {PolicyAction(kind), "*"}
  \/ /\ policy.roles = {} \/ role \in policy.roles
     /\ policy.capability \in {"none", Permission(kind)}
     /\ ~policy.hostDenied
     /\ ~(policy.confirm /\ kind = "renice_process")

(* verify_submission.  The token may be typed right or wrong; it counts     *)
(* only in token mode, and only within its lifetime.                        *)
TokenAccepted(mode, typedRight, issuedAt, maxAge, at) ==
  mode = "token" => typedRight /\ at \in issuedAt .. issuedAt + maxAge
=============================================================================
