---------------------------- MODULE MCCommandGate ----------------------------
(* Instances of CommandGate for TLC.  The configurations cover every mode,  *)
(* every role, an unprivileged helper, a helper for another uid, and an     *)
(* EVRUS policy per constraint.                                             *)
EXTENDS CommandGateInvariant, CommandParser

P(action, roles, capability, hostDenied, confirm) ==
  [action |-> action, roles |-> roles, capability |-> capability,
   hostDenied |-> hostDenied, confirm |-> confirm]

C(mode, role, privileged, policy, did) ==
  [mode |-> mode, role |-> role, privileged |-> privileged, peer |-> TRUE,
   policy |-> policy, did |-> did]

Plain ==
  { C("local", "admin", TRUE, {}, NONE),
    C("local", "admin", FALSE, {}, NONE),
    C("local", "viewer", TRUE, {}, NONE),
    C("local", "operator", TRUE, {}, NONE) }

Token ==
  { C("token", "operator", TRUE, {}, NONE),
    C("token", "admin", TRUE, {}, NONE) }

Evrus ==
  { C("evrus", "admin", TRUE, {P("kill_process", {"admin"}, "KillProcess", FALSE, TRUE)}, "did"),
    C("evrus", "admin", TRUE, {P("*", {}, "none", TRUE, FALSE)}, "did"),
    C("evrus", "admin", TRUE, {P("*", {}, "none", FALSE, TRUE)}, "did"),
    C("evrus", "operator", TRUE, {P("renice_process", {"admin"}, "none", FALSE, FALSE)}, "did"),
    C("evrus", "operator", TRUE, {P("*", {}, "ReniceProcess", FALSE, FALSE)}, "did") }

Stranger == {[C("local", "operator", TRUE, {}, NONE) EXCEPT !.peer = FALSE]}

(* Three processes, each in a group of its own. *)
MCGroup == [p \in {1, 7, 8} |-> p]

(* Tokens for the parser, on all of which its flags and numbers depend. *)
MCTokens ==
  {"show", "search", "kill", "renice", "audit", "processes", "--sort", "--limit",
   "--mode", "--last", "CPU", "fts", "0", "7", "300", "-21", "x|y"}
MCNumber == [t \in {"0", "7", "300", "-21"} |->
               CASE t = "0" -> 0 [] t = "7" -> 7 [] t = "300" -> 300 [] t = "-21" -> -21]
MCLower == [t \in {"CPU"} |-> "cpu"]

MCConfigs == Stranger \cup Plain \cup Token \cup Evrus
=============================================================================
