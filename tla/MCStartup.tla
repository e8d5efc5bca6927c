----------------------------- MODULE MCStartup -----------------------------
(* An instance of Startup for TLC: launches that differ from a few usual    *)
(* ones in one setting, made in any of the three places.                   *)
EXTENDS StartupInvariant, TLC

Token == [authMode |-> "token", token |-> "long", issuedAt |-> "number", ttl |-> "inRange"]
Evrus == [authMode |-> "evrus", evrus |-> "on", jwt |-> "given", anchor |-> "on", rpc |-> "complete",
          peerweave |-> "on", publish |-> "on", space |-> "given"]
Privileged == [privileged |-> "on", helperMode |-> "subprocess"]

Usual == {<<>>, Privileged, Token @@ Privileged, Evrus}

Line(s, v) == <<[key |-> s, value |-> v]>>
Lines(s) == {Line(s, v) : v \in Values[s]}

(* One setting changed in one place. *)
Changed(e) ==
  UNION {[environ : {(s :> v) @@ e : v \in Values[s]}, profile : {<<>>}, overlay : {<<>>}] : s \in Settings}

(* Privilege, and a mode, in two of the places. *)
Layered ==
  [environ : {<<>>, [privileged |-> "off"], [privileged |-> "on"]},
   profile : {<<>>, Line("privileged", "on"), Line("privileged", "off") \o Line("privileged", "on")},
   overlay : {<<>>, Line("privileged", "on"), Line("privileged", "on") \o Line("privileged", "off")}]

MCLaunches ==
  UNION {Changed(e) : e \in Usual} \cup Layered
    \cup {[environ |-> <<>>, profile |-> NONE, overlay |-> <<>>]}
=============================================================================
