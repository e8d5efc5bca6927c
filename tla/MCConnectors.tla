---------------------------- MODULE MCConnectors ----------------------------
(* Instances of Connectors for TLC; the .cfg files choose the constants. *)
EXTENDS Connectors
=============================================================================
