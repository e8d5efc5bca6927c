------------------------------ MODULE MCStore ------------------------------
(* Instances of Store for TLC; the .cfg files choose the constants. *)
EXTENDS SearchInvariant
=============================================================================
