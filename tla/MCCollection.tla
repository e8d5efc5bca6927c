---------------------------- MODULE MCCollection ----------------------------
(* Instances of Collection for TLC. *)
EXTENDS CollectionInvariant, TLC

PidsAlike == Permutations(Pids)

=============================================================================
