---------------------------- MODULE AppendOnlyLog ----------------------------
(***************************************************************************)
(* What src/README.md promises of the audit trail ("append-only JSONL      *)
(* audit"): a reader who puts the archive and the live file together sees  *)
(* one sequence of events that only ever grows, by one event, at its end.  *)
(***************************************************************************)
EXTENDS Naturals, Sequences

CONSTANT Events

VARIABLE trail   \* the events recorded so far, oldest first

Init == trail = <<>>

Record(e) == trail' = Append(trail, e)

Next == \E e \in Events : Record(e)

Spec == Init /\ [][Next]_trail
=============================================================================
