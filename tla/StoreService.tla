---------------------------- MODULE StoreService ----------------------------
(***************************************************************************)
(* What the store promises its readers: the tables always hold the result  *)
(* of all writes up to some point in the order of acceptance, with prunes  *)
(* between them; a crash drops the newest writes, never one in the middle. *)
(***************************************************************************)
EXTENDS StoreTables, Sequences, SequencesExt

VARIABLES
  tables,   \* what readers see
  backlog   \* writes accepted and not yet in the tables, oldest first

(* After each write, a prune at any reading of the clock, or none. *)
PrunedOrNot(ts) == ts \cup {Pruned(t, now) : t \in ts, now \in Times}

AfterWrite(ts, w) == PrunedOrNot({Applied(t, w) : t \in ts})

Results(t, writes) ==
  LET after[i \in 0 .. Len(writes)] ==
        IF i = 0 THEN PrunedOrNot({t}) ELSE AfterWrite(after[i - 1], writes[i])
  IN after[Len(writes)]

Init == tables = NoTables /\ backlog = <<>>

Accept ==
  /\ backlog' # <<>> /\ Front(backlog') = backlog
  /\ UNCHANGED tables

Publish ==
  \E k \in 0 .. Len(backlog) :
    /\ backlog' = SubSeq(backlog, k + 1, Len(backlog))
    /\ tables' \in Results(tables, SubSeq(backlog, 1, k))

Crash == backlog' = <<>> /\ UNCHANGED tables

Next == Accept \/ Publish \/ Crash

=============================================================================
