--------------------------- MODULE StoreInvariant ---------------------------
(***************************************************************************)
(* The inductive invariant behind the properties of Store: what the writer *)
(* thread, the channel and the two views of the tables have to do with one *)
(* another between two steps.                                              *)
(***************************************************************************)
EXTENDS Store

(* Every table is finite and has its key. *)
TableInv(t) ==
  /\ t \in Tables
  /\ IsFiniteSet(t.metrics) /\ IsFiniteSet(t.samples) /\ IsFiniteSet(t.logs)
  /\ IsFiniteSet(t.documents)
  /\ \A r, s \in t.metrics : r.ts = s.ts => r = s
  /\ \A r, s \in t.samples : r.ts = s.ts => r = s
  /\ \A r, s \in t.logs : r.op = s.op => r = s
  /\ \A d, e \in t.documents : d.id = e.id => d = e

(* The newest write that a log row can be of. *)
LogsTo(t, n) == \A r \in t.logs : r.op <= n

(* Vectors belong to their documents; every vector, every document has its  *)
(* counterpart.                                                            *)
Paired(t) == \A x \in t.documents, y \in t.embeddings : x.id = y.id => x.op = y.op
NoOrphan(t) == \A y \in t.embeddings : \E x \in t.documents : x.id = y.id
NoneBare(t) == \A x \in t.documents : \E y \in t.embeddings : x.id = y.id

(* Where the writer is fixes what its counters can be; outside a            *)
(* transaction there is one view of the tables.                            *)
ControlInv ==
  /\ writer \in {"starting", "recv"} => pending < Batch /\ sincePrune < PruneEvery
  /\ writer = "prune" => pending < Batch
  /\ writer = "starting" => ~inTx
  /\ ~inTx => work = committed /\ open = <<>>
  /\ faults = 0 => (inTx <=> writer # "starting") /\ Len(open) <= pending
  /\ persisting.next = "sample" => persisting.ts \in Times

(* The channel is in order of the writes, and ahead of the tables. *)
OrderInv ==
  /\ \A i \in DOMAIN queue : IsWrite(queue[i]) =>
       /\ queue[i].op \in 1 .. issued
       /\ LogsTo(work, queue[i].op - 1) /\ LogsTo(committed, queue[i].op - 1)
  /\ \A i, j \in DOMAIN queue :
       i < j /\ IsWrite(queue[i]) /\ IsWrite(queue[j]) => queue[i].op < queue[j].op
  /\ LogsTo(work, issued) /\ LogsTo(committed, issued)
  /\ Ops(open) \subseteq 1 .. issued /\ owed \subseteq 1 .. issued

(* One failed statement costs a document its vector or leaves a vector      *)
(* without its document, never both where rowids can be used again: when a  *)
(* rollback has ended the last transaction, no vector is without document.  *)
PairInv ==
  /\ faults <= 1 => Paired(work) /\ Paired(committed)
  /\ faults = 1 /\ ~inTx /\ writer # "starting" => NoOrphan(work)
  /\ faults = 0 => NoOrphan(work) /\ NoOrphan(committed) /\ NoneBare(work) /\ NoneBare(committed)

(* What a prune keeps, and the writes since. *)
SizeInv ==
  faults = 0 =>
    /\ Within(work, PruneEvery * crashes + sincePrune)
    /\ Within(committed, PruneEvery * (crashes + 1))

(* What is owed to the caller of flush is in the open transaction or ahead  *)
(* of its message in the channel.                                          *)
FlushInv ==
  /\ flush # "waiting" => \A k \in DOMAIN queue : queue[k] # Sync
  /\ \A j, k \in DOMAIN queue : queue[j] = Sync /\ queue[k] = Sync => j = k
  /\ faults = 0 =>
       /\ flush # "waiting" => owed = {}
       /\ \A k \in DOMAIN queue : queue[k] = Sync =>
            owed \subseteq Ops(open) \cup {queue[i].op : i \in 1 .. k - 1}

(* What every step of the threads and the writer, every failed statement    *)
(* and every crash keeps.                                                  *)
WriterInv ==
  /\ TypeOK /\ TableInv(work) /\ TableInv(committed)
  /\ ControlInv /\ OrderInv /\ PairInv /\ SizeInv /\ FlushInv

(* The writer's tables are what the open transaction makes of the readers'; *)
(* where a prune is due, there has been none since the last write.         *)
ServiceInv ==
  faults = 0 =>
    /\ work \in Service!Results(committed, open)
    /\ writer = "prune" =>
         \A now \in Times : Pruned(work, now) \in Service!Results(committed, open)

(* Keys, pairs, order, sizes and what flush is owed, and the transaction a  *)
(* result of its writes: together inductive over every step of enqueue,     *)
(* flush, writer_loop and apply_op, every failure and every crash.         *)
StoreInv == WriterInv /\ ServiceInv

=============================================================================
