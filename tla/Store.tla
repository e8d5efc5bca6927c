------------------------------- MODULE Store -------------------------------
(***************************************************************************)
(* The store of src/store/mod.rs: a bounded channel into which the         *)
(* telemetry worker and the UI put their writes without waiting, and one   *)
(* writer thread that applies them in an open transaction, commits it      *)
(* every few writes or when idle, and prunes the tables now and then.      *)
(* Readers have connections of their own and see what is committed.        *)
(***************************************************************************)
EXTENDS StoreTables, Sequences

CONSTANTS
  QueueCap,    \* capacity of the sync_channel (4096)
  Batch,       \* writes per transaction (24)
  PruneEvery,  \* writes between two prunes (256)
  MaxOps,      \* bound: writes issued
  MaxFaults,   \* bound: statements that fail
  MaxCrashes   \* bound: times the process dies and is started again

ASSUME StoreConstants ==
  /\ QueueCap \in Nat \ {0} /\ Batch \in Nat \ {0} /\ PruneEvery \in Nat \ {0}
  /\ MaxOps \in Nat /\ MaxFaults \in Nat /\ MaxCrashes \in Nat

VARIABLES
  issued,      \* writes issued by the program; each is known by its number
  persisting,  \* what the telemetry worker writes next, and its snapshot's time
  handles,     \* does anybody still hold a Store?
  queue,       \* the channel
  writer,      \* what the writer thread does next
  pending,     \* writes since the last commit
  sincePrune,  \* writes since the last prune
  inTx,        \* is a transaction open?
  work,        \* the tables as the writer's connection sees them
  committed,   \* the tables as readers see them
  flush        \* the call of flush

(* History, for the properties and the bounds. *)
VARIABLES
  open,        \* writes applied in the open transaction
  owed,        \* accepted before flush was called and not committed yet
  faults, crashes

producerVars == <<issued, persisting, handles>>
tableVars == <<inTx, work, committed, open, owed>>
counterVars == <<pending, sincePrune>>
vars == <<producerVars, queue, writer, counterVars, tableVars, flush, faults, crashes>>

(* A message of flush; nobody listens for an abandoned one any more. *)
Sync == [op |-> 0, kind |-> "sync", ts |-> 0]
Abandoned == [op |-> 0, kind |-> "abandoned", ts |-> 0]
IsWrite(w) == w.kind \in Kinds
Ops(writes) == {writes[i].op : i \in DOMAIN writes}

WritesIn(messages) ==
  LET among[i \in 0 .. Len(messages)] ==
        IF i = 0 THEN <<>>
        ELSE IF IsWrite(messages[i]) THEN Append(among[i - 1], messages[i])
        ELSE among[i - 1]
  IN among[Len(messages)]

(* Accepted and not yet visible to readers, oldest first. *)
Backlog == open \o WritesIn(queue)

TypeOK ==
  /\ issued \in 0 .. MaxOps /\ handles \in BOOLEAN
  /\ persisting \in [next : {"metric", "sample", "document"}, ts : Times \cup {0}]
  /\ queue \in Seq(WriteOp \cup {Sync, Abandoned}) /\ Len(queue) <= QueueCap
  /\ writer \in {"starting", "recv", "batch", "prune", "gone"}
  /\ pending \in 0 .. Batch /\ sincePrune \in 0 .. PruneEvery /\ inTx \in BOOLEAN
  /\ work \in Tables /\ committed \in Tables
  /\ flush \in {"idle", "waiting", "ok"}
  /\ open \in Seq(WriteOp) /\ (faults = 0 => Len(open) <= Batch)  \* what a crash may lose
  /\ owed \subseteq 1 .. MaxOps
  /\ faults \in 0 .. MaxFaults /\ crashes \in 0 .. MaxCrashes

Idle == [next |-> "metric", ts |-> 0]

Init ==
  /\ issued = 0 /\ persisting = Idle /\ handles = TRUE
  /\ queue = <<>> /\ writer = "starting" /\ pending = 0 /\ sincePrune = 0
  /\ inTx = FALSE /\ work = NoTables /\ committed = NoTables
  /\ flush = "idle" /\ owed = {} /\ open = <<>>
  /\ faults = 0 /\ crashes = 0

-----------------------------------------------------------------------------
(* The threads that write *)

(* enqueue: try_send; a full channel drops the write and nobody is told. *)
Enqueue(kind, ts) ==
  /\ handles /\ issued < MaxOps
  /\ issued' = issued + 1
  /\ queue' = IF Len(queue) < QueueCap /\ writer # "gone"
              THEN Append(queue, [op |-> issued', kind |-> kind, ts |-> ts])
              ELSE queue
  /\ UNCHANGED <<handles, writer, counterVars, tableVars, flush, faults, crashes>>

(* persist_snapshot: a metric and a sample with the snapshot's time, then   *)
(* documents with the time at which they are written.                      *)
Persist_Metric(ts) ==
  /\ persisting.next = "metric"
  /\ persisting' = [next |-> "sample", ts |-> ts]
  /\ Enqueue("metric", ts)

Persist_Sample ==
  /\ persisting.next = "sample"
  /\ persisting' = [persisting EXCEPT !.next = "document"]
  /\ Enqueue("sample", persisting.ts)

Persist_HostDocument(ts) ==
  /\ persisting.next = "document"
  /\ persisting' = Idle
  /\ Enqueue("document", ts)

(* Documents of processes, disks, interfaces and connectors. *)
Persist_Document(ts) ==
  /\ persisting.next = "metric" /\ issued > 0
  /\ Enqueue("document", ts)
  /\ UNCHANGED persisting

(* A search of the UI, a connector's state, a failed collection. *)
Write_Log(ts) == Enqueue("log", ts) /\ UNCHANGED persisting

(* flush: the send waits for room in the channel. *)
Flush_Send ==
  /\ handles /\ flush = "idle" /\ writer # "gone" /\ Len(queue) < QueueCap
  /\ queue' = Append(queue, Sync)
  /\ flush' = "waiting" /\ owed' = Ops(Backlog)
  /\ UNCHANGED <<producerVars, writer, counterVars, inTx, work, committed, open, faults, crashes>>

(* Five seconds have passed, or the writer is gone: an error for the caller. *)
Flush_Error ==
  /\ flush = "waiting"
  /\ flush' = "idle" /\ owed' = {}
  /\ queue' = [i \in DOMAIN queue |-> IF IsWrite(queue[i]) THEN queue[i] ELSE Abandoned]
  /\ UNCHANGED <<producerVars, writer, counterVars, inTx, work, committed, open, faults, crashes>>

Flush_Ok ==
  /\ flush = "ok"
  /\ flush' = "idle" /\ owed' = {}
  /\ UNCHANGED <<producerVars, queue, writer, counterVars, inTx, work, committed, open,
                 faults, crashes>>

(* The last Store is dropped. *)
Close ==
  /\ handles /\ persisting = Idle /\ flush = "idle"
  /\ handles' = FALSE
  /\ UNCHANGED <<issued, persisting, queue, writer, counterVars, tableVars, flush,
                 faults, crashes>>

-----------------------------------------------------------------------------
(* "COMMIT; BEGIN" with its result ignored.  A COMMIT that fails leaves the *)
(* transaction open or rolls it back (external); BEGIN is then not reached, *)
(* and without a transaction COMMIT itself fails.                          *)

Fault == faults < MaxFaults /\ faults' = faults + 1

Commit_Done ==
  /\ inTx
  /\ committed' = work /\ owed' = owed \ Ops(open) /\ open' = <<>>
  /\ UNCHANGED <<inTx, work, faults>>

Commit_Fails == inTx /\ Fault /\ UNCHANGED tableVars

RollBack ==
  /\ inTx /\ inTx' = FALSE
  /\ work' = committed /\ open' = <<>>
  /\ UNCHANGED <<committed, owed>>

Commit_RollsBack == Fault /\ RollBack

Commit_NoTransaction == ~inTx /\ UNCHANGED <<tableVars, faults>>

CommitBegin == Commit_Done \/ Commit_Fails \/ Commit_RollsBack \/ Commit_NoTransaction

-----------------------------------------------------------------------------
(* writer_loop *)

(* Mutant: no transaction is begun. *)
Writer_Opens_NoBegin ==
  /\ writer = "starting"
  /\ writer' = "recv"
  /\ UNCHANGED <<producerVars, queue, counterVars, tableVars, flush, faults, crashes>>

Writer_Opens ==
  /\ writer = "starting"
  /\ writer' = "recv" /\ inTx' = TRUE
  /\ UNCHANGED <<producerVars, queue, counterVars, work, committed, open, owed,
                 flush, faults, crashes>>

(* The thread returns, and with it the receiving end of the channel. *)
Writer_OpenFails ==
  /\ writer = "starting" /\ Fault
  /\ writer' = "gone" /\ queue' = <<>>
  /\ UNCHANGED <<producerVars, counterVars, tableVars, flush, crashes>>

Received == writer = "recv" /\ queue # <<>> /\ queue' = Tail(queue)

BatchFull(count) == count >= Batch

PruneDue(count) == count >= PruneEvery

Writer_Apply ==
  /\ Received /\ IsWrite(Head(queue))
  /\ work' = Applied(work, Head(queue))
  /\ IF inTx
     THEN /\ open' = Append(open, Head(queue))
          /\ UNCHANGED <<committed, owed>>
     ELSE /\ committed' = work' /\ owed' = owed \ {Head(queue).op}
          /\ UNCHANGED open
  /\ pending' = pending + 1 /\ sincePrune' = sincePrune + 1
  /\ writer' = IF BatchFull(pending') THEN "batch"
               ELSE IF PruneDue(sincePrune') THEN "prune" ELSE "recv"
  /\ UNCHANGED <<producerVars, inTx, flush, faults, crashes>>

(* The error is logged; the write is not counted. *)
Writer_ApplyFails ==
  /\ Received /\ IsWrite(Head(queue)) /\ Fault
  /\ \/ /\ work' \in HalfApplied(work, Head(queue))
        /\ committed' = IF inTx THEN committed ELSE work'
        /\ UNCHANGED <<inTx, open, owed>>
     \/ RollBack
  /\ UNCHANGED <<producerVars, writer, counterVars, flush, crashes>>

Writer_Batch ==
  /\ writer = "batch"
  /\ CommitBegin
  /\ pending' = 0
  /\ writer' = IF PruneDue(sincePrune) THEN "prune" ELSE "recv"
  /\ UNCHANGED <<producerVars, queue, sincePrune, flush, crashes>>

Writer_Prune ==
  /\ writer = "prune"
  /\ \E now \in Times :
       \/ work' = Pruned(work, now) /\ UNCHANGED faults
       \/ work' \in PrunedButOne(work, now) /\ Fault
  /\ committed' = IF inTx THEN committed ELSE work'
  /\ sincePrune' = 0 /\ writer' = "recv"
  /\ UNCHANGED <<producerVars, queue, pending, inTx, open, owed, flush, crashes>>

(* Mutant: the acknowledgement comes first. *)
Writer_Sync_AckFirst ==
  /\ Received /\ ~IsWrite(Head(queue))
  /\ flush' = IF Head(queue) = Sync THEN "ok" ELSE flush
  /\ UNCHANGED <<producerVars, writer, counterVars, tableVars, faults, crashes>>

(* Sync: commit, then acknowledge, whatever the commit returned. *)
Writer_Sync ==
  /\ Received /\ ~IsWrite(Head(queue))
  /\ CommitBegin
  /\ flush' = IF Head(queue) = Sync THEN "ok" ELSE flush
  /\ UNCHANGED <<producerVars, writer, counterVars, crashes>>

(* Mutant: a single write is left for later. *)
Writer_Timeout_Lazy ==
  /\ writer = "recv" /\ queue = <<>> /\ pending > 1
  /\ CommitBegin
  /\ pending' = 0
  /\ UNCHANGED <<producerVars, queue, writer, sincePrune, flush, crashes>>

(* Nothing has come for 40 ms. *)
Writer_Timeout ==
  /\ writer = "recv" /\ queue = <<>> /\ pending > 0
  /\ CommitBegin
  /\ pending' = 0
  /\ UNCHANGED <<producerVars, queue, writer, sincePrune, flush, crashes>>

(* The channel is empty and nobody can send any more: COMMIT and return. *)
Writer_Disconnected ==
  /\ writer = "recv" /\ queue = <<>> /\ ~handles
  /\ CommitBegin
  /\ writer' = "gone"
  /\ UNCHANGED <<producerVars, queue, counterVars, flush, crashes>>

Writer ==
  \/ Writer_Opens \/ Writer_OpenFails
  \/ Writer_Apply \/ Writer_ApplyFails \/ Writer_Sync
  \/ Writer_Batch \/ Writer_Prune
  \/ Writer_Timeout \/ Writer_Disconnected

(* The process dies and is started again.  The transaction is rolled back;  *)
(* outside a transaction every statement that was executed is kept.        *)
Crash ==
  /\ crashes < MaxCrashes /\ crashes' = crashes + 1
  /\ committed' \in
       {committed} \cup
       IF inTx THEN {}
       ELSE IF writer = "recv" /\ queue # <<>> /\ IsWrite(Head(queue))
       THEN HalfApplied(committed, Head(queue))
       ELSE IF writer = "prune" THEN UNION {HalfPruned(committed, now) : now \in Times}
       ELSE {}
  /\ work' = committed' /\ inTx' = FALSE /\ open' = <<>>
  /\ queue' = <<>> /\ writer' = "starting" /\ pending' = 0 /\ sincePrune' = 0
  /\ persisting' = Idle /\ handles' = TRUE /\ flush' = "idle" /\ owed' = {}
  /\ UNCHANGED <<issued, faults>>

Producers ==
  \/ \E ts \in Times :
       \/ Persist_Metric(ts) \/ Persist_HostDocument(ts) \/ Persist_Document(ts)
       \/ Write_Log(ts)
  \/ Persist_Sample \/ Flush_Send \/ Flush_Error \/ Flush_Ok \/ Close

Next == Producers \/ Writer \/ Crash

Spec == Init /\ [][Next]_vars

(* The writer thread runs: recv_timeout returns after 40 ms at the latest.  *)
FairSpec == Spec /\ WF_vars(Writer)

-----------------------------------------------------------------------------
(* Properties *)

(* Readers see the result of the accepted writes up to some point, in       *)
(* order, and a crash drops only the newest ones, as long as no statement   *)
(* has failed: one queue, one transaction at a time (writer_loop).         *)
Service == INSTANCE StoreService WITH tables <- committed, backlog <- Backlog

ImplementsStoreService ==
  Service!Init /\ [][faults' = 0 => [Service!Next]_<<committed, Backlog>>]_vars

(* The vector search finds a document by the vector of its own text, and    *)
(* every document and vector has its counterpart, over prunes, reuse of     *)
(* rowids and crashes.  One failed statement may cost a document its        *)
(* vector but never gives it another document's.                           *)
EmbeddingsPaired ==
  LET d == committed.documents  e == committed.embeddings IN
  /\ faults <= 1 => \A x \in d, y \in e : x.id = y.id => x.op = y.op
  /\ faults = 0 => {x.id : x \in d} = {y.id : y \in e}

(* flush returns Ok only when everything accepted before the call has been  *)
(* committed, whatever else is in the channel and however the writer's own  *)
(* commits fall, as long as no COMMIT fails.                               *)
FlushPublishes == faults = 0 /\ flush = "ok" => owed = {}

Within(t, slack) ==
  /\ Cardinality(t.metrics) <= KeepMetrics + slack
  /\ Cardinality(t.samples) <= KeepSamples + slack
  /\ Cardinality(t.documents) <= KeepDocs + slack
  /\ Cardinality(t.logs) <= KeepLogs + slack

(* The tables never exceed what a prune keeps by more than the writes since *)
(* the last prune, and those between two prunes once for every crash: the   *)
(* count of writes is not kept over a restart (writer_loop).  Nor do the    *)
(* channel, the counters and what a crash may lose exceed their bounds.    *)
TablesBounded ==
  /\ TypeOK
  /\ faults = 0 =>
       /\ Within(work, PruneEvery * crashes + sincePrune)
       /\ Within(committed, PruneEvery * (crashes + 1))

(* Whatever the channel has accepted is committed, by a full batch or by    *)
(* the idle writer, unless the process dies or a statement fails.          *)
AcceptedPublished == []<>(Backlog = <<>> \/ faults > 0)

=============================================================================
