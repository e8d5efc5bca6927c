---------------------------- MODULE StoreTables ----------------------------
(***************************************************************************)
(* The tables of the Sentinel's SQLite file and what the statements of     *)
(* apply_op do to them (src/store/mod.rs).  A row is known by the write    *)
(* operation op that made it; its contents are left out.  There is one     *)
(* host, so that (ts, host), the key of metrics, is ts.                    *)
(***************************************************************************)
EXTENDS Integers, FiniteSets, FiniteSetsExt

CONSTANTS
  KeepMetrics, KeepDocs, KeepLogs, KeepSamples,  \* rows a prune keeps
  MaxAge,   \* age in seconds beyond which a prune drops rows (7 days)
  Times     \* values of the wall clock, which may be set back

ASSUME TableConstants ==
  /\ KeepMetrics \in Nat /\ KeepDocs \in Nat /\ KeepLogs \in Nat /\ KeepSamples \in Nat
  /\ MaxAge \in Nat /\ Times \subseteq Nat

Kinds == {"metric", "sample", "document", "log"}
WriteOp == [op : Nat, kind : Kinds, ts : Times]

Row == [op : Nat, ts : Times]
Document == [op : Nat, ts : Times, id : Nat]
Embedding == [op : Nat, id : Nat]    \* op: the document whose text it encodes
Tables ==
  [metrics : SUBSET Row, samples : SUBSET Row, logs : SUBSET Row,
   documents : SUBSET Document, embeddings : SUBSET Embedding]

NoTables ==
  [metrics |-> {}, samples |-> {}, logs |-> {}, documents |-> {}, embeddings |-> {}]

-----------------------------------------------------------------------------
(* Inserts *)

RowOf(w) == [op |-> w.op, ts |-> w.ts]

(* INSERT OR REPLACE with ts as the key. *)
Upsert(rows, w) == {r \in rows : r.ts # w.ts} \cup {RowOf(w)}

(* The rowid SQLite gives a new document: ids of deleted rows at the end    *)
(* are used again.                                                         *)
NewId(documents) ==
  IF documents = {} THEN 1 ELSE 1 + Max({d.id : d \in documents})

InsertDocument(t, w) ==
  [t EXCEPT !.documents = @ \cup {[op |-> w.op, ts |-> w.ts, id |-> NewId(t.documents)]}]

(* Mutant: INSERT OR IGNORE. *)
InsertEmbedding_OrIgnore(t, id, w) ==
  IF \E e \in t.embeddings : e.id = id THEN t
  ELSE [t EXCEPT !.embeddings = @ \cup {[op |-> w.op, id |-> id]}]

(* INSERT OR REPLACE with last_insert_rowid as the key. *)
InsertEmbedding(t, id, w) ==
  [t EXCEPT !.embeddings = {e \in @ : e.id # id} \cup {[op |-> w.op, id |-> id]}]

(* apply_op for everything but Prune and Sync, without an error. *)
Applied(t, w) ==
  CASE w.kind = "metric"   -> [t EXCEPT !.metrics = Upsert(@, w)]
    [] w.kind = "sample"   -> [t EXCEPT !.samples = Upsert(@, w)]
    [] w.kind = "log"      -> [t EXCEPT !.logs = @ \cup {RowOf(w)}]
    [] w.kind = "document" -> InsertEmbedding(InsertDocument(t, w), NewId(t.documents), w)

(* What an apply_op that fails, or that the process does not survive, may   *)
(* leave: the statements before the failing one.                           *)
HalfApplied(t, w) ==
  {t} \cup IF w.kind = "document" THEN {InsertDocument(t, w)} ELSE {}

-----------------------------------------------------------------------------
(* Prune *)

(* The first keep rows in descending order. *)
Newest(rows, keep, Newer(_, _)) ==
  {r \in rows : Cardinality({s \in rows : Newer(s, r)}) < keep}

NewerTs(r, s) == r.ts > s.ts
NewerDocument(d, e) == d.ts > e.ts \/ (d.ts = e.ts /\ d.id > e.id)
NewerOp(r, s) == r.op > s.op    \* logs are ordered by rowid

(* ts >= now - 7 days; the subtraction saturates. *)
Recent(rows, now) == {r \in rows : r.ts + MaxAge >= now}

(* Mutant: embeddings of deleted documents stay. *)
Pruned_NoEmbeddings(t, now) ==
  [metrics    |-> Newest(Recent(t.metrics, now), KeepMetrics, NewerTs),
   samples    |-> Newest(t.samples, KeepSamples, NewerTs),
   logs       |-> Newest(Recent(t.logs, now), KeepLogs, NewerOp),
   documents  |-> Newest(Recent(t.documents, now), KeepDocs, NewerDocument),
   embeddings |-> t.embeddings]

(* Mutant: logs are pruned by age only. *)
Pruned_LogsByAge(t, now) ==
  LET documents == Newest(Recent(t.documents, now), KeepDocs, NewerDocument) IN
  [metrics    |-> Newest(Recent(t.metrics, now), KeepMetrics, NewerTs),
   samples    |-> Newest(t.samples, KeepSamples, NewerTs),
   logs       |-> Recent(t.logs, now),
   documents  |-> documents,
   embeddings |-> {e \in t.embeddings : \E d \in documents : d.id = e.id}]

Pruned(t, now) ==
  LET documents == Newest(Recent(t.documents, now), KeepDocs, NewerDocument) IN
  [metrics    |-> Newest(Recent(t.metrics, now), KeepMetrics, NewerTs),
   samples    |-> Newest(t.samples, KeepSamples, NewerTs),
   logs       |-> Newest(Recent(t.logs, now), KeepLogs, NewerOp),
   documents  |-> documents,
   embeddings |-> {e \in t.embeddings : \E d \in documents : d.id = e.id}]

(* A Prune the process does not survive, outside a transaction: the tables  *)
(* are pruned one after the other (the deletes by age, which come first in  *)
(* the code, are taken with the others).                                   *)
HalfPruned(t, now) ==
  LET p == Pruned(t, now) IN
  {[t EXCEPT !.metrics = p.metrics],
   [t EXCEPT !.metrics = p.metrics, !.documents = p.documents],
   [p EXCEPT !.embeddings = t.embeddings, !.samples = t.samples],
   [p EXCEPT !.samples = t.samples]}

(* A Prune of which the statements on one table fail; errors are ignored. *)
PrunedButOne(t, now) ==
  LET p == Pruned(t, now) IN
  {[p EXCEPT !.metrics = t.metrics], [p EXCEPT !.samples = t.samples],
   [p EXCEPT !.logs = t.logs], [p EXCEPT !.embeddings = t.embeddings],
   [p EXCEPT !.documents = t.documents,
             !.embeddings = {e \in t.embeddings : \E d \in t.documents : d.id = e.id}]}

=============================================================================
