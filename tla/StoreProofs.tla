----------------------------- MODULE StoreProofs -----------------------------
(***************************************************************************)
(* Proofs about Store and Search, for every capacity, batch, limit, clock  *)
(* and number of failures and crashes: vectors stay with their documents,  *)
(* flush means committed, tables and losses are bounded, the store         *)
(* implements StoreService, and a search over it is sound.  First the      *)
(* tables, then the channel, the results of a sequence of writes, the      *)
(* steps one by one, and at the end what a search reads and fuses.         *)
(***************************************************************************)
EXTENDS SearchInvariant, FiniteSetTheorems, SequenceTheorems, WellFoundedInduction, TLAPS

(* Induction over the naturals, for sets. *)
LEMMA SetInduction ==
  ASSUME NEW S, 0 \in S, \A n \in Nat : n \in S => n + 1 \in S
  PROVE  Nat \subseteq S
<1> SUFFICES ASSUME NEW k \in Nat, k \notin S PROVE FALSE
  OBVIOUS
<1> DEFINE T == {n \in Nat : n \notin S}
<1>1. PICK m \in T : \A i \in T : <<i, m>> \notin OpToRel(<, Nat)
  <2>1. T \subseteq Nat /\ T # {}
    OBVIOUS
  <2> HIDE DEF T
  <2>2. QED
    BY <2>1, WFMin, NatLessThanWellFounded, Zenon
<1>2. \A i \in T : ~(i < m)
  BY <1>1 DEF OpToRel
<1>3. m # 0 /\ m - 1 \in Nat
  OBVIOUS
<1>4. m - 1 \notin T
  BY <1>2, <1>3
<1>5. QED
  BY <1>3, <1>4

(* An element more or less. *)
LEMMA OneLess ==
  ASSUME NEW S, IsFiniteSet(S), NEW x \in S
  PROVE  /\ IsFiniteSet(S \ {x}) /\ Cardinality(S) \in Nat /\ Cardinality(S \ {x}) \in Nat
         /\ Cardinality(S) = Cardinality(S \ {x}) + 1
<1>1. IsFiniteSet(S \ {x})
  BY FS_RemoveElement
<1>2. Cardinality(S) \in Nat /\ Cardinality(S \ {x}) \in Nat
  BY <1>1, FS_CardinalityType
<1>3. Cardinality(S \ {x}) = Cardinality(S) - 1
  BY FS_RemoveElement
<1>4. QED
  BY <1>1, <1>2, <1>3

(* The largest element of a finite set of numbers. *)
LEMMA MaxOfNats ==
  ASSUME NEW S \in SUBSET Nat, IsFiniteSet(S), S # {}
  PROVE  Max(S) \in S /\ \A x \in S : x <= Max(S)
<1> DEFINE B == {n \in Nat : \A T \in SUBSET Nat :
                   T # {} /\ (\A x \in T : x <= n) => \E m \in T : \A x \in T : m >= x}
<1>1. 0 \in B
  <2>1. ASSUME NEW T \in SUBSET Nat, T # {}, \A x \in T : x <= 0
        PROVE  \E m \in T : \A x \in T : m >= x
    <3>1. PICK m \in T : TRUE
      BY <2>1
    <3>2. \A x \in T : x = 0
      BY <2>1
    <3>3. QED
      BY <3>1, <3>2
  <2>2. QED
    BY <2>1
<1>2. ASSUME NEW n \in Nat, n \in B PROVE n + 1 \in B
  <2>1. ASSUME NEW T \in SUBSET Nat, T # {}, \A x \in T : x <= n + 1
        PROVE  \E m \in T : \A x \in T : m >= x
    <3>1. CASE n + 1 \in T
      BY <2>1, <3>1
    <3>2. CASE n + 1 \notin T
      <4>1. \A x \in T : x <= n
        BY <2>1, <3>2
      <4>2. QED
        BY <1>2, <2>1, <4>1
    <3>3. QED
      BY <3>1, <3>2
  <2>2. QED
    BY <2>1
<1>3. \E n \in Nat : \A x \in S : x <= n
  <2> DEFINE C == {n \in Nat : \A T \in SUBSET Nat :
                     IsFiniteSet(T) /\ Cardinality(T) = n => \E b \in Nat : \A x \in T : x <= b}
  <2>1. 0 \in C
    BY FS_EmptySet
  <2>2. ASSUME NEW n \in Nat, n \in C PROVE n + 1 \in C
    <3>1. ASSUME NEW T \in SUBSET Nat, IsFiniteSet(T), Cardinality(T) = n + 1
          PROVE  \E b \in Nat : \A x \in T : x <= b
      <4>0. T # {}
        <5>1. CASE T = {}
          BY <3>1, <5>1, FS_EmptySet
        <5>2. QED
          BY <5>1
      <4>1. PICK y \in T : TRUE
        BY <4>0
      <4>2. IsFiniteSet(T \ {y}) /\ Cardinality(T \ {y}) = n
        BY <3>1, <4>1, OneLess
      <4>3. PICK b \in Nat : \A x \in T \ {y} : x <= b
        BY <2>2, <4>2
      <4>4. (IF y > b THEN y ELSE b) \in Nat /\ \A x \in T : x <= (IF y > b THEN y ELSE b)
        BY <4>1, <4>3
      <4>5. QED
        BY <4>4
    <3>2. QED
      BY <3>1
  <2> HIDE DEF C
  <2>3. Cardinality(S) \in C
    BY <2>1, <2>2, SetInduction, FS_CardinalityType
  <2>4. QED
    BY <2>3 DEF C
<1> HIDE DEF B
<1>4. PICK n \in Nat : \A x \in S : x <= n
  BY <1>3
<1>5. n \in B
  BY <1>1, <1>2, SetInduction
<1>6. \E m \in S : \A x \in S : m >= x
  BY <1>4, <1>5 DEF B
<1>7. Max(S) \in S /\ \A x \in S : Max(S) >= x
  BY <1>6 DEF Max
<1>8. QED
  BY <1>7

(* The elements with fewer than keep greater ones, in a strict total order, *)
(* are at most keep; above gives the greater ones of each.                 *)
LEMMA FewAreGreatest ==
  ASSUME NEW rows, IsFiniteSet(rows), NEW keep \in Nat,
         NEW above \in [rows -> SUBSET rows],
         \A r \in rows : r \notin above[r],
         \A r, s \in rows : r # s => r \in above[s] \/ s \in above[r],
         \A r, s \in rows : r \in above[s] => above[r] \subseteq above[s],
         NEW N \in SUBSET rows, \A r \in N : Cardinality(above[r]) < keep
  PROVE  Cardinality(N) <= keep
<1> DEFINE Ranks == {Cardinality(above[r]) : r \in N}
<1>1. \A r \in rows : IsFiniteSet(above[r]) /\ Cardinality(above[r]) \in Nat
  BY FS_Subset, FS_CardinalityType
<1>2. IsFiniteSet(N)
  BY FS_Subset
<1>3. CASE N = {}
  <2>1. Cardinality({}) <= keep
    BY FS_EmptySet
  <2>2. QED
    BY <1>3, <2>1
<1>4. CASE N # {}
  <2>1. Ranks \in SUBSET Nat /\ Ranks # {} /\ \A k \in Ranks : k <= keep
    BY <1>1, <1>4
  <2>2. \A q \in N : Cardinality(above[q]) \in Ranks
    OBVIOUS
  <2>3. \A k \in Ranks : \E q \in N : k = Cardinality(above[q])
    OBVIOUS
  <2> HIDE DEF Ranks
  <2>4. IsFiniteSet(Ranks)
    BY <2>1, FS_BoundedSetOfNaturals
  <2>5. Max(Ranks) \in Ranks /\ \A k \in Ranks : k <= Max(Ranks)
    BY <2>1, <2>4, MaxOfNats
  <2>6. PICK r \in N : Cardinality(above[r]) = Max(Ranks)
    BY <2>3, <2>5
  <2>7. ASSUME NEW q \in N, q # r PROVE q \in above[r]
    <3>1. CASE r \in above[q]
      <4>1. above[r] \in SUBSET above[q] /\ above[r] # above[q]
        BY <3>1
      <4>2. /\ Cardinality(above[r]) # Cardinality(above[q])
            /\ Cardinality(above[r]) <= Cardinality(above[q])
        BY <1>1, <4>1, FS_Subset
      <4>3. Cardinality(above[q]) <= Cardinality(above[r])
        BY <2>2, <2>5, <2>6
      <4>4. Cardinality(above[r]) \in Nat /\ Cardinality(above[q]) \in Nat
        BY <1>1
      <4>5. QED
        BY <4>2, <4>3, <4>4
    <3>2. QED
      BY <2>7, <3>1
  <2>8. N \ {r} \in SUBSET above[r]
    BY <2>7
  <2>9. Cardinality(N \ {r}) <= Cardinality(above[r])
    BY <1>1, <2>8, FS_Subset
  <2>10. Cardinality(N) = Cardinality(N \ {r}) + 1 /\ Cardinality(N \ {r}) \in Nat
    BY <1>2, OneLess
  <2>11. Cardinality(above[r]) < keep /\ Cardinality(above[r]) \in Nat
    BY <1>1
  <2>12. QED
    BY <2>9, <2>10, <2>11
<1>5. QED
  BY <1>3, <1>4

-----------------------------------------------------------------------------
(* The tables *)

(* The empty database. *)
LEMMA NoTablesInv ==
  /\ TableInv(NoTables) /\ Paired(NoTables) /\ NoOrphan(NoTables) /\ NoneBare(NoTables)
  /\ \A n : LogsTo(NoTables, n)
<1>1. IsFiniteSet({})
  BY FS_EmptySet
<1>2. QED
  BY <1>1 DEF TableInv, Tables, NoTables, Paired, NoOrphan, NoneBare, LogsTo

(* Rows that go do no harm. *)
LEMMA Shrunk ==
  ASSUME NEW t, TableInv(t), NEW u \in Tables,
         u.metrics \subseteq t.metrics, u.samples \subseteq t.samples,
         u.logs \subseteq t.logs, u.documents \subseteq t.documents
  PROVE  TableInv(u) /\ \A n : LogsTo(t, n) => LogsTo(u, n)
<1>1. /\ IsFiniteSet(u.metrics) /\ IsFiniteSet(u.samples) /\ IsFiniteSet(u.logs)
      /\ IsFiniteSet(u.documents)
  BY FS_Subset DEF TableInv
<1>2. QED
  BY <1>1 DEF TableInv, LogsTo

(* Nor does a vector lose its document's place when others go. *)
LEMMA ShrunkPaired ==
  ASSUME NEW t, Paired(t), NEW u,
         u.documents \subseteq t.documents, u.embeddings \subseteq t.embeddings
  PROVE  Paired(u)
  BY DEF Paired

(* The rowid of a new document is above all others. *)
LEMMA NewIdFresh ==
  ASSUME NEW t, TableInv(t)
  PROVE  NewId(t.documents) \in Nat /\ \A d \in t.documents : d.id < NewId(t.documents)
<1>1. CASE t.documents = {}
  BY <1>1 DEF NewId
<1>2. CASE t.documents # {}
  <2> DEFINE ids == {d.id : d \in t.documents}
             f == [d \in t.documents |-> d.id]
  <2>1. ids \in SUBSET Nat /\ ids # {}
    BY <1>2 DEF TableInv, Tables, Document
  <2>2. IsFiniteSet(ids)
    <3>1. f \in Surjection(t.documents, ids)
      BY DEF Surjection
    <3>2. IsFiniteSet(t.documents)
      BY DEF TableInv
    <3> HIDE DEF f, ids
    <3>3. QED
      BY <3>1, <3>2, FS_Surjection
  <2>3. \A d \in t.documents : d.id \in ids
    OBVIOUS
  <2>4. NewId(t.documents) = 1 + Max(ids)
    BY <1>2 DEF NewId
  <2> HIDE DEF ids
  <2>5. Max(ids) \in ids /\ \A x \in ids : x <= Max(ids)
    BY <2>1, <2>2, MaxOfNats
  <2>6. Max(ids) \in Nat
    BY <2>1, <2>5
  <2>7. ASSUME NEW d \in t.documents PROVE d.id < 1 + Max(ids)
    <3>1. d.id <= Max(ids) /\ d.id \in Nat
      BY <2>1, <2>3, <2>5
    <3>2. QED
      BY <2>6, <3>1
  <2>8. QED
    BY <2>4, <2>6, <2>7
<1>3. QED
  BY <1>1, <1>2

(* What each write does to each table. *)
LEMMA InsertDocumentFields ==
  ASSUME NEW t \in Tables, NEW w
  PROVE  LET u == InsertDocument(t, w) IN
         /\ u.metrics = t.metrics /\ u.samples = t.samples /\ u.logs = t.logs
         /\ u.documents = t.documents \cup {[op |-> w.op, ts |-> w.ts, id |-> NewId(t.documents)]}
         /\ u.embeddings = t.embeddings
         /\ u = [metrics |-> u.metrics, samples |-> u.samples, logs |-> u.logs,
                 documents |-> u.documents, embeddings |-> u.embeddings]
<1> DEFINE new == t.documents \cup {[op |-> w.op, ts |-> w.ts, id |-> NewId(t.documents)]}
<1>1. InsertDocument(t, w) = [t EXCEPT !.documents = new]
  BY DEF InsertDocument
<1> HIDE DEF new
<1>2. [t EXCEPT !.documents = new].documents = new
  BY DEF Tables
<1>3. [t EXCEPT !.documents = new] =
        [metrics |-> t.metrics, samples |-> t.samples, logs |-> t.logs,
         documents |-> new, embeddings |-> t.embeddings]
  BY DEF Tables
<1>4. QED
  BY <1>1, <1>2, <1>3 DEF new

(* What apply_op does to each table. *)
LEMMA AppliedFields ==
  ASSUME NEW t \in Tables, NEW w \in WriteOp
  PROVE  LET u == Applied(t, w)
             id == NewId(t.documents) IN
         /\ u.metrics = IF w.kind = "metric" THEN Upsert(t.metrics, w) ELSE t.metrics
         /\ u.samples = IF w.kind = "sample" THEN Upsert(t.samples, w) ELSE t.samples
         /\ u.logs = IF w.kind = "log" THEN t.logs \cup {RowOf(w)} ELSE t.logs
         /\ u.documents = IF w.kind = "document"
                          THEN t.documents \cup {[op |-> w.op, ts |-> w.ts, id |-> id]}
                          ELSE t.documents
         /\ u.embeddings = IF w.kind = "document"
                           THEN {e \in t.embeddings : e.id # id} \cup {[op |-> w.op, id |-> id]}
                           ELSE t.embeddings
         /\ u = [metrics |-> u.metrics, samples |-> u.samples, logs |-> u.logs,
                 documents |-> u.documents, embeddings |-> u.embeddings]
<1>1. w.kind \in {"metric", "sample", "document", "log"}
  BY DEF WriteOp, Kinds
<1>2. CASE w.kind = "metric"
  BY <1>2 DEF Applied, Tables
<1>3. CASE w.kind = "sample"
  BY <1>3 DEF Applied, Tables
<1>4. CASE w.kind = "log"
  BY <1>4 DEF Applied, Tables
<1>5. CASE w.kind = "document"
  <2>1. Applied(t, w) = InsertEmbedding(InsertDocument(t, w), NewId(t.documents), w)
    BY <1>5 DEF Applied
  <2> DEFINE v == InsertDocument(t, w)
             new == {e \in t.embeddings : e.id # NewId(t.documents)}
                      \cup {[op |-> w.op, id |-> NewId(t.documents)]}
  <2>2. /\ v.metrics = t.metrics /\ v.samples = t.samples /\ v.logs = t.logs
        /\ v.documents = t.documents \cup {[op |-> w.op, ts |-> w.ts, id |-> NewId(t.documents)]}
        /\ v.embeddings = t.embeddings
        /\ v = [metrics |-> v.metrics, samples |-> v.samples, logs |-> v.logs,
                documents |-> v.documents, embeddings |-> v.embeddings]
    BY InsertDocumentFields
  <2>3. Applied(t, w) = [v EXCEPT !.embeddings = new]
    BY <2>1, <2>2 DEF InsertEmbedding
  <2> HIDE DEF v, new
  <2>4. Applied(t, w) = [metrics |-> v.metrics, samples |-> v.samples, logs |-> v.logs,
                         documents |-> v.documents, embeddings |-> new]
    BY <2>2, <2>3
  <2>5. QED
    BY <1>5, <2>2, <2>4 DEF new
<1>6. QED
  BY <1>1, <1>2, <1>3, <1>4, <1>5

(* INSERT OR REPLACE keeps the key and adds a row at most. *)
LEMMA UpsertInv ==
  ASSUME NEW rows \in SUBSET Row, IsFiniteSet(rows), NEW w \in WriteOp,
         \A r, s \in rows : r.ts = s.ts => r = s
  PROVE  /\ Upsert(rows, w) \in SUBSET Row /\ IsFiniteSet(Upsert(rows, w))
         /\ \A r, s \in Upsert(rows, w) : r.ts = s.ts => r = s
         /\ Cardinality(rows) \in Nat /\ Cardinality(Upsert(rows, w)) \in Nat
         /\ Cardinality(Upsert(rows, w)) <= Cardinality(rows) + 1
<1> DEFINE rest == {r \in rows : r.ts # w.ts}
<1>1. IsFiniteSet(rest) /\ Cardinality(rest) <= Cardinality(rows)
  BY FS_Subset
<1>2. Upsert(rows, w) = rest \cup {RowOf(w)}
  BY DEF Upsert
<1>3. RowOf(w) \in Row /\ RowOf(w).ts = w.ts
  BY DEF RowOf, Row, WriteOp
<1>4. /\ Upsert(rows, w) \in SUBSET Row
      /\ \A r, s \in Upsert(rows, w) : r.ts = s.ts => r = s
  BY <1>2, <1>3
<1> HIDE DEF rest
<1>5. /\ IsFiniteSet(Upsert(rows, w))
      /\ Cardinality(Upsert(rows, w)) = IF RowOf(w) \in rest THEN Cardinality(rest) ELSE Cardinality(rest) + 1
  BY <1>1, <1>2, FS_AddElement
<1>6. Cardinality(rows) \in Nat /\ Cardinality(rest) \in Nat
  BY <1>1, FS_CardinalityType
<1>7. Cardinality(Upsert(rows, w)) <= Cardinality(rows) + 1 /\ Cardinality(Upsert(rows, w)) \in Nat
  BY <1>1, <1>5, <1>6
<1>8. QED
  BY <1>4, <1>5, <1>6, <1>7

(* A document without its vector: what a failure leaves of its insertion.   *)
LEMMA InsertDocumentInv ==
  ASSUME NEW t, TableInv(t), NEW w \in WriteOp
  PROVE  LET u == InsertDocument(t, w) IN
         /\ TableInv(u) /\ \A n : LogsTo(t, n) => LogsTo(u, n)
         /\ Paired(t) /\ NoOrphan(t) => Paired(u) /\ NoOrphan(u)
<1> DEFINE u == InsertDocument(t, w)
           new == [op |-> w.op, ts |-> w.ts, id |-> NewId(t.documents)]
<1>1. t \in Tables
  BY DEF TableInv
<1>2. /\ u.metrics = t.metrics /\ u.samples = t.samples /\ u.logs = t.logs
      /\ u.documents = t.documents \cup {new}
      /\ u.embeddings = t.embeddings
      /\ u = [metrics |-> u.metrics, samples |-> u.samples, logs |-> u.logs,
              documents |-> u.documents, embeddings |-> u.embeddings]
  BY <1>1, InsertDocumentFields
<1>3. NewId(t.documents) \in Nat /\ \A d \in t.documents : d.id < NewId(t.documents)
  BY NewIdFresh
<1>4. new \in Document /\ new.id = NewId(t.documents)
  BY <1>3 DEF Document, WriteOp
<1>5. IsFiniteSet(u.documents)
  <2>1. IsFiniteSet(t.documents)
    BY DEF TableInv
  <2>2. IsFiniteSet(t.documents \cup {new})
    BY <2>1, FS_AddElement
  <2>3. QED
    BY <1>2, <2>2
<1>6. \A d \in t.documents : d.id \in Nat
  BY <1>1 DEF Tables, Document
<1>7. \A e \in t.embeddings : e.id \in Nat
  BY <1>1 DEF Tables, Embedding
<1> HIDE DEF u, new
<1>8. u \in Tables
  BY <1>1, <1>2, <1>4 DEF Tables
<1>9. \A d, e \in u.documents : d.id = e.id => d = e
  BY <1>2, <1>3, <1>4, <1>6 DEF TableInv
<1>10. TableInv(u)
  BY <1>2, <1>5, <1>8, <1>9 DEF TableInv
<1>11. \A n : LogsTo(t, n) => LogsTo(u, n)
  BY <1>2 DEF LogsTo
<1>12. ASSUME Paired(t), NoOrphan(t) PROVE Paired(u) /\ NoOrphan(u)
  BY <1>2, <1>3, <1>4, <1>6, <1>7, <1>12 DEF Paired, NoOrphan
<1>13. QED
  BY <1>10, <1>11, <1>12 DEF u

(* A write newer than every log keeps the keys, and vectors with documents. *)
LEMMA AppliedInv ==
  ASSUME NEW t, TableInv(t), NEW w \in WriteOp, \A r \in t.logs : r.op < w.op
  PROVE  LET u == Applied(t, w) IN
         /\ TableInv(u) /\ LogsTo(u, w.op)
         /\ Paired(t) => Paired(u)
         /\ NoOrphan(t) => NoOrphan(u)
         /\ NoneBare(t) => NoneBare(u)
<1> DEFINE u == Applied(t, w)
           id == NewId(t.documents)
           new == [op |-> w.op, ts |-> w.ts, id |-> id]
           vector == [op |-> w.op, id |-> id]
<1>1. t \in Tables
  BY DEF TableInv
<1>2. /\ u.metrics = IF w.kind = "metric" THEN Upsert(t.metrics, w) ELSE t.metrics
      /\ u.samples = IF w.kind = "sample" THEN Upsert(t.samples, w) ELSE t.samples
      /\ u.logs = IF w.kind = "log" THEN t.logs \cup {RowOf(w)} ELSE t.logs
      /\ u.documents = IF w.kind = "document" THEN t.documents \cup {new} ELSE t.documents
      /\ u.embeddings = IF w.kind = "document"
                        THEN {e \in t.embeddings : e.id # id} \cup {vector}
                        ELSE t.embeddings
      /\ u = [metrics |-> u.metrics, samples |-> u.samples, logs |-> u.logs,
              documents |-> u.documents, embeddings |-> u.embeddings]
  BY <1>1, AppliedFields
<1>3. id \in Nat /\ \A d \in t.documents : d.id < id
  BY NewIdFresh
<1>4. /\ new \in Document /\ new.id = id /\ new.op = w.op
      /\ vector \in Embedding /\ vector.id = id /\ vector.op = w.op
      /\ RowOf(w) \in Row /\ RowOf(w).op = w.op /\ w.op \in Nat
  BY <1>3 DEF Document, Embedding, WriteOp, RowOf, Row
<1>5. /\ \A d \in t.documents : d.id \in Nat
      /\ \A r \in t.logs : r.op \in Nat
  BY <1>1 DEF Tables, Document, Row
<1>6. /\ t.metrics \in SUBSET Row /\ t.samples \in SUBSET Row /\ t.logs \in SUBSET Row
      /\ t.documents \in SUBSET Document /\ t.embeddings \in SUBSET Embedding
  BY <1>1 DEF Tables
<1> HIDE DEF u, new, vector, id
<1>7. /\ u.metrics \in SUBSET Row /\ IsFiniteSet(u.metrics)
      /\ \A r, s \in u.metrics : r.ts = s.ts => r = s
  <2>1. CASE w.kind = "metric"
    BY <1>2, <1>6, <2>1, UpsertInv DEF TableInv
  <2>2. CASE w.kind # "metric"
    BY <1>2, <1>6, <2>2 DEF TableInv
  <2>3. QED
    BY <2>1, <2>2
<1>8. /\ u.samples \in SUBSET Row /\ IsFiniteSet(u.samples)
      /\ \A r, s \in u.samples : r.ts = s.ts => r = s
  <2>1. CASE w.kind = "sample"
    BY <1>2, <1>6, <2>1, UpsertInv DEF TableInv
  <2>2. CASE w.kind # "sample"
    BY <1>2, <1>6, <2>2 DEF TableInv
  <2>3. QED
    BY <2>1, <2>2
<1>9. IsFiniteSet(u.logs) /\ IsFiniteSet(u.documents)
  <2>1. IsFiniteSet(t.logs) /\ IsFiniteSet(t.documents)
    BY DEF TableInv
  <2>2. IsFiniteSet(t.logs \cup {RowOf(w)}) /\ IsFiniteSet(t.documents \cup {new})
    BY <2>1, FS_AddElement
  <2>3. QED
    BY <1>2, <2>1, <2>2
<1>10. \A r, s \in u.logs : r.op = s.op => r = s
  BY <1>2, <1>4, <1>5 DEF TableInv
<1>11. \A d, e \in u.documents : d.id = e.id => d = e
  BY <1>2, <1>3, <1>4, <1>5 DEF TableInv
<1>12. /\ u.logs \in SUBSET Row /\ u.documents \in SUBSET Document
       /\ u.embeddings \in SUBSET Embedding
  BY <1>2, <1>4, <1>6
<1>13. u \in Tables
  BY <1>2, <1>7, <1>8, <1>12 DEF Tables
<1>14. TableInv(u)
  BY <1>7, <1>8, <1>9, <1>10, <1>11, <1>13 DEF TableInv
<1>15. LogsTo(u, w.op)
  BY <1>2, <1>4, <1>5 DEF LogsTo
<1>16. Paired(t) => Paired(u)
  BY <1>2, <1>3, <1>4, <1>5 DEF Paired
<1>17. NoOrphan(t) => NoOrphan(u)
  BY <1>2, <1>3, <1>4, <1>5 DEF NoOrphan
<1>18. NoneBare(t) => NoneBare(u)
  BY <1>2, <1>3, <1>4, <1>5 DEF NoneBare
<1>19. QED
  BY <1>14, <1>15, <1>16, <1>17, <1>18 DEF u

(* A write adds at most one row to each table. *)
LEMMA AppliedWithin ==
  ASSUME NEW t, TableInv(t), NEW w \in WriteOp, NEW n \in Nat, Within(t, n)
  PROVE  Within(Applied(t, w), n + 1)
<1> DEFINE u == Applied(t, w)
           new == [op |-> w.op, ts |-> w.ts, id |-> NewId(t.documents)]
<1>1. /\ IsFiniteSet(t.metrics) /\ IsFiniteSet(t.samples) /\ IsFiniteSet(t.logs)
      /\ IsFiniteSet(t.documents) /\ t \in Tables
  BY DEF TableInv
<1>2. /\ u.metrics = IF w.kind = "metric" THEN Upsert(t.metrics, w) ELSE t.metrics
      /\ u.samples = IF w.kind = "sample" THEN Upsert(t.samples, w) ELSE t.samples
      /\ u.logs = IF w.kind = "log" THEN t.logs \cup {RowOf(w)} ELSE t.logs
      /\ u.documents = IF w.kind = "document" THEN t.documents \cup {new} ELSE t.documents
  BY <1>1, AppliedFields
<1>3. t.metrics \in SUBSET Row /\ t.samples \in SUBSET Row
  BY <1>1 DEF Tables
<1>4. /\ Cardinality(t.metrics) \in Nat /\ Cardinality(t.samples) \in Nat
      /\ Cardinality(t.logs) \in Nat /\ Cardinality(t.documents) \in Nat
  BY <1>1, FS_CardinalityType
<1> HIDE DEF u, new
<1>5. /\ Cardinality(u.metrics) \in Nat
      /\ Cardinality(u.metrics) <= Cardinality(t.metrics) + 1
  BY <1>1, <1>2, <1>3, <1>4, UpsertInv DEF TableInv
<1>6. /\ Cardinality(u.samples) \in Nat
      /\ Cardinality(u.samples) <= Cardinality(t.samples) + 1
  BY <1>1, <1>2, <1>3, <1>4, UpsertInv DEF TableInv
<1>7. /\ Cardinality(u.logs) \in Nat
      /\ Cardinality(u.logs) <= Cardinality(t.logs) + 1
  <2>1. Cardinality(t.logs \cup {RowOf(w)}) \in {Cardinality(t.logs), Cardinality(t.logs) + 1}
    BY <1>1, FS_AddElement
  <2>2. QED
    BY <1>2, <1>4, <2>1
<1>8. /\ Cardinality(u.documents) \in Nat
      /\ Cardinality(u.documents) <= Cardinality(t.documents) + 1
  <2>1. Cardinality(t.documents \cup {new}) \in {Cardinality(t.documents), Cardinality(t.documents) + 1}
    BY <1>1, FS_AddElement
  <2>2. QED
    BY <1>2, <1>4, <2>1
<1>9. QED
  BY <1>4, <1>5, <1>6, <1>7, <1>8, TableConstants DEF Within, u

(* u is t without some of its rows. *)
PartOf(u, t) ==
  /\ u \in Tables
  /\ u.metrics \subseteq t.metrics /\ u.samples \subseteq t.samples /\ u.logs \subseteq t.logs
  /\ u.documents \subseteq t.documents /\ u.embeddings \subseteq t.embeddings

(* A prune only removes, and removes the vectors of what it removes. *)
LEMMA PrunedPart ==
  ASSUME NEW t \in Tables, NEW now
  PROVE  /\ PartOf(Pruned(t, now), t) /\ NoOrphan(Pruned(t, now))
         /\ NoneBare(t) => NoneBare(Pruned(t, now))
  BY DEF PartOf, Pruned, Newest, Recent, Tables, NoOrphan, NoneBare

(* So does one of whose statements one fails, *)
LEMMA PrunedButOnePart ==
  ASSUME NEW t \in Tables, NEW now, NEW u \in PrunedButOne(t, now)
  PROVE  PartOf(u, t)
<1> DEFINE p == Pruned(t, now)
<1>1. PartOf(p, t)
  BY PrunedPart
<1>2. u \in {[p EXCEPT !.metrics = t.metrics], [p EXCEPT !.samples = t.samples],
             [p EXCEPT !.logs = t.logs], [p EXCEPT !.embeddings = t.embeddings],
             [p EXCEPT !.documents = t.documents,
                !.embeddings = {e \in t.embeddings : \E d \in t.documents : d.id = e.id}]}
  BY DEF PrunedButOne
<1> HIDE DEF p
<1>3. QED
  BY <1>1, <1>2 DEF PartOf, Tables

(* and one that the process does not survive. *)
LEMMA HalfPrunedPart ==
  ASSUME NEW t \in Tables, NEW now, NEW u \in HalfPruned(t, now)
  PROVE  PartOf(u, t)
<1> DEFINE p == Pruned(t, now)
<1>1. PartOf(p, t)
  BY PrunedPart
<1>2. u \in {[t EXCEPT !.metrics = p.metrics],
             [t EXCEPT !.metrics = p.metrics, !.documents = p.documents],
             [p EXCEPT !.embeddings = t.embeddings, !.samples = t.samples],
             [p EXCEPT !.samples = t.samples]}
  BY DEF HalfPruned
<1> HIDE DEF p
<1>3. QED
  BY <1>1, <1>2 DEF PartOf, Tables

(* What is left of tables that have their keys has them. *)
LEMMA PartInv ==
  ASSUME NEW t, TableInv(t), NEW u, PartOf(u, t)
  PROVE  /\ TableInv(u) /\ \A n : LogsTo(t, n) => LogsTo(u, n)
         /\ Paired(t) => Paired(u)
<1>1. TableInv(u) /\ \A n : LogsTo(t, n) => LogsTo(u, n)
  BY Shrunk DEF PartOf
<1>2. Paired(t) => Paired(u)
  BY ShrunkPaired DEF PartOf
<1>3. QED
  BY <1>1, <1>2

(* A prune leaves of each table what it is to leave: the newest rows, of    *)
(* which no two are equally new.                                           *)
LEMMA NewestTs ==
  ASSUME NEW rows \in SUBSET Row, IsFiniteSet(rows), NEW keep \in Nat,
         \A r, s \in rows : r.ts = s.ts => r = s
  PROVE  Cardinality(Newest(rows, keep, NewerTs)) <= keep
<1> DEFINE above == [r \in rows |-> {s \in rows : NewerTs(s, r)}]
           N == Newest(rows, keep, NewerTs)
<1>1. \A r \in rows : r.ts \in Nat
  BY TableConstants DEF Row
<1>2. above \in [rows -> SUBSET rows]
  OBVIOUS
<1>3. \A r, s \in rows : s \in above[r] <=> s.ts > r.ts
  BY DEF NewerTs
<1>4. N \in SUBSET rows /\ \A r \in N : Cardinality(above[r]) < keep
  BY DEF Newest
<1> HIDE DEF above, N
<1>5. /\ \A r \in rows : r \notin above[r]
      /\ \A r, s \in rows : r # s => r \in above[s] \/ s \in above[r]
      /\ \A r, s \in rows : r \in above[s] => above[r] \subseteq above[s]
  BY <1>1, <1>2, <1>3
<1>6. Cardinality(N) <= keep
  BY <1>2, <1>4, <1>5, FewAreGreatest
<1>7. QED
  BY <1>6 DEF N

(* The same for the order of the logs, *)
LEMMA NewestOp ==
  ASSUME NEW rows \in SUBSET Row, IsFiniteSet(rows), NEW keep \in Nat,
         \A r, s \in rows : r.op = s.op => r = s
  PROVE  Cardinality(Newest(rows, keep, NewerOp)) <= keep
<1> DEFINE above == [r \in rows |-> {s \in rows : NewerOp(s, r)}]
           N == Newest(rows, keep, NewerOp)
<1>1. \A r \in rows : r.op \in Nat
  BY DEF Row
<1>2. above \in [rows -> SUBSET rows]
  OBVIOUS
<1>3. \A r, s \in rows : s \in above[r] <=> s.op > r.op
  BY DEF NewerOp
<1>4. N \in SUBSET rows /\ \A r \in N : Cardinality(above[r]) < keep
  BY DEF Newest
<1> HIDE DEF above, N
<1>5. /\ \A r \in rows : r \notin above[r]
      /\ \A r, s \in rows : r # s => r \in above[s] \/ s \in above[r]
      /\ \A r, s \in rows : r \in above[s] => above[r] \subseteq above[s]
  BY <1>1, <1>2, <1>3
<1>6. Cardinality(N) <= keep
  BY <1>2, <1>4, <1>5, FewAreGreatest
<1>7. QED
  BY <1>6 DEF N

(* and for that of the documents. *)
LEMMA NewestDocuments ==
  ASSUME NEW rows \in SUBSET Document, IsFiniteSet(rows), NEW keep \in Nat,
         \A r, s \in rows : r.id = s.id => r = s
  PROVE  Cardinality(Newest(rows, keep, NewerDocument)) <= keep
<1> DEFINE above == [r \in rows |-> {s \in rows : NewerDocument(s, r)}]
           N == Newest(rows, keep, NewerDocument)
<1>1. \A r \in rows : r.ts \in Nat /\ r.id \in Nat
  BY TableConstants DEF Document
<1>2. above \in [rows -> SUBSET rows]
  OBVIOUS
<1>3. \A r, s \in rows : s \in above[r] <=> s.ts > r.ts \/ (s.ts = r.ts /\ s.id > r.id)
  BY DEF NewerDocument
<1>4. N \in SUBSET rows /\ \A r \in N : Cardinality(above[r]) < keep
  BY DEF Newest
<1> HIDE DEF above, N
<1>5. /\ \A r \in rows : r \notin above[r]
      /\ \A r, s \in rows : r # s => r \in above[s] \/ s \in above[r]
      /\ \A r, s \in rows : r \in above[s] => above[r] \subseteq above[s]
  BY <1>1, <1>2, <1>3
<1>6. Cardinality(N) <= keep
  BY <1>2, <1>4, <1>5, FewAreGreatest
<1>7. QED
  BY <1>6 DEF N

(* Recent rows are rows. *)
LEMMA RecentPart ==
  ASSUME NEW rows, IsFiniteSet(rows), NEW now
  PROVE  Recent(rows, now) \subseteq rows /\ IsFiniteSet(Recent(rows, now))
<1>1. Recent(rows, now) \in SUBSET rows
  BY DEF Recent
<1>2. QED
  BY <1>1, FS_Subset

(* A prune leaves of every table what it is to keep of it. *)
LEMMA PrunedWithin ==
  ASSUME NEW t, TableInv(t), NEW now
  PROVE  Within(Pruned(t, now), 0)
<1> DEFINE u == Pruned(t, now)
<1>1. /\ t.metrics \in SUBSET Row /\ t.samples \in SUBSET Row /\ t.logs \in SUBSET Row
      /\ t.documents \in SUBSET Document
  BY DEF TableInv, Tables
<1>2. /\ IsFiniteSet(t.metrics) /\ IsFiniteSet(t.samples) /\ IsFiniteSet(t.logs)
      /\ IsFiniteSet(t.documents)
  BY DEF TableInv
<1>3. Cardinality(u.metrics) <= KeepMetrics
  <2>1. u.metrics = Newest(Recent(t.metrics, now), KeepMetrics, NewerTs)
    BY DEF Pruned
  <2>2. \A r, s \in Recent(t.metrics, now) : r.ts = s.ts => r = s
    BY <1>2, RecentPart DEF TableInv
  <2>3. QED
    BY <1>1, <1>2, <2>1, <2>2, RecentPart, NewestTs, TableConstants
<1>4. Cardinality(u.samples) <= KeepSamples
  <2>1. u.samples = Newest(t.samples, KeepSamples, NewerTs)
    BY DEF Pruned
  <2>2. QED
    BY <1>1, <1>2, <2>1, NewestTs, TableConstants DEF TableInv
<1>5. Cardinality(u.logs) <= KeepLogs
  <2>1. u.logs = Newest(Recent(t.logs, now), KeepLogs, NewerOp)
    BY DEF Pruned
  <2>2. \A r, s \in Recent(t.logs, now) : r.op = s.op => r = s
    BY <1>2, RecentPart DEF TableInv
  <2>3. QED
    BY <1>1, <1>2, <2>1, <2>2, RecentPart, NewestOp, TableConstants
<1>6. Cardinality(u.documents) <= KeepDocs
  <2>1. u.documents = Newest(Recent(t.documents, now), KeepDocs, NewerDocument)
    BY DEF Pruned
  <2>2. \A r, s \in Recent(t.documents, now) : r.id = s.id => r = s
    BY <1>2, RecentPart DEF TableInv
  <2>3. QED
    BY <1>1, <1>2, <2>1, <2>2, RecentPart, NewestDocuments, TableConstants
<1> HIDE DEF u
<1>7. QED
  BY <1>3, <1>4, <1>5, <1>6, TableConstants DEF Within, u

-----------------------------------------------------------------------------
(* The writes among the messages of the channel *)

Messages == WriteOp \cup {Sync, Abandoned}

(* Writes and the messages of flush. *)
LEMMA MessageKinds ==
  ASSUME NEW m \in Messages
  PROVE  /\ IsWrite(m) <=> m \in WriteOp
         /\ ~IsWrite(m) <=> m \in {Sync, Abandoned}
         /\ Sync # Abandoned /\ ~IsWrite(Sync) /\ ~IsWrite(Abandoned)
<1>1. Sync.kind = "sync" /\ Abandoned.kind = "abandoned"
  BY DEF Sync, Abandoned
<1>2. \A w \in WriteOp : w.kind \in Kinds
  BY DEF WriteOp
<1>3. QED
  BY <1>1, <1>2 DEF Messages, IsWrite, Kinds

(* f is the function among of WritesIn(q). *)
IsAmong(f, q) ==
  f = [i \in 0 .. Len(q) |->
         IF i = 0 THEN <<>>
         ELSE IF IsWrite(q[i]) THEN Append(f[i - 1], q[i]) ELSE f[i - 1]]

(* WritesIn is well defined: there is such a function. *)
LEMMA AmongExists ==
  ASSUME NEW q \in Seq(Messages)
  PROVE  \E f : IsAmong(f, q) /\ WritesIn(q) = f[Len(q)]
<1> DEFINE Def(g, n) == [i \in 0 .. n |->
                           IF i = 0 THEN <<>>
                           ELSE IF IsWrite(q[i]) THEN Append(g[i - 1], q[i]) ELSE g[i - 1]]
           S == {n \in Nat : \E g : g = Def(g, n)}
<1>1. 0 \in S
  <2> DEFINE h == [i \in 0 .. 0 |-> <<>>]
  <2>1. h = Def(h, 0)
    OBVIOUS
  <2>2. QED
    BY <2>1
<1>2. ASSUME NEW n \in Nat, n \in S PROVE n + 1 \in S
  <2>1. PICK g : g = Def(g, n)
    BY <1>2
  <2> DEFINE h == [i \in 0 .. n + 1 |->
                     IF i = n + 1 THEN IF IsWrite(q[n + 1]) THEN Append(g[n], q[n + 1]) ELSE g[n]
                     ELSE g[i]]
  <2>2. ASSUME NEW i \in 0 .. n + 1 PROVE h[i] = Def(h, n + 1)[i]
    <3>1. CASE i = n + 1
      BY <3>1
    <3>2. CASE i # n + 1
      <4>1. i \in 0 .. n /\ h[i] = g[i] /\ (i # 0 => h[i - 1] = g[i - 1])
        BY <3>2
      <4>2. g[i] = Def(g, n)[i]
        BY <2>1, Zenon
      <4>3. Def(g, n)[i] = IF i = 0 THEN <<>>
                           ELSE IF IsWrite(q[i]) THEN Append(g[i - 1], q[i]) ELSE g[i - 1]
        BY <4>1
      <4>4. Def(h, n + 1)[i] = IF i = 0 THEN <<>>
                               ELSE IF IsWrite(q[i]) THEN Append(h[i - 1], q[i]) ELSE h[i - 1]
        OBVIOUS
      <4> HIDE DEF h, Def
      <4>5. QED
        BY <4>1, <4>2, <4>3, <4>4
    <3>3. QED
      BY <3>1, <3>2
  <2>3. h = Def(h, n + 1)
    BY <2>2
  <2>4. \E x : x = Def(x, n + 1)
    BY <2>3
  <2>5. QED
    BY <2>4
<1> HIDE DEF S
<1>3. Len(q) \in S
  BY <1>1, <1>2, SetInduction
<1>4. \E g : g = Def(g, Len(q))
  BY <1>3 DEF S
<1> DEFINE f == CHOOSE g : g = Def(g, Len(q))
<1>5. f = Def(f, Len(q))
  BY <1>4
<1>6. WritesIn(q) = f[Len(q)]
  BY DEF WritesIn
<1> HIDE DEF f
<1>7. IsAmong(f, q)
  BY <1>5 DEF IsAmong
<1>8. QED
  BY <1>6, <1>7

(* Its values, one message after the other. *)
LEMMA AmongStep ==
  ASSUME NEW q \in Seq(Messages), NEW f, IsAmong(f, q)
  PROVE  /\ f[0] = <<>>
         /\ \A k \in Nat : k + 1 <= Len(q) =>
              f[k + 1] = IF IsWrite(q[k + 1]) THEN Append(f[k], q[k + 1]) ELSE f[k]
<1> DEFINE e == [i \in 0 .. Len(q) |->
                   IF i = 0 THEN <<>>
                   ELSE IF IsWrite(q[i]) THEN Append(f[i - 1], q[i]) ELSE f[i - 1]]
<1>1. f = e
  BY DEF IsAmong
<1>2. e[0] = <<>>
  OBVIOUS
<1>3. ASSUME NEW k \in Nat, k + 1 <= Len(q)
      PROVE  e[k + 1] = IF IsWrite(q[k + 1]) THEN Append(f[k], q[k + 1]) ELSE f[k]
  <2>1. k + 1 \in 0 .. Len(q) /\ k + 1 # 0 /\ (k + 1) - 1 = k
    BY <1>3
  <2>2. QED
    BY <2>1
<1> HIDE DEF e
<1>4. QED
  BY <1>1, <1>2, <1>3

(* Its values are writes, those of the messages so far. *)
LEMMA AmongType ==
  ASSUME NEW q \in Seq(Messages), NEW f, IsAmong(f, q), NEW n \in 0 .. Len(q)
  PROVE  /\ f[n] \in Seq(WriteOp)
         /\ Ops(f[n]) \subseteq {q[i].op : i \in {j \in 1 .. n : IsWrite(q[j])}}
<1> DEFINE T(k) == {q[i].op : i \in {j \in 1 .. k : IsWrite(q[j])}}
           S == {k \in Nat : k <= Len(q) => f[k] \in Seq(WriteOp) /\ Ops(f[k]) \subseteq T(k)}
<1>1. 0 \in S
  <2>1. f[0] = <<>>
    BY AmongStep
  <2>2. <<>> \in Seq(WriteOp) /\ Ops(<<>>) = {}
    BY DEF Ops
  <2>3. QED
    BY <2>1, <2>2
<1>2. ASSUME NEW k \in Nat, k \in S PROVE k + 1 \in S
  <2>1. SUFFICES ASSUME k + 1 <= Len(q)
                 PROVE  f[k + 1] \in Seq(WriteOp) /\ Ops(f[k + 1]) \subseteq T(k + 1)
    OBVIOUS
  <2>2. f[k] \in Seq(WriteOp) /\ Ops(f[k]) \subseteq T(k)
    BY <1>2, <2>1
  <2>3. f[k + 1] = IF IsWrite(q[k + 1]) THEN Append(f[k], q[k + 1]) ELSE f[k]
    BY <2>1, AmongStep
  <2>4. T(k) \subseteq T(k + 1)
    OBVIOUS
  <2>5. CASE IsWrite(q[k + 1])
    <3>1. q[k + 1] \in WriteOp /\ q[k + 1].op \in T(k + 1)
      BY <2>1, <2>5, MessageKinds
    <3>2. Ops(Append(f[k], q[k + 1])) \subseteq Ops(f[k]) \cup {q[k + 1].op}
      BY <2>2, <3>1 DEF Ops
    <3> HIDE DEF T
    <3>3. QED
      BY <2>2, <2>3, <2>4, <2>5, <3>1, <3>2
  <2>6. CASE ~IsWrite(q[k + 1])
    BY <2>2, <2>3, <2>4, <2>6
  <2>7. QED
    BY <2>5, <2>6
<1> HIDE DEF S
<1>3. n \in S
  BY <1>1, <1>2, SetInduction
<1>4. QED
  BY <1>3 DEF S

(* Two channels with the same writes up to n. *)
LEMMA AmongSame ==
  ASSUME NEW q \in Seq(Messages), NEW r \in Seq(Messages), NEW f, NEW g,
         IsAmong(f, q), IsAmong(g, r), NEW n \in Nat, n <= Len(q), n <= Len(r),
         \A i \in 1 .. n : q[i] = r[i] \/ (~IsWrite(q[i]) /\ ~IsWrite(r[i]))
  PROVE  f[n] = g[n]
<1> DEFINE S == {k \in Nat : k <= n => f[k] = g[k]}
<1>1. 0 \in S
  BY AmongStep
<1>2. ASSUME NEW k \in Nat, k \in S PROVE k + 1 \in S
  <2>1. SUFFICES ASSUME k + 1 <= n PROVE f[k + 1] = g[k + 1]
    OBVIOUS
  <2>2. /\ f[k + 1] = IF IsWrite(q[k + 1]) THEN Append(f[k], q[k + 1]) ELSE f[k]
        /\ g[k + 1] = IF IsWrite(r[k + 1]) THEN Append(g[k], r[k + 1]) ELSE g[k]
    <3>1. k + 1 <= Len(q) /\ k + 1 <= Len(r)
      BY <2>1
    <3>2. QED
      BY <3>1, AmongStep
  <2>3. f[k] = g[k]
    BY <1>2, <2>1
  <2>4. QED
    BY <2>1, <2>2, <2>3
<1> HIDE DEF S
<1>3. n \in S
  BY <1>1, <1>2, SetInduction
<1>4. QED
  BY <1>3 DEF S

(* WritesIn gives the writes of the channel, *)
LEMMA WritesInType ==
  ASSUME NEW q \in Seq(Messages)
  PROVE  /\ WritesIn(q) \in Seq(WriteOp)
         /\ Ops(WritesIn(q)) \subseteq {q[i].op : i \in {j \in DOMAIN q : IsWrite(q[j])}}
<1>1. PICK f : IsAmong(f, q) /\ WritesIn(q) = f[Len(q)]
  BY AmongExists
<1>2. DOMAIN q = 1 .. Len(q) /\ Len(q) \in 0 .. Len(q)
  OBVIOUS
<1>3. /\ f[Len(q)] \in Seq(WriteOp)
      /\ Ops(f[Len(q)]) \subseteq {q[i].op : i \in {j \in 1 .. Len(q) : IsWrite(q[j])}}
  BY <1>1, <1>2, AmongType
<1>4. QED
  BY <1>1, <1>2, <1>3

(* none of an empty one, *)
LEMMA WritesInEmpty == WritesIn(<<>>) = <<>>
<1>1. <<>> \in Seq(Messages)
  OBVIOUS
<1>2. PICK f : IsAmong(f, <<>>) /\ WritesIn(<<>>) = f[Len(<<>>)]
  BY <1>1, AmongExists
<1>3. QED
  BY <1>2 DEF IsAmong

(* one more when one is sent, *)
LEMMA WritesInAppend ==
  ASSUME NEW q \in Seq(Messages), NEW m \in Messages
  PROVE  WritesIn(Append(q, m)) = IF IsWrite(m) THEN Append(WritesIn(q), m) ELSE WritesIn(q)
<1> DEFINE r == Append(q, m)
<1>1. r \in Seq(Messages) /\ Len(r) = Len(q) + 1 /\ r[Len(q) + 1] = m
  OBVIOUS
<1>2. PICK f : IsAmong(f, q) /\ WritesIn(q) = f[Len(q)]
  BY AmongExists
<1>3. PICK g : IsAmong(g, r) /\ WritesIn(r) = g[Len(r)]
  BY <1>1, AmongExists
<1>4. \A i \in 1 .. Len(q) : q[i] = r[i]
  OBVIOUS
<1> HIDE DEF r
<1>5. f[Len(q)] = g[Len(q)]
  BY <1>1, <1>2, <1>3, <1>4, AmongSame
<1>6. g[Len(q) + 1] = IF IsWrite(m) THEN Append(g[Len(q)], m) ELSE g[Len(q)]
  <2>1. Len(q) \in Nat /\ Len(q) + 1 <= Len(r)
    BY <1>1
  <2>2. QED
    BY <1>1, <1>3, <2>1, AmongStep
<1>7. QED
  BY <1>1, <1>2, <1>3, <1>5, <1>6 DEF r

(* Messages that are no writes may become others. *)
LEMMA WritesInSame ==
  ASSUME NEW q \in Seq(Messages), NEW r \in Seq(Messages), Len(q) = Len(r),
         \A i \in 1 .. Len(q) : q[i] = r[i] \/ (~IsWrite(q[i]) /\ ~IsWrite(r[i]))
  PROVE  WritesIn(q) = WritesIn(r)
<1>1. PICK f : IsAmong(f, q) /\ WritesIn(q) = f[Len(q)]
  BY AmongExists
<1>2. PICK g : IsAmong(g, r) /\ WritesIn(r) = g[Len(r)]
  BY AmongExists
<1>3. QED
  BY <1>1, <1>2, AmongSame

(* Appending to a concatenation. *)
LEMMA AppendOverConcat ==
  ASSUME NEW s \in Seq(WriteOp), NEW t \in Seq(WriteOp), NEW x \in WriteOp
  PROVE  Append(s \o t, x) = s \o Append(t, x)
<1> DEFINE l == Append(s \o t, x)
           r == s \o Append(t, x)
<1>1. l \in Seq(WriteOp) /\ r \in Seq(WriteOp) /\ Len(l) = Len(s) + Len(t) + 1 /\ Len(r) = Len(l)
  OBVIOUS
<1>2. ASSUME NEW i \in 1 .. Len(l) PROVE l[i] = r[i]
  OBVIOUS
<1> HIDE DEF l, r
<1>3. l = r
  BY <1>1, <1>2, SeqEqual
<1>4. QED
  BY <1>3 DEF l, r

(* Receiving the first message takes the first write, if it is one. *)
LEMMA WritesInTail ==
  ASSUME NEW q \in Seq(Messages), q # <<>>
  PROVE  WritesIn(q) = IF IsWrite(Head(q)) THEN <<Head(q)>> \o WritesIn(Tail(q))
                       ELSE WritesIn(Tail(q))
<1> DEFINE r == Tail(q)
           start == IF IsWrite(Head(q)) THEN <<Head(q)>> ELSE <<>>
<1>1. r \in Seq(Messages) /\ Len(r) = Len(q) - 1 /\ \A i \in 1 .. Len(r) : r[i] = q[i + 1]
  OBVIOUS
<1>2. PICK f : IsAmong(f, q) /\ WritesIn(q) = f[Len(q)]
  BY AmongExists
<1>3. PICK g : IsAmong(g, r) /\ WritesIn(r) = g[Len(r)]
  BY <1>1, AmongExists
<1>4. start \in Seq(WriteOp)
  <2>1. Head(q) \in Messages
    OBVIOUS
  <2>2. QED
    BY <2>1, MessageKinds
<1>5. Len(q) >= 1 /\ Head(q) = q[1] /\ Len(r) \in Nat
  BY <1>1
<1> HIDE DEF r, start
<1> DEFINE S == {k \in Nat : k <= Len(r) => f[k + 1] = start \o g[k]}
<1>6. 0 \in S
  <2>1. f[0] = <<>> /\ g[0] = <<>>
    BY <1>1, <1>2, <1>3, AmongStep
  <2>2. f[0 + 1] = IF IsWrite(q[0 + 1]) THEN Append(f[0], q[0 + 1]) ELSE f[0]
    BY <1>2, <1>5, AmongStep
  <2>3. f[1] = IF IsWrite(q[1]) THEN <<q[1]>> ELSE <<>>
    BY <2>1, <2>2
  <2>4. start \o <<>> = start
    BY <1>4
  <2>5. f[0 + 1] = start \o g[0]
    BY <1>5, <2>1, <2>3, <2>4 DEF start
  <2>6. QED
    BY <2>5
<1>7. ASSUME NEW k \in Nat, k \in S PROVE k + 1 \in S
  <2>1. SUFFICES ASSUME k + 1 <= Len(r) PROVE f[k + 2] = start \o g[k + 1]
    OBVIOUS
  <2>2. f[k + 1] = start \o g[k]
    BY <1>5, <1>7, <2>1
  <2>3. /\ f[k + 2] = IF IsWrite(q[k + 2]) THEN Append(f[k + 1], q[k + 2]) ELSE f[k + 1]
        /\ g[k + 1] = IF IsWrite(r[k + 1]) THEN Append(g[k], r[k + 1]) ELSE g[k]
    <3>1. k + 1 \in Nat /\ (k + 1) + 1 <= Len(q) /\ (k + 1) + 1 = k + 2
      BY <1>1, <2>1
    <3>2. f[(k + 1) + 1] = IF IsWrite(q[(k + 1) + 1]) THEN Append(f[k + 1], q[(k + 1) + 1]) ELSE f[k + 1]
      BY <1>2, <3>1, AmongStep
    <3>3. g[k + 1] = IF IsWrite(r[k + 1]) THEN Append(g[k], r[k + 1]) ELSE g[k]
      BY <1>1, <1>3, <2>1, AmongStep
    <3>4. QED
      BY <3>1, <3>2, <3>3
  <2>4. r[k + 1] = q[k + 2] /\ q[k + 2] \in Messages
    BY <1>1, <2>1
  <2>5. g[k] \in Seq(WriteOp)
    BY <1>1, <1>3, <2>1, AmongType
  <2>6. IsWrite(q[k + 2]) => q[k + 2] \in WriteOp
    BY <2>4, MessageKinds
  <2>7. ASSUME IsWrite(q[k + 2])
        PROVE  Append(start \o g[k], q[k + 2]) = start \o Append(g[k], q[k + 2])
    <3>1. q[k + 2] \in WriteOp
      BY <2>6, <2>7
    <3>2. \A s, t \in Seq(WriteOp), x \in WriteOp : Append(s \o t, x) = s \o Append(t, x)
      BY AppendOverConcat
    <3>3. QED
      BY <1>4, <2>5, <3>1, <3>2, Zenon
  <2>8. QED
    BY <2>2, <2>3, <2>4, <2>7
<1> HIDE DEF S
<1>8. Len(r) \in S
  BY <1>5, <1>6, <1>7, SetInduction
<1>9. f[Len(q)] = start \o g[Len(r)]
  BY <1>1, <1>8 DEF S
<1>10. WritesIn(r) \in Seq(WriteOp)
  BY <1>1, WritesInType
<1>11. WritesIn(q) = start \o WritesIn(r)
  BY <1>2, <1>3, <1>9
<1>12. <<>> \o WritesIn(r) = WritesIn(r)
  BY <1>10
<1>13. QED
  BY <1>11, <1>12 DEF r, start

-----------------------------------------------------------------------------
(* What StoreService makes of a sequence of writes *)

(* The abstract specification has the tables of this one. *)
LEMMA ServiceTables ==
  /\ Service!NoTables = NoTables
  /\ \A t, w : Service!Applied(t, w) = Applied(t, w)
  /\ \A t, now : Service!Pruned(t, now) = Pruned(t, now)
<1>1. Service!NoTables = NoTables
  BY DEF Service!NoTables, NoTables
<1>2. ASSUME NEW t, NEW w PROVE Service!Applied(t, w) = Applied(t, w)
  BY DEF Service!Applied, Applied, Service!Upsert, Upsert, Service!RowOf, RowOf,
         Service!InsertEmbedding, InsertEmbedding, Service!InsertDocument, InsertDocument,
         Service!NewId, NewId, Service!Max, Max
<1>3. ASSUME NEW t, NEW now PROVE Service!Pruned(t, now) = Pruned(t, now)
  <2>1. \A S : Service!Cardinality(S) = Cardinality(S)
    BY DEF Service!Cardinality, Cardinality
  <2>2. ASSUME NEW rows, NEW keep
        PROVE  Service!Newest(rows, keep, Service!NewerTs) = Newest(rows, keep, NewerTs)
    <3> DEFINE above == [r \in rows |-> {s \in rows : s.ts > r.ts}]
    <3>1. /\ Service!Newest(rows, keep, Service!NewerTs) =
               {r \in rows : Service!Cardinality(above[r]) < keep}
          /\ Newest(rows, keep, NewerTs) = {r \in rows : Cardinality(above[r]) < keep}
      BY DEF Service!Newest, Newest, Service!NewerTs, NewerTs
    <3> HIDE DEF above
    <3>2. QED
      BY <2>1, <3>1
  <2>3. ASSUME NEW rows, NEW keep
        PROVE  Service!Newest(rows, keep, Service!NewerOp) = Newest(rows, keep, NewerOp)
    <3> DEFINE above == [r \in rows |-> {s \in rows : s.op > r.op}]
    <3>1. /\ Service!Newest(rows, keep, Service!NewerOp) =
               {r \in rows : Service!Cardinality(above[r]) < keep}
          /\ Newest(rows, keep, NewerOp) = {r \in rows : Cardinality(above[r]) < keep}
      BY DEF Service!Newest, Newest, Service!NewerOp, NewerOp
    <3> HIDE DEF above
    <3>2. QED
      BY <2>1, <3>1
  <2>4. ASSUME NEW rows, NEW keep
        PROVE  Service!Newest(rows, keep, Service!NewerDocument) = Newest(rows, keep, NewerDocument)
    <3> DEFINE above == [r \in rows |-> {s \in rows : s.ts > r.ts \/ (s.ts = r.ts /\ s.id > r.id)}]
    <3>1. /\ Service!Newest(rows, keep, Service!NewerDocument) =
               {r \in rows : Service!Cardinality(above[r]) < keep}
          /\ Newest(rows, keep, NewerDocument) = {r \in rows : Cardinality(above[r]) < keep}
      BY DEF Service!Newest, Newest, Service!NewerDocument, NewerDocument
    <3> HIDE DEF above
    <3>2. QED
      BY <2>1, <3>1
  <2>5. \A rows : Service!Recent(rows, now) = Recent(rows, now)
    BY DEF Service!Recent, Recent
  <2>6. QED
    BY <2>2, <2>3, <2>4, <2>5 DEF Service!Pruned, Pruned
<1>4. QED
  BY <1>1, <1>2, <1>3

(* f is the function after of Results(t, ws). *)
IsAfter(f, t, ws) ==
  f = [i \in 0 .. Len(ws) |->
         IF i = 0 THEN Service!PrunedOrNot({t}) ELSE Service!AfterWrite(f[i - 1], ws[i])]

(* Results is well defined: there is such a function. *)
LEMMA AfterExists ==
  ASSUME NEW t, NEW ws \in Seq(WriteOp)
  PROVE  \E f : IsAfter(f, t, ws) /\ Service!Results(t, ws) = f[Len(ws)]
<1> DEFINE Def(g, n) == [i \in 0 .. n |->
                           IF i = 0 THEN Service!PrunedOrNot({t})
                           ELSE Service!AfterWrite(g[i - 1], ws[i])]
           S == {n \in Nat : \E g : g = Def(g, n)}
<1>1. 0 \in S
  <2> DEFINE h == [i \in 0 .. 0 |-> Service!PrunedOrNot({t})]
  <2>1. h = Def(h, 0)
    OBVIOUS
  <2>2. QED
    BY <2>1
<1>2. ASSUME NEW n \in Nat, n \in S PROVE n + 1 \in S
  <2>1. PICK g : g = Def(g, n)
    BY <1>2
  <2> DEFINE h == [i \in 0 .. n + 1 |->
                     IF i = n + 1 THEN Service!AfterWrite(g[n], ws[n + 1]) ELSE g[i]]
  <2>2. ASSUME NEW i \in 0 .. n + 1 PROVE h[i] = Def(h, n + 1)[i]
    <3>1. CASE i = n + 1
      BY <3>1
    <3>2. CASE i # n + 1
      <4>1. i \in 0 .. n /\ h[i] = g[i] /\ (i # 0 => h[i - 1] = g[i - 1])
        BY <3>2
      <4>2. g[i] = Def(g, n)[i]
        BY <2>1, Zenon
      <4>3. Def(g, n)[i] = IF i = 0 THEN Service!PrunedOrNot({t})
                           ELSE Service!AfterWrite(g[i - 1], ws[i])
        BY <4>1
      <4>4. Def(h, n + 1)[i] = IF i = 0 THEN Service!PrunedOrNot({t})
                               ELSE Service!AfterWrite(h[i - 1], ws[i])
        OBVIOUS
      <4> HIDE DEF h, Def
      <4>5. QED
        BY <4>1, <4>2, <4>3, <4>4
    <3>3. QED
      BY <3>1, <3>2
  <2>3. h = Def(h, n + 1)
    BY <2>2
  <2> HIDE DEF Def, h
  <2>4. \E x : x = Def(x, n + 1)
    BY <2>3
  <2>5. QED
    BY <2>4
<1> HIDE DEF S
<1>3. Len(ws) \in S
  BY <1>1, <1>2, SetInduction
<1>4. \E g : g = Def(g, Len(ws))
  BY <1>3 DEF S
<1> DEFINE f == CHOOSE g : g = Def(g, Len(ws))
<1>5. f = Def(f, Len(ws))
  BY <1>4
<1>6. Service!Results(t, ws) = f[Len(ws)]
  BY DEF Service!Results
<1> HIDE DEF f
<1>7. IsAfter(f, t, ws)
  BY <1>5 DEF IsAfter
<1>8. QED
  BY <1>6, <1>7

(* Its values, one write after the other. *)
LEMMA AfterStep ==
  ASSUME NEW t, NEW ws \in Seq(WriteOp), NEW f, IsAfter(f, t, ws)
  PROVE  /\ f[0] = Service!PrunedOrNot({t})
         /\ \A k \in Nat : k + 1 <= Len(ws) => f[k + 1] = Service!AfterWrite(f[k], ws[k + 1])
<1> DEFINE e == [i \in 0 .. Len(ws) |->
                   IF i = 0 THEN Service!PrunedOrNot({t})
                   ELSE Service!AfterWrite(f[i - 1], ws[i])]
<1>1. f = e
  BY DEF IsAfter
<1>2. e[0] = Service!PrunedOrNot({t})
  OBVIOUS
<1>3. ASSUME NEW k \in Nat, k + 1 <= Len(ws)
      PROVE  e[k + 1] = Service!AfterWrite(f[k], ws[k + 1])
  <2>1. k + 1 \in 0 .. Len(ws) /\ k + 1 # 0 /\ (k + 1) - 1 = k
    BY <1>3
  <2>2. QED
    BY <2>1
<1> HIDE DEF e
<1>4. QED
  BY <1>1, <1>2, <1>3

(* No write, and one write more. *)
LEMMA ResultsEmpty == \A t : Service!Results(t, <<>>) = Service!PrunedOrNot({t})
<1> SUFFICES ASSUME NEW t PROVE Service!Results(t, <<>>) = Service!PrunedOrNot({t})
  OBVIOUS
<1>1. <<>> \in Seq(WriteOp) /\ Len(<<>>) = 0
  OBVIOUS
<1>2. PICK f : IsAfter(f, t, <<>>) /\ Service!Results(t, <<>>) = f[0]
  BY <1>1, AfterExists
<1>3. QED
  BY <1>1, <1>2, AfterStep

(* One write more is applied to every result. *)
LEMMA ResultsAppend ==
  ASSUME NEW t, NEW ws \in Seq(WriteOp), NEW w \in WriteOp
  PROVE  Service!Results(t, Append(ws, w)) = Service!AfterWrite(Service!Results(t, ws), w)
<1> DEFINE more == Append(ws, w)
<1>1. more \in Seq(WriteOp) /\ Len(more) = Len(ws) + 1 /\ more[Len(ws) + 1] = w /\ Len(ws) \in Nat
  OBVIOUS
<1>2. \A i \in 1 .. Len(ws) : more[i] = ws[i]
  OBVIOUS
<1> HIDE DEF more
<1>3. PICK f : IsAfter(f, t, ws) /\ Service!Results(t, ws) = f[Len(ws)]
  BY AfterExists
<1>4. PICK g : IsAfter(g, t, more) /\ Service!Results(t, more) = g[Len(more)]
  BY <1>1, AfterExists
<1> DEFINE S == {k \in Nat : k <= Len(ws) => f[k] = g[k]}
<1>5. 0 \in S
  BY <1>1, <1>3, <1>4, AfterStep
<1>6. ASSUME NEW k \in Nat, k \in S PROVE k + 1 \in S
  <2>1. SUFFICES ASSUME k + 1 <= Len(ws) PROVE f[k + 1] = g[k + 1]
    OBVIOUS
  <2>2. k + 1 <= Len(more) /\ more[k + 1] = ws[k + 1] /\ f[k] = g[k]
    BY <1>1, <1>2, <1>6, <2>1
  <2>3. f[k + 1] = Service!AfterWrite(f[k], ws[k + 1])
    BY <1>3, <2>1, AfterStep
  <2>4. g[k + 1] = Service!AfterWrite(g[k], more[k + 1])
    BY <1>1, <1>4, <2>2, AfterStep
  <2>5. QED
    BY <2>2, <2>3, <2>4
<1> HIDE DEF S
<1>7. Len(ws) \in S
  BY <1>1, <1>5, <1>6, SetInduction
<1>8. f[Len(ws)] = g[Len(ws)]
  BY <1>1, <1>7 DEF S
<1>9. g[Len(ws) + 1] = Service!AfterWrite(g[Len(ws)], more[Len(ws) + 1])
  <2>1. Len(ws) + 1 <= Len(more)
    BY <1>1
  <2>2. QED
    BY <1>1, <1>4, <2>1, AfterStep
<1>10. QED
  BY <1>1, <1>3, <1>4, <1>8, <1>9 DEF more

(* A result with a write applied is one, pruned or not. *)
LEMMA ResultsAfter ==
  ASSUME NEW t, NEW ws \in Seq(WriteOp), NEW w \in WriteOp,
         NEW u \in Service!Results(t, ws)
  PROVE  /\ Applied(u, w) \in Service!Results(t, Append(ws, w))
         /\ \A now \in Times : Pruned(Applied(u, w), now) \in Service!Results(t, Append(ws, w))
<1> DEFINE S == {Service!Applied(v, w) : v \in Service!Results(t, ws)}
<1>1. Applied(u, w) \in S
  BY ServiceTables
<1>2. Service!Results(t, Append(ws, w)) = Service!PrunedOrNot(S)
  BY ResultsAppend DEF Service!AfterWrite
<1> HIDE DEF S
<1>3. /\ Applied(u, w) \in Service!PrunedOrNot(S)
      /\ \A now \in Times : Service!Pruned(Applied(u, w), now) \in Service!PrunedOrNot(S)
  BY <1>1 DEF Service!PrunedOrNot
<1>4. QED
  BY <1>2, <1>3, ServiceTables

(* Without a write, tables are their own result, pruned or not. *)
LEMMA ResultsNone ==
  /\ \A t : t \in Service!Results(t, <<>>)
  /\ \A t : \A now \in Times : Pruned(t, now) \in Service!Results(t, <<>>)
<1> SUFFICES ASSUME NEW t
             PROVE  /\ t \in Service!Results(t, <<>>)
                    /\ \A now \in Times : Pruned(t, now) \in Service!Results(t, <<>>)
  OBVIOUS
<1> DEFINE S == {t}
<1>1. Service!Results(t, <<>>) = Service!PrunedOrNot(S) /\ t \in S
  BY ResultsEmpty
<1> HIDE DEF S
<1>2. /\ t \in Service!PrunedOrNot(S)
      /\ \A now \in Times : Service!Pruned(t, now) \in Service!PrunedOrNot(S)
  BY <1>1 DEF Service!PrunedOrNot
<1>3. QED
  BY <1>1, <1>2, ServiceTables

-----------------------------------------------------------------------------
(* The steps *)

(* The program starts with empty tables and an empty channel. *)
LEMMA InitInv == Init => WriterInv
<1> SUFFICES ASSUME Init PROVE WriterInv
  OBVIOUS
<1> USE StoreConstants, TableConstants
<1>1. TypeOK
  <2>1. /\ issued \in 0 .. MaxOps /\ pending \in 0 .. Batch /\ sincePrune \in 0 .. PruneEvery
        /\ faults \in 0 .. MaxFaults /\ crashes \in 0 .. MaxCrashes
    BY DEF Init
  <2>2. persisting \in [next : {"metric", "sample", "document"}, ts : Times \cup {0}]
    BY DEF Init, Idle
  <2>3. queue \in Seq(WriteOp \cup {Sync, Abandoned}) /\ Len(queue) <= QueueCap
    BY DEF Init
  <2>4. work \in Tables /\ committed \in Tables
    BY DEF Init, NoTables, Tables
  <2>5. open \in Seq(WriteOp) /\ Len(open) <= Batch
    BY DEF Init
  <2>6. QED
    BY <2>1, <2>2, <2>3, <2>4, <2>5 DEF Init, TypeOK
<1>2. TableInv(work) /\ TableInv(committed) /\ PairInv
  BY NoTablesInv DEF Init, PairInv
<1>3. ControlInv /\ OrderInv /\ FlushInv
  BY NoTablesInv DEF Init, ControlInv, OrderInv, FlushInv, Idle, Ops
<1>4. SizeInv
  <2>1. Cardinality({}) = 0
    BY FS_EmptySet
  <2>2. PruneEvery * 0 + 0 \in Nat /\ PruneEvery * (0 + 1) \in Nat
    OBVIOUS
  <2>3. \A n \in Nat : Within(NoTables, n)
    BY <2>1 DEF Within, NoTables
  <2>4. QED
    BY <2>2, <2>3 DEF SizeInv, Init
<1>5. QED
  BY <1>1, <1>2, <1>3, <1>4 DEF WriterInv

(* A write enters the channel, or finds it full. *)
LEMMA EnqueueInv ==
  ASSUME WriterInv, NEW kind \in Kinds, NEW ts \in Times, Enqueue(kind, ts),
         persisting' \in [next : {"metric", "sample", "document"}, ts : Times \cup {0}],
         persisting'.next = "sample" => persisting'.ts \in Times
  PROVE  WriterInv'
<1> DEFINE w == [op |-> issued + 1, kind |-> kind, ts |-> ts]
<1> USE StoreConstants, TableConstants
<1>0. issued \in Nat /\ issued + 1 \in Nat
  BY DEF WriterInv, TypeOK
<1>1. w \in WriteOp /\ w \in Messages /\ IsWrite(w) /\ w # Sync /\ w # Abandoned
  BY <1>0 DEF WriteOp, Messages, IsWrite, Sync, Abandoned
<1>2. queue \in Seq(Messages) /\ Len(queue) \in Nat
  BY DEF WriterInv, TypeOK, Messages
<1>3. queue' = queue \/ (Len(queue) < QueueCap /\ queue' = Append(queue, w))
  BY DEF Enqueue
<1>4. w.op = issued + 1 /\ issued' = issued + 1
  BY DEF Enqueue
<1> HIDE DEF w
<1>5. /\ queue' \in Seq(Messages) /\ Len(queue') \in Nat /\ Len(queue') <= QueueCap
      /\ Len(queue) <= Len(queue') /\ Len(queue') <= Len(queue) + 1
      /\ \A i \in DOMAIN queue : queue'[i] = queue[i]
      /\ \A i \in DOMAIN queue' : i \in DOMAIN queue \/ (i = Len(queue) + 1 /\ queue'[i] = w)
      /\ DOMAIN queue = 1 .. Len(queue) /\ DOMAIN queue' = 1 .. Len(queue')
  <2>1. Len(queue) <= QueueCap
    BY DEF WriterInv, TypeOK
  <2>2. CASE queue' = queue
    BY <1>2, <2>1, <2>2
  <2>3. CASE Len(queue) < QueueCap /\ queue' = Append(queue, w)
    BY <1>1, <1>2, <2>3
  <2>4. QED
    BY <1>3, <2>2, <2>3
<1>6. TypeOK'
  BY <1>5 DEF WriterInv, TypeOK, Enqueue, tableVars, counterVars, Messages
<1>7. TableInv(work)' /\ TableInv(committed)' /\ PairInv'
  BY DEF WriterInv, Enqueue, tableVars, counterVars, PairInv
<1>8. SizeInv' /\ ControlInv'
  BY DEF WriterInv, Enqueue, tableVars, counterVars, SizeInv, ControlInv
<1>9. OrderInv'
  <2>1. UNCHANGED <<work, committed, open, owed>>
    BY DEF Enqueue, tableVars
  <2>2. ASSUME NEW i \in DOMAIN queue', IsWrite(queue'[i])
        PROVE  /\ queue'[i].op \in 1 .. issued'
               /\ LogsTo(work, queue'[i].op - 1) /\ LogsTo(committed, queue'[i].op - 1)
    BY <1>0, <1>4, <1>5, <2>2 DEF WriterInv, OrderInv
  <2>3. ASSUME NEW i \in DOMAIN queue', NEW j \in DOMAIN queue', i < j,
               IsWrite(queue'[i]), IsWrite(queue'[j])
        PROVE  queue'[i].op < queue'[j].op
    <3>1. i \in DOMAIN queue
      BY <1>2, <1>5, <2>3
    <3>2. queue'[i].op \in 1 .. issued
      BY <1>5, <2>3, <3>1 DEF WriterInv, OrderInv
    <3>3. CASE j \in DOMAIN queue
      BY <1>5, <2>3, <3>1, <3>3 DEF WriterInv, OrderInv
    <3>4. QED
      BY <1>0, <1>4, <1>5, <3>2, <3>3
  <2>4. LogsTo(work, issued') /\ LogsTo(committed, issued')
    BY <1>0, <1>4 DEF WriterInv, OrderInv, LogsTo, TableInv, Tables, Row
  <2>5. Ops(open) \subseteq 1 .. issued' /\ owed \subseteq 1 .. issued'
    BY <1>0, <1>4 DEF WriterInv, OrderInv
  <2>6. QED
    BY <2>1, <2>2, <2>3, <2>4, <2>5 DEF OrderInv, LogsTo, Ops
<1>10. FlushInv'
  <2>1. UNCHANGED <<flush, faults, open, owed>>
    BY DEF Enqueue, tableVars
  <2>2. \A k \in DOMAIN queue' : queue'[k] = Sync => k \in DOMAIN queue /\ queue[k] = Sync
    BY <1>1, <1>5
  <2>3. ASSUME NEW k \in DOMAIN queue', queue'[k] = Sync, faults = 0
        PROVE  owed \subseteq Ops(open) \cup {queue'[i].op : i \in 1 .. k - 1}
    <3>1. k \in DOMAIN queue /\ owed \subseteq Ops(open) \cup {queue[i].op : i \in 1 .. k - 1}
      BY <2>2, <2>3 DEF WriterInv, FlushInv
    <3>2. \A i \in 1 .. k - 1 : queue'[i] = queue[i]
      BY <1>2, <1>5, <3>1
    <3>3. QED
      BY <3>1, <3>2
  <2>4. QED
    BY <2>1, <2>2, <2>3 DEF WriterInv, FlushInv, Ops
<1>11. QED
  BY <1>6, <1>7, <1>8, <1>9, <1>10 DEF WriterInv

(* What the writer has still to commit, as a set of writes. *)
LEMMA BacklogOps ==
  ASSUME WriterInv
  PROVE  /\ WritesIn(queue) \in Seq(WriteOp) /\ Backlog \in Seq(WriteOp)
         /\ Ops(Backlog) \subseteq
              Ops(open) \cup {queue[i].op : i \in {j \in 1 .. Len(queue) : IsWrite(queue[j])}}
<1> DEFINE ws == WritesIn(queue)
<1>1. queue \in Seq(Messages) /\ open \in Seq(WriteOp) /\ DOMAIN queue = 1 .. Len(queue)
  BY DEF WriterInv, TypeOK, Messages
<1>2. /\ ws \in Seq(WriteOp)
      /\ Ops(ws) \subseteq {queue[i].op : i \in {j \in DOMAIN queue : IsWrite(queue[j])}}
  BY <1>1, WritesInType
<1> HIDE DEF ws
<1>3. /\ open \o ws \in Seq(WriteOp)
      /\ \A i \in DOMAIN (open \o ws) :
           \/ i \in DOMAIN open /\ (open \o ws)[i] = open[i]
           \/ i - Len(open) \in DOMAIN ws /\ (open \o ws)[i] = ws[i - Len(open)]
  BY <1>1, <1>2
<1>4. Ops(open \o ws) \subseteq Ops(open) \cup Ops(ws)
  BY <1>3 DEF Ops
<1>5. QED
  BY <1>1, <1>2, <1>3, <1>4 DEF Backlog, ws

(* flush puts its message at the end of the channel: what is accepted and   *)
(* not committed is ahead of it.                                           *)
LEMMA FlushSendInv ==
  ASSUME WriterInv, Flush_Send
  PROVE  WriterInv'
<1> USE StoreConstants, TableConstants
<1>1. queue \in Seq(Messages) /\ Len(queue) \in Nat /\ Sync \in Messages
  BY DEF WriterInv, TypeOK, Messages
<1>2. /\ queue' \in Seq(Messages) /\ Len(queue') = Len(queue) + 1
      /\ \A i \in 1 .. Len(queue) : queue'[i] = queue[i]
      /\ queue'[Len(queue) + 1] = Sync
      /\ DOMAIN queue = 1 .. Len(queue) /\ DOMAIN queue' = 1 .. Len(queue) + 1
  BY <1>1 DEF Flush_Send
<1>3. ~IsWrite(Sync)
  BY <1>1, MessageKinds
<1>4. /\ UNCHANGED <<issued, persisting, handles, writer, pending, sincePrune, inTx, work,
                     committed, open, faults, crashes>>
      /\ flush = "idle" /\ flush' = "waiting" /\ owed' = Ops(Backlog) /\ Len(queue) < QueueCap
  BY DEF Flush_Send, producerVars, counterVars
<1>5. /\ owed' \subseteq Ops(open) \cup {queue[i].op : i \in 1 .. Len(queue)}
      /\ owed' \subseteq 1 .. issued
  <2>1. owed' \subseteq
          Ops(open) \cup {queue[i].op : i \in {j \in 1 .. Len(queue) : IsWrite(queue[j])}}
    BY <1>4, BacklogOps
  <2>2. \A i \in 1 .. Len(queue) : IsWrite(queue[i]) => queue[i].op \in 1 .. issued
    BY <1>2 DEF WriterInv, OrderInv
  <2>3. Ops(open) \subseteq 1 .. issued
    BY DEF WriterInv, OrderInv
  <2>4. QED
    BY <2>1, <2>2, <2>3
<1>6. TypeOK'
  <2>1. issued \in 0 .. MaxOps
    BY DEF WriterInv, TypeOK
  <2>2. owed' \subseteq 1 .. MaxOps
    BY <1>5, <2>1
  <2>3. QED
    BY <1>1, <1>2, <1>4, <2>2 DEF WriterInv, TypeOK, Messages
<1>7. TableInv(work)' /\ TableInv(committed)' /\ PairInv' /\ SizeInv' /\ ControlInv'
  BY <1>4 DEF WriterInv, PairInv, SizeInv, ControlInv
<1>8. OrderInv'
  <2>1. \A i \in DOMAIN queue' : IsWrite(queue'[i]) => i \in DOMAIN queue /\ queue'[i] = queue[i]
    BY <1>2, <1>3
  <2>2. QED
    BY <1>4, <1>5, <2>1 DEF WriterInv, OrderInv, Ops, LogsTo
<1>9. FlushInv'
  <2>1. \A k \in DOMAIN queue' : queue'[k] = Sync => k = Len(queue) + 1
    BY <1>2, <1>4 DEF WriterInv, FlushInv
  <2>2. owed' \subseteq Ops(open) \cup {queue'[i].op : i \in 1 .. Len(queue)}
    BY <1>2, <1>5
  <2>3. Ops(open') = Ops(open) /\ (Len(queue) + 1) - 1 = Len(queue)
    BY <1>1, <1>4
  <2>4. QED
    BY <1>4, <2>1, <2>2, <2>3 DEF FlushInv
<1>10. QED
  BY <1>6, <1>7, <1>8, <1>9 DEF WriterInv

(* An answer that is not awaited any more: its message means nothing. *)
LEMMA FlushErrorInv ==
  ASSUME WriterInv, Flush_Error
  PROVE  WriterInv'
<1> USE StoreConstants, TableConstants
<1>1. queue \in Seq(Messages) /\ Len(queue) \in Nat /\ Sync # Abandoned /\ Abandoned \in Messages
      /\ ~IsWrite(Abandoned) /\ ~IsWrite(Sync)
  BY MessageKinds DEF WriterInv, TypeOK, Messages
<1>2. /\ queue' \in Seq(Messages) /\ Len(queue') = Len(queue) /\ DOMAIN queue' = DOMAIN queue
      /\ \A i \in DOMAIN queue : queue'[i] = IF IsWrite(queue[i]) THEN queue[i] ELSE Abandoned
  BY <1>1 DEF Flush_Error
<1>3. /\ UNCHANGED <<issued, persisting, handles, writer, pending, sincePrune, inTx, work,
                     committed, open, faults, crashes>>
      /\ flush' = "idle" /\ owed' = {}
  BY DEF Flush_Error, producerVars, counterVars
<1>4. TypeOK'
  BY <1>1, <1>2, <1>3 DEF WriterInv, TypeOK, Messages
<1>5. TableInv(work)' /\ TableInv(committed)' /\ PairInv' /\ SizeInv' /\ ControlInv'
  BY <1>3 DEF WriterInv, PairInv, SizeInv, ControlInv
<1>6. OrderInv'
  <2>1. \A i \in DOMAIN queue' : IsWrite(queue'[i]) => queue'[i] = queue[i]
    BY <1>1, <1>2
  <2>2. QED
    BY <1>2, <1>3, <2>1 DEF WriterInv, OrderInv, Ops, LogsTo
<1>7. FlushInv'
  <2>1. \A i \in DOMAIN queue' : queue'[i] # Sync
    BY <1>1, <1>2
  <2>2. QED
    BY <1>3, <2>1 DEF FlushInv
<1>8. QED
  BY <1>4, <1>5, <1>6, <1>7 DEF WriterInv

(* The caller of flush is answered. *)
LEMMA FlushOkInv ==
  ASSUME WriterInv, Flush_Ok
  PROVE  WriterInv'
<1>1. /\ UNCHANGED <<issued, persisting, handles, queue, writer, pending, sincePrune, inTx, work,
                     committed, open, faults, crashes>>
      /\ flush = "ok" /\ flush' = "idle" /\ owed' = {}
  BY DEF Flush_Ok, producerVars, counterVars
<1>2. TypeOK'
  BY <1>1 DEF WriterInv, TypeOK
<1>3. TableInv(work)' /\ TableInv(committed)' /\ PairInv' /\ SizeInv' /\ ControlInv'
  BY <1>1 DEF WriterInv, PairInv, SizeInv, ControlInv
<1>4. OrderInv' /\ FlushInv'
  BY <1>1 DEF WriterInv, OrderInv, FlushInv, Ops
<1>5. QED
  BY <1>2, <1>3, <1>4 DEF WriterInv

(* Whoever changes neither writer nor tables, channel nor flush. *)
LEMMA CloseInv ==
  ASSUME WriterInv, Close
  PROVE  WriterInv'
<1>1. /\ UNCHANGED <<issued, persisting, queue, writer, pending, sincePrune, inTx, work,
                     committed, open, owed, flush, faults, crashes>>
      /\ handles' = FALSE
  BY DEF Close, tableVars, counterVars
<1>2. TypeOK' /\ ControlInv'
  BY <1>1 DEF WriterInv, TypeOK, ControlInv
<1>3. TableInv(work)' /\ TableInv(committed)' /\ PairInv' /\ SizeInv'
  BY <1>1 DEF WriterInv, PairInv, SizeInv
<1>4. OrderInv' /\ FlushInv'
  BY <1>1 DEF WriterInv, OrderInv, FlushInv, Ops
<1>5. QED
  BY <1>2, <1>3, <1>4 DEF WriterInv

(* The writer begins its first transaction, *)
LEMMA OpensInv ==
  ASSUME WriterInv, Writer_Opens
  PROVE  WriterInv'
<1>1. /\ UNCHANGED <<issued, persisting, handles, queue, pending, sincePrune, work,
                     committed, open, owed, flush, faults, crashes>>
      /\ writer = "starting" /\ writer' = "recv" /\ inTx' = TRUE
  BY DEF Writer_Opens, producerVars, counterVars
<1>2. TypeOK' /\ ControlInv'
  BY <1>1 DEF WriterInv, TypeOK, ControlInv
<1>3. TableInv(work)' /\ TableInv(committed)' /\ PairInv' /\ SizeInv'
  BY <1>1 DEF WriterInv, PairInv, SizeInv
<1>4. OrderInv' /\ FlushInv'
  BY <1>1 DEF WriterInv, OrderInv, FlushInv, Ops
<1>5. QED
  BY <1>2, <1>3, <1>4 DEF WriterInv

(* or cannot open the database and is gone. *)
LEMMA OpenFailsInv ==
  ASSUME WriterInv, Writer_OpenFails
  PROVE  WriterInv'
<1> USE StoreConstants, TableConstants
<1>1. /\ UNCHANGED <<issued, persisting, handles, pending, sincePrune, inTx, work,
                     committed, open, owed, flush, crashes>>
      /\ writer = "starting" /\ writer' = "gone" /\ queue' = <<>>
      /\ faults < MaxFaults /\ faults' = faults + 1
  BY DEF Writer_OpenFails, Fault, producerVars, counterVars, tableVars
<1>2. faults \in Nat /\ faults' \in 1 .. MaxFaults
  BY <1>1 DEF WriterInv, TypeOK
<1>3. TypeOK' /\ ControlInv'
  BY <1>1, <1>2 DEF WriterInv, TypeOK, ControlInv
<1>4. TableInv(work)' /\ TableInv(committed)' /\ PairInv' /\ SizeInv'
  BY <1>1, <1>2 DEF WriterInv, PairInv, SizeInv, ControlInv
<1>5. OrderInv' /\ FlushInv'
  BY <1>1, <1>2 DEF WriterInv, OrderInv, FlushInv, Ops
<1>6. QED
  BY <1>3, <1>4, <1>5 DEF WriterInv

(* What is left of the channel when its first message is taken. *)
LEMMA TailOf ==
  ASSUME NEW q \in Seq(Messages), q # <<>>
  PROVE  /\ Head(q) \in Messages /\ Head(q) = q[1] /\ 1 \in DOMAIN q
         /\ Tail(q) \in Seq(Messages) /\ Len(q) \in Nat \ {0} /\ Len(Tail(q)) = Len(q) - 1
         /\ DOMAIN q = 1 .. Len(q) /\ DOMAIN Tail(q) = 1 .. Len(q) - 1
         /\ \A i \in DOMAIN Tail(q) : i + 1 \in DOMAIN q /\ Tail(q)[i] = q[i + 1]
  OBVIOUS

(* The order survives whatever leaves the views what one of them was. *)
LEMMA OrderKept ==
  ASSUME WriterInv, queue' = queue \/ (queue # <<>> /\ queue' = Tail(queue)),
         issued' = issued, work' \in {work, committed}, committed' \in {work, committed},
         open' \in {open, <<>>}, owed' \subseteq owed
  PROVE  OrderInv'
<1>1. queue \in Seq(Messages)
  BY DEF WriterInv, TypeOK, Messages
<1>2. /\ \A i \in DOMAIN queue : IsWrite(queue[i]) =>
           /\ queue[i].op \in 1 .. issued
           /\ LogsTo(work, queue[i].op - 1) /\ LogsTo(committed, queue[i].op - 1)
      /\ \A i, j \in DOMAIN queue :
           i < j /\ IsWrite(queue[i]) /\ IsWrite(queue[j]) => queue[i].op < queue[j].op
      /\ LogsTo(work, issued) /\ LogsTo(committed, issued)
      /\ Ops(open) \subseteq 1 .. issued /\ owed \subseteq 1 .. issued
  BY DEF WriterInv, OrderInv
<1>3. Ops(open') \subseteq 1 .. issued'
  BY <1>2 DEF Ops
<1>4. /\ \A n : LogsTo(work, n) /\ LogsTo(committed, n) => LogsTo(work', n) /\ LogsTo(committed', n)
      /\ owed' \subseteq 1 .. issued
  BY <1>2
<1>5. CASE queue' = queue
  BY <1>2, <1>3, <1>4, <1>5 DEF OrderInv, LogsTo, Ops
<1>6. CASE queue # <<>> /\ queue' = Tail(queue)
  <2>1. /\ DOMAIN queue = 1 .. Len(queue) /\ DOMAIN queue' = 1 .. Len(queue) - 1
        /\ \A i \in DOMAIN queue' : i + 1 \in DOMAIN queue /\ queue'[i] = queue[i + 1]
        /\ Len(queue) \in Nat
    BY <1>1, <1>6, TailOf
  <2>2. ASSUME NEW i \in DOMAIN queue', IsWrite(queue'[i])
        PROVE  /\ queue'[i].op \in 1 .. issued
               /\ LogsTo(work', queue'[i].op - 1) /\ LogsTo(committed', queue'[i].op - 1)
    BY <1>2, <1>4, <2>1, <2>2
  <2>3. ASSUME NEW i \in DOMAIN queue', NEW j \in DOMAIN queue', i < j,
               IsWrite(queue'[i]), IsWrite(queue'[j])
        PROVE  queue'[i].op < queue'[j].op
    <3>1. i + 1 \in DOMAIN queue /\ j + 1 \in DOMAIN queue /\ i + 1 < j + 1
      BY <2>1, <2>3
    <3>2. QED
      BY <1>2, <2>1, <2>3, <3>1
  <2>4. QED
    BY <1>2, <1>3, <1>4, <2>2, <2>3 DEF OrderInv, LogsTo, Ops
<1>7. QED
  BY <1>5, <1>6

(* A bound that holds is one that holds with more slack. *)
LEMMA WithinMore ==
  ASSUME NEW t, TableInv(t), NEW n \in Nat, NEW m \in Nat, n <= m, Within(t, n)
  PROVE  Within(t, m)
<1>1. /\ Cardinality(t.metrics) \in Nat /\ Cardinality(t.samples) \in Nat
      /\ Cardinality(t.documents) \in Nat /\ Cardinality(t.logs) \in Nat
  BY FS_CardinalityType DEF TableInv
<1>2. QED
  BY <1>1, TableConstants DEF Within

(* A COMMIT that is done, fails, rolls back, or finds no transaction. *)
LEMMA CommitTables ==
  ASSUME WriterInv, CommitBegin, UNCHANGED <<sincePrune, crashes>>,
         writer # "starting", writer' # "starting"
  PROVE  /\ faults' \in 0 .. MaxFaults /\ (faults' = 0 => faults = 0 /\ inTx')
         /\ inTx' \in BOOLEAN /\ (~inTx' => work' = committed' /\ open' = <<>>)
         /\ work' \in {work, committed} /\ committed' \in {work, committed}
         /\ open' \in {open, <<>>} /\ owed' \subseteq owed
         /\ faults' = 0 => open' = <<>> /\ owed' = owed \ Ops(open)
         /\ TableInv(work)' /\ TableInv(committed)' /\ PairInv' /\ SizeInv'
<1> USE StoreConstants
<1>1. /\ faults \in 0 .. MaxFaults /\ inTx \in BOOLEAN /\ crashes \in Nat
      /\ sincePrune \in Nat /\ sincePrune <= PruneEvery
  BY DEF WriterInv, TypeOK
<1>2. /\ TableInv(work) /\ TableInv(committed) /\ PairInv /\ SizeInv
      /\ ~inTx => work = committed /\ open = <<>>
      /\ faults = 0 => inTx
  BY DEF WriterInv, ControlInv
<1>3. CASE Commit_Done
  <2>1. /\ inTx /\ inTx' = inTx /\ work' = work /\ committed' = work /\ faults' = faults
        /\ open' = <<>> /\ owed' = owed \ Ops(open)
    BY <1>3 DEF Commit_Done
  <2>2. faults = 0 => Within(work, PruneEvery * (crashes + 1))
    <3>1. PruneEvery * (crashes + 1) = PruneEvery * crashes + PruneEvery
          /\ PruneEvery * crashes \in Nat
      BY <1>1
    <3>2. faults = 0 => Within(work, PruneEvery * crashes + sincePrune)
      BY <1>2 DEF SizeInv
    <3>3. PruneEvery * crashes + sincePrune \in Nat /\ PruneEvery * (crashes + 1) \in Nat
          /\ PruneEvery * crashes + sincePrune <= PruneEvery * (crashes + 1)
      BY <1>1, <3>1
    <3>4. QED
      BY <1>2, <3>2, <3>3, WithinMore
  <2>3. PairInv' /\ SizeInv'
    BY <1>2, <2>1, <2>2 DEF PairInv, SizeInv
  <2>4. QED
    BY <1>1, <1>2, <2>1, <2>3
<1>4. CASE Commit_Fails
  <2>1. /\ inTx /\ inTx' = inTx /\ work' = work /\ committed' = committed
        /\ faults < MaxFaults /\ faults' = faults + 1
        /\ open' = open /\ owed' = owed
    BY <1>4 DEF Commit_Fails, Fault, tableVars
  <2>2. PairInv' /\ SizeInv' /\ faults' \in 1 .. MaxFaults
    BY <1>1, <1>2, <2>1 DEF PairInv, SizeInv
  <2>3. QED
    BY <1>1, <1>2, <2>1, <2>2
<1>5. CASE Commit_RollsBack
  <2>1. /\ inTx /\ ~inTx' /\ inTx' \in BOOLEAN /\ work' = committed /\ committed' = committed
        /\ faults < MaxFaults /\ faults' = faults + 1
        /\ open' = <<>> /\ owed' = owed
    BY <1>5 DEF Commit_RollsBack, RollBack, Fault, tableVars
  <2>2. PairInv' /\ SizeInv' /\ faults' \in 1 .. MaxFaults
    BY <1>1, <1>2, <2>1 DEF PairInv, SizeInv
  <2>3. TableInv(work)' /\ TableInv(committed)'
    BY <1>2, <2>1 DEF TableInv
  <2>4. faults' \in 0 .. MaxFaults /\ faults' # 0
    BY <2>2
  <2>5. QED
    BY <1>2, <2>1, <2>2, <2>3, <2>4
<1>6. CASE Commit_NoTransaction
  <2>1. /\ ~inTx /\ inTx' = inTx /\ work' = work /\ committed' = committed /\ faults' = faults
        /\ open' = open /\ owed' = owed
    BY <1>6 DEF Commit_NoTransaction, tableVars
  <2>2. PairInv' /\ SizeInv' /\ faults' \in 1 .. MaxFaults
    BY <1>1, <1>2, <2>1 DEF PairInv, SizeInv
  <2>3. QED
    BY <1>1, <1>2, <2>1, <2>2
<1>7. QED
  BY <1>3, <1>4, <1>5, <1>6 DEF CommitBegin

(* The channel as TypeOK has it. *)
LEMMA QueueType ==
  ASSUME WriterInv
  PROVE  /\ queue \in Seq(Messages) /\ Len(queue) \in Nat /\ Len(queue) <= QueueCap
         /\ DOMAIN queue = 1 .. Len(queue)
         /\ queue # <<>> => /\ Tail(queue) \in Seq(Messages) /\ Len(Tail(queue)) <= QueueCap
                            /\ Head(queue) = queue[1] /\ Head(queue) \in Messages
                            /\ 1 \in DOMAIN queue
                            /\ DOMAIN Tail(queue) = 1 .. Len(queue) - 1
                            /\ \A i \in DOMAIN Tail(queue) :
                                 i + 1 \in DOMAIN queue /\ Tail(queue)[i] = queue[i + 1]
<1>1. queue \in Seq(Messages) /\ Len(queue) <= QueueCap
  BY DEF WriterInv, TypeOK, Messages
<1>2. CASE queue = <<>>
  BY <1>1, <1>2
<1>3. CASE queue # <<>>
  <2>1. Len(queue) \in Nat \ {0} /\ Len(Tail(queue)) = Len(queue) - 1
    BY <1>1, <1>3, TailOf
  <2>2. Len(Tail(queue)) <= QueueCap
    BY <1>1, <2>1, StoreConstants
  <2>3. QED
    BY <1>1, <1>3, <2>1, <2>2, TailOf
<1>4. QED
  BY <1>2, <1>3

(* What was ahead of a message is the first one, or still ahead of it. *)
LEMMA OwedShift ==
  ASSUME WriterInv, queue # <<>>, queue' = Tail(queue), NEW k \in DOMAIN queue'
  PROVE  {queue[i].op : i \in 1 .. (k + 1) - 1} \subseteq
           {Head(queue).op} \cup {queue'[i].op : i \in 1 .. k - 1}
<1>1. /\ Head(queue) = queue[1] /\ DOMAIN queue' = 1 .. Len(queue) - 1 /\ Len(queue) \in Nat
      /\ \A i \in DOMAIN queue' : queue'[i] = queue[i + 1]
  BY QueueType
<1>2. ASSUME NEW i \in 1 .. (k + 1) - 1
      PROVE  queue[i].op \in {Head(queue).op} \cup {queue'[j].op : j \in 1 .. k - 1}
  <2>1. CASE i = 1
    BY <1>1, <2>1
  <2>2. CASE i # 1
    <3>1. i - 1 \in 1 .. k - 1 /\ i - 1 \in DOMAIN queue' /\ (i - 1) + 1 = i
      BY <1>1, <2>2
    <3>2. queue'[i - 1] = queue[i]
      BY <1>1, <3>1
    <3>3. QED
      BY <3>1, <3>2
  <2>3. QED
    BY <2>1, <2>2
<1>3. QED
  BY <1>2

(* A commit between two messages: after a full batch, by the idle writer,   *)
(* and before the writer returns.                                          *)
LEMMA CommitInv ==
  ASSUME WriterInv, CommitBegin,
         UNCHANGED <<producerVars, queue, sincePrune, flush, crashes>>,
         writer # "starting",
         \/ writer' \in {"recv", "prune"} /\ pending' = 0 /\ (sincePrune < PruneEvery \/ writer' = "prune")
         \/ writer' = "gone" /\ pending' = pending
  PROVE  WriterInv'
<1> USE StoreConstants
<1>1. UNCHANGED <<issued, persisting, handles, queue, sincePrune, flush, crashes>>
  BY DEF producerVars
<1>2. /\ faults' \in 0 .. MaxFaults /\ (faults' = 0 => faults = 0 /\ inTx')
      /\ inTx' \in BOOLEAN /\ (~inTx' => work' = committed' /\ open' = <<>>)
      /\ work' \in {work, committed} /\ committed' \in {work, committed}
      /\ open' \in {open, <<>>} /\ owed' \subseteq owed
      /\ faults' = 0 => open' = <<>> /\ owed' = owed \ Ops(open)
      /\ TableInv(work)' /\ TableInv(committed)' /\ PairInv' /\ SizeInv'
  BY <1>1, CommitTables
<1>3. OrderInv'
  BY <1>1, <1>2, OrderKept
<1>4. TypeOK'
  <2>1. TypeOK /\ TableInv(work)' /\ TableInv(committed)' /\ pending' \in 0 .. Batch
    BY <1>2 DEF WriterInv, TypeOK
  <2>2. work' \in Tables /\ committed' \in Tables
    BY <2>1 DEF TableInv, Tables, Row, Document, Embedding
  <2>3. open' \in Seq(WriteOp) /\ (faults' = 0 => Len(open') <= Batch)
    <3>1. open \in Seq(WriteOp) /\ <<>> \in Seq(WriteOp) /\ Len(<<>>) <= Batch
      BY <2>1 DEF TypeOK
    <3>2. QED
      BY <1>2, <3>1
  <2>4. writer' \in {"starting", "recv", "batch", "prune", "gone"}
    OBVIOUS
  <2>5. owed' \subseteq 1 .. MaxOps
    BY <1>2, <2>1 DEF TypeOK
  <2>6. QED
    BY <1>1, <1>2, <2>1, <2>2, <2>3, <2>4, <2>5 DEF TypeOK, Messages
<1>5. ControlInv'
  <2>1. pending \in Nat /\ (persisting.next = "sample" => persisting.ts \in Times)
    BY DEF WriterInv, TypeOK, ControlInv
  <2>2. faults' = 0 => Len(open') = 0
    BY <1>2
  <2>3. faults' = 0 => Len(open') <= pending'
    BY <2>1, <2>2
  <2>4. QED
    BY <1>1, <1>2, <2>1, <2>3 DEF ControlInv
<1>6. FlushInv'
  <2>1. FlushInv
    BY DEF WriterInv
  <2>2. ASSUME faults' = 0, NEW k \in DOMAIN queue', queue'[k] = Sync
        PROVE  owed' \subseteq Ops(open') \cup {queue'[i].op : i \in 1 .. k - 1}
    <3>1. owed \subseteq Ops(open) \cup {queue[i].op : i \in 1 .. k - 1}
      BY <1>1, <1>2, <2>1, <2>2 DEF FlushInv
    <3>2. QED
      BY <1>1, <1>2, <2>2, <3>1
  <2>3. QED
    BY <1>1, <1>2, <2>1, <2>2 DEF FlushInv, Ops
<1>7. QED
  BY <1>2, <1>3, <1>4, <1>5, <1>6 DEF WriterInv

(* The transaction is full, *)
LEMMA BatchInv ==
  ASSUME WriterInv, Writer_Batch
  PROVE  WriterInv'
<1>1. sincePrune \in Nat /\ PruneEvery \in Nat
  BY StoreConstants DEF WriterInv, TypeOK
<1>2. writer' = "prune" \/ (writer' = "recv" /\ sincePrune < PruneEvery)
  BY <1>1 DEF Writer_Batch, PruneDue
<1>3. QED
  BY <1>2, CommitInv DEF Writer_Batch

(* or nothing has come for a while, *)
LEMMA TimeoutInv ==
  ASSUME WriterInv, Writer_Timeout
  PROVE  WriterInv'
<1>1. writer = "recv" /\ sincePrune < PruneEvery
  BY DEF WriterInv, ControlInv, Writer_Timeout
<1>2. QED
  BY <1>1, CommitInv DEF Writer_Timeout

(* or nothing can come any more. *)
LEMMA DisconnectedInv ==
  ASSUME WriterInv, Writer_Disconnected
  PROVE  WriterInv'
<1>1. pending' = pending
  BY DEF Writer_Disconnected, counterVars
<1>2. QED
  BY <1>1, CommitInv DEF Writer_Disconnected, counterVars

(* flush: what was owed is in the transaction that the answer commits. *)
LEMMA SyncInv ==
  ASSUME WriterInv, Writer_Sync
  PROVE  WriterInv'
<1> USE StoreConstants
<1>1. /\ UNCHANGED <<issued, persisting, handles, writer, pending, sincePrune, crashes>>
      /\ CommitBegin /\ writer = "recv" /\ queue # <<>> /\ queue' = Tail(queue)
      /\ ~IsWrite(Head(queue)) /\ flush' = IF Head(queue) = Sync THEN "ok" ELSE flush
  BY DEF Writer_Sync, Received, producerVars, counterVars
<1>2. /\ faults' \in 0 .. MaxFaults /\ (faults' = 0 => faults = 0 /\ inTx')
      /\ inTx' \in BOOLEAN /\ (~inTx' => work' = committed' /\ open' = <<>>)
      /\ work' \in {work, committed} /\ committed' \in {work, committed}
      /\ open' \in {open, <<>>} /\ owed' \subseteq owed
      /\ faults' = 0 => open' = <<>> /\ owed' = owed \ Ops(open)
      /\ TableInv(work)' /\ TableInv(committed)' /\ PairInv' /\ SizeInv'
  BY <1>1, CommitTables
<1>3. OrderInv'
  BY <1>1, <1>2, OrderKept
<1>4. /\ queue \in Seq(Messages) /\ Len(queue) \in Nat /\ DOMAIN queue = 1 .. Len(queue)
      /\ queue' \in Seq(Messages) /\ Len(queue') <= QueueCap
      /\ Head(queue) = queue[1] /\ 1 \in DOMAIN queue /\ DOMAIN queue' = 1 .. Len(queue) - 1
      /\ \A i \in DOMAIN queue' : i + 1 \in DOMAIN queue /\ queue'[i] = queue[i + 1]
  BY <1>1, QueueType
<1>5. TypeOK'
  <2>1. TypeOK /\ TableInv(work)' /\ TableInv(committed)'
    BY <1>2 DEF WriterInv
  <2>2. work' \in Tables /\ committed' \in Tables
    BY <2>1 DEF TableInv, Tables, Row, Document, Embedding
  <2>3. open' \in Seq(WriteOp) /\ (faults' = 0 => Len(open') <= Batch)
    <3>1. open \in Seq(WriteOp) /\ <<>> \in Seq(WriteOp) /\ Len(<<>>) <= Batch
      BY <2>1 DEF TypeOK
    <3>2. QED
      BY <1>2, <3>1
  <2>4. owed' \subseteq 1 .. MaxOps
    BY <1>2, <2>1 DEF TypeOK
  <2>5. QED
    BY <1>1, <1>2, <1>4, <2>1, <2>2, <2>3, <2>4 DEF TypeOK, Messages
<1>6. ControlInv'
  <2>1. ControlInv /\ pending \in Nat
    BY DEF WriterInv, TypeOK
  <2>2. faults' = 0 => Len(open') = 0
    BY <1>2
  <2>3. faults' = 0 => Len(open') <= pending'
    BY <1>1, <2>1, <2>2
  <2>4. QED
    BY <1>1, <1>2, <2>1, <2>3 DEF ControlInv
<1>7. FlushInv'
  <2>1. FlushInv
    BY DEF WriterInv
  <2>2. CASE Head(queue) = Sync
    <3>1. flush' = "ok" /\ \A k \in DOMAIN queue' : queue'[k] # Sync
      <4>1. \A k \in DOMAIN queue : queue[k] = Sync => k = 1
        BY <1>4, <2>1, <2>2 DEF FlushInv
      <4>2. \A k \in DOMAIN queue' : k + 1 # 1
        BY <1>4
      <4>3. QED
        BY <1>1, <1>4, <2>2, <4>1, <4>2
    <3>2. faults' = 0 => owed' = {}
      <4>1. SUFFICES ASSUME faults' = 0 PROVE owed' = {}
        OBVIOUS
      <4>2. owed \subseteq Ops(open) \cup {queue[i].op : i \in 1 .. 1 - 1}
        BY <1>2, <1>4, <2>1, <2>2, <4>1 DEF FlushInv
      <4>3. 1 .. 1 - 1 = {}
        OBVIOUS
      <4>4. QED
        BY <1>2, <4>1, <4>2, <4>3
    <3>3. QED
      BY <3>1, <3>2 DEF FlushInv
  <2>3. CASE Head(queue) # Sync
    <3>1. flush' = flush
      BY <1>1, <2>3
    <3>2. ASSUME faults' = 0, NEW k \in DOMAIN queue', queue'[k] = Sync
          PROVE  owed' \subseteq Ops(open') \cup {queue'[i].op : i \in 1 .. k - 1}
      <4>1. owed \subseteq Ops(open) \cup {queue[i].op : i \in 1 .. (k + 1) - 1}
        BY <1>2, <1>4, <2>1, <3>2 DEF FlushInv
      <4>2. owed' = owed \ Ops(open)
        BY <1>2, <3>2
      <4>3. {queue[i].op : i \in 1 .. (k + 1) - 1} \subseteq
              {Head(queue).op} \cup {queue'[i].op : i \in 1 .. k - 1}
        BY <1>1, <3>2, OwedShift
      <4>4. Head(queue).op \notin owed
        <5>1. Head(queue) = Abandoned
          BY <1>1, <2>3, MessageKinds, QueueType
        <5>2. owed \subseteq 1 .. issued
          BY DEF WriterInv, OrderInv
        <5>3. QED
          BY <5>1, <5>2 DEF Abandoned
      <4>5. QED
        BY <4>1, <4>2, <4>3, <4>4
    <3>3. QED
      BY <1>2, <1>4, <2>1, <3>1, <3>2 DEF FlushInv
  <2>4. QED
    BY <2>2, <2>3
<1>8. QED
  BY <1>2, <1>3, <1>5, <1>6, <1>7 DEF WriterInv

(* The write at the head of the channel is newer than all in the tables,    *)
(* and older than those behind it.                                         *)
LEMMA HeadFacts ==
  ASSUME WriterInv, Received, IsWrite(Head(queue))
  PROVE  /\ Head(queue) \in WriteOp /\ Head(queue).op \in 1 .. issued
         /\ \A r \in work.logs : r.op < Head(queue).op
         /\ \A r \in committed.logs : r.op < Head(queue).op
         /\ \A i \in DOMAIN queue' : IsWrite(queue'[i]) => Head(queue).op < queue'[i].op
         /\ issued \in Nat
<1>1. queue # <<>> /\ queue' = Tail(queue)
  BY DEF Received
<1>2. /\ Head(queue) = queue[1] /\ Head(queue) \in Messages /\ 1 \in DOMAIN queue
      /\ DOMAIN queue' = 1 .. Len(queue) - 1 /\ Len(queue) \in Nat
      /\ \A i \in DOMAIN queue' : i + 1 \in DOMAIN queue /\ queue'[i] = queue[i + 1]
  BY <1>1, QueueType
<1>3. Head(queue) \in WriteOp /\ issued \in Nat
  BY <1>2, MessageKinds DEF WriterInv, TypeOK
<1>4. /\ Head(queue).op \in 1 .. issued
      /\ LogsTo(work, Head(queue).op - 1) /\ LogsTo(committed, Head(queue).op - 1)
  BY <1>2 DEF WriterInv, OrderInv
<1>5. /\ \A r \in work.logs : r.op \in Nat
      /\ \A r \in committed.logs : r.op \in Nat
  BY DEF WriterInv, TableInv, Tables, Row
<1>6. /\ \A r \in work.logs : r.op < Head(queue).op
      /\ \A r \in committed.logs : r.op < Head(queue).op
  BY <1>3, <1>4, <1>5 DEF LogsTo
<1>7. ASSUME NEW i \in DOMAIN queue', IsWrite(queue'[i]) PROVE Head(queue).op < queue'[i].op
  <2>1. 1 < i + 1 /\ i + 1 \in DOMAIN queue /\ queue'[i] = queue[i + 1]
    BY <1>2
  <2>2. QED
    BY <1>2, <1>7, <2>1 DEF WriterInv, OrderInv
<1>8. QED
  BY <1>3, <1>4, <1>6, <1>7

(* The order, when the head is taken and tables get no log newer than it. *)
LEMMA OrderAfterHead ==
  ASSUME WriterInv, Received, IsWrite(Head(queue)), issued' = issued,
         TableInv(work'), TableInv(committed'),
         LogsTo(work', Head(queue).op), LogsTo(committed', Head(queue).op),
         Ops(open') \subseteq Ops(open) \cup {Head(queue).op}, owed' \subseteq owed
  PROVE  OrderInv'
<1> DEFINE n == Head(queue).op
<1>1. /\ n \in 1 .. issued /\ issued \in Nat
      /\ \A i \in DOMAIN queue' : IsWrite(queue'[i]) => n < queue'[i].op
  BY HeadFacts
<1>2. /\ \A r \in work'.logs : r.op \in Nat /\ r.op <= n
      /\ \A r \in committed'.logs : r.op \in Nat /\ r.op <= n
  BY DEF TableInv, Tables, Row, LogsTo
<1> HIDE DEF n
<1>3. queue # <<>> /\ queue' = Tail(queue)
  BY DEF Received
<1>4. /\ DOMAIN queue' = 1 .. Len(queue) - 1 /\ Len(queue) \in Nat
      /\ \A i \in DOMAIN queue' : i + 1 \in DOMAIN queue /\ queue'[i] = queue[i + 1]
  BY <1>3, QueueType
<1>5. ASSUME NEW i \in DOMAIN queue', IsWrite(queue'[i])
      PROVE  /\ queue'[i].op \in 1 .. issued
             /\ LogsTo(work', queue'[i].op - 1) /\ LogsTo(committed', queue'[i].op - 1)
  <2>1. queue'[i].op \in 1 .. issued /\ n < queue'[i].op
    BY <1>1, <1>4, <1>5 DEF WriterInv, OrderInv
  <2>2. QED
    BY <1>1, <1>2, <2>1 DEF LogsTo
<1>6. ASSUME NEW i \in DOMAIN queue', NEW j \in DOMAIN queue', i < j,
             IsWrite(queue'[i]), IsWrite(queue'[j])
      PROVE  queue'[i].op < queue'[j].op
  <2>1. i + 1 \in DOMAIN queue /\ j + 1 \in DOMAIN queue /\ i + 1 < j + 1
    BY <1>4, <1>6
  <2>2. QED
    BY <1>4, <1>6, <2>1 DEF WriterInv, OrderInv
<1>7. LogsTo(work', issued) /\ LogsTo(committed', issued)
  BY <1>1, <1>2 DEF LogsTo
<1>8. Ops(open') \subseteq 1 .. issued /\ owed' \subseteq 1 .. issued
  BY <1>1 DEF WriterInv, OrderInv, n
<1>9. QED
  BY <1>5, <1>6, <1>7, <1>8 DEF OrderInv, LogsTo, Ops

(* A write is applied. *)
LEMMA ApplyInv ==
  ASSUME WriterInv, Writer_Apply
  PROVE  WriterInv'
<1> DEFINE w == Head(queue)
<1> USE StoreConstants
<1>1. /\ UNCHANGED <<issued, persisting, handles, inTx, flush, faults, crashes>>
      /\ writer = "recv" /\ queue # <<>> /\ queue' = Tail(queue) /\ Received /\ IsWrite(w)
      /\ work' = Applied(work, w)
      /\ IF inTx THEN open' = Append(open, w) /\ UNCHANGED <<committed, owed>>
         ELSE committed' = work' /\ owed' = owed \ {w.op} /\ UNCHANGED open
      /\ pending' = pending + 1 /\ sincePrune' = sincePrune + 1
      /\ writer' = IF pending' >= Batch THEN "batch"
                   ELSE IF sincePrune' >= PruneEvery THEN "prune" ELSE "recv"
  BY DEF Writer_Apply, Received, BatchFull, PruneDue, producerVars
<1>2. /\ w \in WriteOp /\ w.op \in 1 .. issued
      /\ \A r \in work.logs : r.op < w.op
      /\ \A r \in committed.logs : r.op < w.op
  BY <1>1, HeadFacts
<1>3. /\ TypeOK /\ TableInv(work) /\ TableInv(committed)
      /\ ControlInv /\ OrderInv /\ PairInv /\ SizeInv /\ FlushInv
  BY DEF WriterInv
<1>4. /\ TableInv(work') /\ LogsTo(work', w.op)
      /\ Paired(work) => Paired(work')
      /\ NoOrphan(work) => NoOrphan(work')
      /\ NoneBare(work) => NoneBare(work')
  BY <1>1, <1>2, <1>3, AppliedInv
<1>5. /\ TableInv(committed') /\ LogsTo(committed', w.op)
      /\ committed' = IF inTx THEN committed ELSE work'
  <2>1. LogsTo(committed, w.op)
    BY <1>2, <1>3 DEF LogsTo, TableInv, Tables, Row, WriteOp
  <2>2. QED
    BY <1>1, <1>3, <1>4, <2>1
<1>6. open \in Seq(WriteOp) /\ Len(open) \in Nat
  BY <1>3 DEF TypeOK
<1>7. /\ open' \in Seq(WriteOp) /\ Len(open') \in Nat /\ Len(open') <= Len(open) + 1
      /\ Ops(open') \subseteq Ops(open) \cup {w.op}
      /\ inTx => Ops(open) \cup {w.op} \subseteq Ops(open')
      /\ owed' \subseteq owed
  <2>1. CASE inTx
    <3>1. open' = Append(open, w) /\ owed' = owed
      BY <1>1, <2>1
    <3>2. /\ open' \in Seq(WriteOp) /\ Len(open') = Len(open) + 1
          /\ DOMAIN open' = 1 .. Len(open) + 1 /\ DOMAIN open = 1 .. Len(open)
          /\ \A i \in 1 .. Len(open) : open'[i] = open[i]
          /\ open'[Len(open) + 1] = w
      BY <1>2, <1>6, <3>1
    <3>3. Ops(open') = Ops(open) \cup {w.op}
      <4>1. ASSUME NEW i \in DOMAIN open' PROVE open'[i].op \in Ops(open) \cup {w.op}
        BY <1>6, <3>2 DEF Ops
      <4>2. ASSUME NEW i \in DOMAIN open PROVE open[i].op \in Ops(open')
        <5>1. i \in DOMAIN open' /\ open'[i] = open[i]
          BY <1>6, <3>2
        <5>2. QED
          BY <5>1 DEF Ops
      <4>3. w.op \in Ops(open')
        <5>1. Len(open) + 1 \in DOMAIN open'
          BY <1>6, <3>2
        <5>2. QED
          BY <3>2, <5>1 DEF Ops
      <4>4. QED
        BY <4>1, <4>2, <4>3 DEF Ops
    <3>4. QED
      BY <1>6, <3>1, <3>2, <3>3
  <2>2. CASE ~inTx
    BY <1>1, <1>6, <2>2
  <2>3. QED
    BY <2>1, <2>2
<1>8. OrderInv'
  BY <1>1, <1>4, <1>5, <1>7, OrderAfterHead
<1>9. /\ pending \in Nat /\ pending < Batch /\ sincePrune \in Nat /\ sincePrune < PruneEvery
      /\ faults \in Nat /\ crashes \in Nat
  BY <1>1, <1>3 DEF TypeOK, ControlInv
<1>10. TypeOK'
  <2>1. queue' \in Seq(Messages) /\ Len(queue') <= QueueCap
    BY <1>1, QueueType
  <2>2. work' \in Tables /\ committed' \in Tables
    BY <1>4, <1>5 DEF TableInv
  <2>3. pending' \in 0 .. Batch /\ sincePrune' \in 0 .. PruneEvery
    BY <1>1, <1>9
  <2>4. faults' = 0 => Len(open') <= Batch
    BY <1>1, <1>3, <1>6, <1>7, <1>9 DEF ControlInv
  <2>5. writer' \in {"starting", "recv", "batch", "prune", "gone"}
    BY <1>1
  <2>6. QED
    BY <1>1, <1>3, <1>7, <2>1, <2>2, <2>3, <2>4, <2>5 DEF TypeOK, Messages
<1>11. ControlInv'
  <2>1. faults' = 0 => Len(open') <= pending'
    BY <1>1, <1>3, <1>6, <1>7, <1>9 DEF ControlInv
  <2>2. ~inTx' => work' = committed' /\ open' = <<>>
    BY <1>1, <1>3 DEF ControlInv
  <2>3. /\ writer' \in {"starting", "recv"} => pending' < Batch /\ sincePrune' < PruneEvery
        /\ writer' = "prune" => pending' < Batch
        /\ writer' # "starting"
    BY <1>1, <1>9
  <2>4. QED
    BY <1>1, <1>3, <2>1, <2>2, <2>3 DEF ControlInv
<1>12. PairInv'
  BY <1>1, <1>3, <1>4, <1>5 DEF PairInv, ControlInv
<1>13. SizeInv'
  <2>1. SUFFICES ASSUME faults = 0
                 PROVE  /\ Within(work', PruneEvery * crashes + sincePrune')
                        /\ Within(committed', PruneEvery * (crashes + 1))
    BY <1>1 DEF SizeInv, Within
  <2>2. inTx /\ committed' = committed
    BY <1>1, <1>3, <2>1 DEF ControlInv
  <2>3. Within(work, PruneEvery * crashes + sincePrune) /\ PruneEvery * crashes \in Nat
    BY <1>3, <1>9, <2>1 DEF SizeInv
  <2>4. Within(work', (PruneEvery * crashes + sincePrune) + 1)
    <3>1. PruneEvery * crashes + sincePrune \in Nat
      BY <1>9, <2>3
    <3>2. QED
      BY <1>1, <1>2, <1>3, <2>3, <3>1, AppliedWithin
  <2>5. (PruneEvery * crashes + sincePrune) + 1 = PruneEvery * crashes + sincePrune'
    BY <1>1, <1>9, <2>3
  <2>6. Within(committed, PruneEvery * (crashes + 1))
    BY <1>3, <2>1 DEF SizeInv
  <2>7. QED
    BY <2>2, <2>4, <2>5, <2>6
<1>14. FlushInv'
  <2>1. /\ \A i \in DOMAIN queue' : i + 1 \in DOMAIN queue /\ queue'[i] = queue[i + 1]
        /\ DOMAIN queue' = 1 .. Len(queue) - 1 /\ Len(queue) \in Nat
    BY <1>1, QueueType
  <2>2. flush' = flush /\ faults' = faults
    BY <1>1
  <2>3. flush' # "waiting" => \A k \in DOMAIN queue' : queue'[k] # Sync
    BY <1>3, <2>1, <2>2 DEF FlushInv
  <2>4. \A j, k \in DOMAIN queue' : queue'[j] = Sync /\ queue'[k] = Sync => j = k
    <3>1. ASSUME NEW j \in DOMAIN queue', NEW k \in DOMAIN queue', queue'[j] = Sync, queue'[k] = Sync
          PROVE  j = k
      <4>1. j + 1 = k + 1
        BY <1>3, <2>1, <3>1 DEF FlushInv
      <4>2. QED
        BY <2>1, <4>1
    <3>2. QED
      BY <3>1
  <2>5. ASSUME faults' = 0, NEW k \in DOMAIN queue', queue'[k] = Sync
        PROVE  owed' \subseteq Ops(open') \cup {queue'[i].op : i \in 1 .. k - 1}
    <3>1. owed \subseteq Ops(open) \cup {queue[i].op : i \in 1 .. (k + 1) - 1}
      BY <1>3, <2>1, <2>2, <2>5 DEF FlushInv
    <3>2. inTx
      BY <1>1, <1>3, <2>2, <2>5 DEF ControlInv
    <3>3. {queue[i].op : i \in 1 .. (k + 1) - 1} \subseteq
            {w.op} \cup {queue'[i].op : i \in 1 .. k - 1}
      BY <1>1, <2>5, OwedShift
    <3>4. QED
      BY <1>7, <3>1, <3>2, <3>3
  <2>6. faults' = 0 => (flush' # "waiting" => owed' = {})
    BY <1>3, <1>7, <2>2 DEF FlushInv
  <2>7. QED
    BY <2>3, <2>4, <2>5, <2>6 DEF FlushInv, Ops
<1>15. QED
  BY <1>4, <1>5, <1>8, <1>10, <1>11, <1>12, <1>13, <1>14 DEF WriterInv

(* What a write leaves that is not applied to the end. *)
LEMMA HalfAppliedInv ==
  ASSUME NEW t, TableInv(t), NEW w \in WriteOp, NEW u \in HalfApplied(t, w)
  PROVE  /\ TableInv(u) /\ \A n : LogsTo(t, n) => LogsTo(u, n)
         /\ Paired(t) /\ NoOrphan(t) => Paired(u) /\ NoOrphan(u)
<1>1. u = t \/ u = InsertDocument(t, w)
  BY DEF HalfApplied
<1>2. QED
  BY <1>1, InsertDocumentInv

(* A write fails: half of it is left, or the transaction is rolled back. *)
LEMMA ApplyFailsInv ==
  ASSUME WriterInv, Writer_ApplyFails
  PROVE  WriterInv'
<1> DEFINE w == Head(queue)
<1> USE StoreConstants
<1>1. /\ UNCHANGED <<issued, persisting, handles, writer, pending, sincePrune, flush, crashes>>
      /\ writer = "recv" /\ queue # <<>> /\ queue' = Tail(queue) /\ Received /\ IsWrite(w)
      /\ faults < MaxFaults /\ faults' = faults + 1
  BY DEF Writer_ApplyFails, Received, Fault, producerVars, counterVars
<1>2. \/ /\ work' \in HalfApplied(work, w)
         /\ committed' = IF inTx THEN committed ELSE work'
         /\ UNCHANGED <<inTx, open, owed>>
      \/ /\ inTx /\ ~inTx' /\ inTx' \in BOOLEAN /\ work' = committed /\ open' = <<>>
         /\ UNCHANGED <<committed, owed>>
  BY DEF Writer_ApplyFails, RollBack
<1>3. /\ w \in WriteOp
      /\ \A r \in work.logs : r.op < w.op
      /\ \A r \in committed.logs : r.op < w.op
  BY <1>1, HeadFacts
<1>4. /\ TypeOK /\ TableInv(work) /\ TableInv(committed)
      /\ ControlInv /\ OrderInv /\ PairInv /\ SizeInv /\ FlushInv
  BY DEF WriterInv
<1>5. faults \in Nat /\ faults' \in 1 .. MaxFaults /\ faults' # 0 /\ (faults' = 1 => faults = 0)
  BY <1>1, <1>4 DEF TypeOK
<1>6. LogsTo(work, w.op) /\ LogsTo(committed, w.op)
  BY <1>3, <1>4 DEF LogsTo, TableInv, Tables, Row, WriteOp
<1>7. \A u \in HalfApplied(work, w) :
         /\ TableInv(u) /\ LogsTo(u, w.op)
         /\ Paired(work) /\ NoOrphan(work) => Paired(u)
  BY <1>3, <1>4, <1>6, HalfAppliedInv
<1>8. /\ TableInv(work') /\ LogsTo(work', w.op)
      /\ TableInv(committed') /\ LogsTo(committed', w.op)
  BY <1>2, <1>4, <1>6, <1>7
<1>9. /\ open' \in Seq(WriteOp) /\ Ops(open') \subseteq Ops(open) /\ owed' = owed
      /\ inTx' \in BOOLEAN /\ (~inTx' => work' = committed' /\ open' = <<>>)
  <2>1. open \in Seq(WriteOp) /\ <<>> \in Seq(WriteOp) /\ Ops(<<>>) = {} /\ inTx \in BOOLEAN
    BY <1>4 DEF TypeOK, Ops
  <2>2. ~inTx => work = committed /\ open = <<>>
    BY <1>4 DEF ControlInv
  <2>3. CASE UNCHANGED <<inTx, open, owed>> /\ committed' = IF inTx THEN committed ELSE work'
    BY <2>1, <2>2, <2>3
  <2>4. CASE ~inTx' /\ inTx' \in BOOLEAN /\ work' = committed /\ open' = <<>>
             /\ UNCHANGED <<committed, owed>>
    BY <2>1, <2>4
  <2>5. QED
    BY <1>2, <2>3, <2>4
<1>10. OrderInv'
  BY <1>1, <1>8, <1>9, OrderAfterHead
<1>11. TypeOK'
  <2>1. queue' \in Seq(Messages) /\ Len(queue') <= QueueCap
    BY <1>1, QueueType
  <2>2. work' \in Tables /\ committed' \in Tables
    BY <1>8 DEF TableInv
  <2>3. QED
    BY <1>1, <1>4, <1>5, <1>9, <2>1, <2>2 DEF TypeOK, Messages
<1>12. ControlInv'
  BY <1>1, <1>4, <1>5, <1>9 DEF ControlInv
<1>13. PairInv'
  <2>1. SUFFICES ASSUME faults' = 1
                 PROVE  /\ Paired(work') /\ Paired(committed')
                        /\ ~inTx' => NoOrphan(work')
    BY <1>5 DEF PairInv, Paired, NoOrphan
  <2>2. /\ faults = 0 /\ inTx /\ Paired(work) /\ Paired(committed)
        /\ NoOrphan(work) /\ NoOrphan(committed)
    BY <1>1, <1>4, <1>5, <2>1 DEF PairInv, ControlInv
  <2>3. QED
    BY <1>2, <1>7, <2>2
<1>14. SizeInv'
  BY <1>5 DEF SizeInv
<1>15. FlushInv'
  <2>1. /\ \A i \in DOMAIN queue' : i + 1 \in DOMAIN queue /\ queue'[i] = queue[i + 1]
        /\ DOMAIN queue' = 1 .. Len(queue) - 1 /\ Len(queue) \in Nat
    BY <1>1, QueueType
  <2>2. flush' # "waiting" => \A k \in DOMAIN queue' : queue'[k] # Sync
    BY <1>1, <1>4, <2>1 DEF FlushInv
  <2>3. ASSUME NEW j \in DOMAIN queue', NEW k \in DOMAIN queue', queue'[j] = Sync, queue'[k] = Sync
        PROVE  j = k
    <3>1. j + 1 = k + 1
      BY <1>4, <2>1, <2>3 DEF FlushInv
    <3>2. QED
      BY <2>1, <3>1
  <2>4. QED
    BY <1>5, <2>2, <2>3 DEF FlushInv
<1>16. QED
  BY <1>8, <1>10, <1>11, <1>12, <1>13, <1>14, <1>15 DEF WriterInv

(* A prune keeps what it keeps of the tables the writer sees. *)
LEMMA PruneInv ==
  ASSUME WriterInv, Writer_Prune
  PROVE  WriterInv'
<1> USE StoreConstants
<1>1. /\ UNCHANGED <<issued, persisting, handles, queue, pending, inTx, open, owed, flush, crashes>>
      /\ writer = "prune" /\ writer' = "recv" /\ sincePrune' = 0
      /\ committed' = IF inTx THEN committed ELSE work'
  BY DEF Writer_Prune, producerVars
<1>2. PICK now \in Times :
        \/ work' = Pruned(work, now) /\ faults' = faults
        \/ work' \in PrunedButOne(work, now) /\ faults < MaxFaults /\ faults' = faults + 1
  BY DEF Writer_Prune, Fault
<1>3. /\ TypeOK /\ TableInv(work) /\ TableInv(committed) /\ work \in Tables
      /\ ControlInv /\ OrderInv /\ PairInv /\ SizeInv /\ FlushInv
  BY DEF WriterInv, TableInv
<1>4. PartOf(work', work)
  BY <1>2, <1>3, PrunedPart, PrunedButOnePart
<1>5. /\ TableInv(work') /\ \A n : LogsTo(work, n) => LogsTo(work', n)
      /\ Paired(work) => Paired(work')
  BY <1>3, <1>4, PartInv
<1>6. /\ TableInv(committed')
      /\ \A n : LogsTo(work, n) /\ LogsTo(committed, n) => LogsTo(committed', n)
  BY <1>1, <1>3, <1>5
<1>7. faults \in Nat /\ faults' \in 0 .. MaxFaults /\ (faults' = 0 => faults = 0) /\ crashes \in Nat
  BY <1>2, <1>3 DEF TypeOK
<1>8. TypeOK'
  BY <1>1, <1>3, <1>5, <1>6, <1>7 DEF TypeOK, TableInv
<1>9. ControlInv'
  BY <1>1, <1>3, <1>7 DEF ControlInv
<1>10. OrderInv'
  BY <1>1, <1>3, <1>5, <1>6 DEF OrderInv, LogsTo, Ops
<1>11. PairInv'
  <2>1. faults = 0 => inTx
    BY <1>1, <1>3 DEF ControlInv
  <2>2. CASE work' = Pruned(work, now) /\ faults' = faults
    <3>1. NoOrphan(work') /\ (NoneBare(work) => NoneBare(work'))
      BY <1>3, <2>2, PrunedPart
    <3>2. QED
      BY <1>1, <1>3, <1>5, <2>1, <2>2, <3>1 DEF PairInv
  <2>3. CASE faults' = faults + 1
    <3>1. faults' # 0 /\ (faults' = 1 => faults = 0 /\ inTx')
      BY <1>1, <1>7, <2>1, <2>3
    <3>2. QED
      BY <1>1, <1>3, <1>5, <1>7, <3>1 DEF PairInv
  <2>4. QED
    BY <1>2, <2>2, <2>3
<1>12. SizeInv'
  <2>1. SUFFICES ASSUME faults' = 0
                 PROVE  /\ Within(work', PruneEvery * crashes + 0)
                        /\ Within(committed', PruneEvery * (crashes + 1))
    BY <1>1 DEF SizeInv, Within
  <2>2. faults = 0 /\ inTx /\ committed' = committed /\ work' = Pruned(work, now)
    BY <1>1, <1>2, <1>3, <1>7, <2>1 DEF ControlInv
  <2>3. Within(work', 0)
    BY <1>3, <2>2, PrunedWithin
  <2>4. PruneEvery * crashes + 0 \in Nat
    BY <1>7
  <2>5. Within(work', PruneEvery * crashes + 0)
    BY <1>5, <2>3, <2>4, WithinMore
  <2>6. QED
    BY <1>3, <2>2, <2>5 DEF SizeInv
<1>13. FlushInv'
  BY <1>1, <1>3, <1>7 DEF FlushInv, Ops
<1>14. QED
  BY <1>5, <1>6, <1>8, <1>9, <1>10, <1>11, <1>12, <1>13 DEF WriterInv

(* The process dies: what is committed stays, and outside a transaction     *)
(* what a statement has done already.                                      *)
LEMMA CrashInv ==
  ASSUME WriterInv, Crash
  PROVE  WriterInv'
<1> USE StoreConstants
<1>1. /\ UNCHANGED <<issued, faults>> /\ crashes < MaxCrashes /\ crashes' = crashes + 1
      /\ work' = committed' /\ ~inTx' /\ inTx' \in BOOLEAN /\ open' = <<>>
      /\ queue' = <<>> /\ writer' = "starting" /\ pending' = 0 /\ sincePrune' = 0
      /\ persisting' = Idle /\ handles' = TRUE /\ flush' = "idle" /\ owed' = {}
  BY DEF Crash
<1>2. \/ committed' = committed
      \/ /\ ~inTx /\ writer = "recv" /\ queue # <<>> /\ IsWrite(Head(queue))
         /\ committed' \in HalfApplied(committed, Head(queue))
      \/ ~inTx /\ writer = "prune" /\ \E now \in Times : committed' \in HalfPruned(committed, now)
  BY DEF Crash
<1>3. /\ TypeOK /\ TableInv(work) /\ TableInv(committed) /\ committed \in Tables
      /\ ControlInv /\ OrderInv /\ PairInv /\ SizeInv /\ FlushInv
  BY DEF WriterInv, TableInv
<1>4. faults \in 0 .. MaxFaults /\ crashes \in Nat /\ issued \in Nat
  BY <1>3 DEF TypeOK
<1>5. faults = 0 => committed' = committed
  BY <1>2, <1>3 DEF ControlInv
<1>6. /\ TableInv(committed') /\ LogsTo(committed', issued)
      /\ faults <= 1 => Paired(committed')
  <2>1. LogsTo(committed, issued) /\ (faults <= 1 => Paired(committed))
    BY <1>3 DEF OrderInv, PairInv
  <2>2. CASE committed' = committed
    BY <1>3, <2>1, <2>2
  <2>3. CASE /\ ~inTx /\ writer = "recv" /\ queue # <<>> /\ IsWrite(Head(queue))
             /\ committed' \in HalfApplied(committed, Head(queue))
    <3>1. Head(queue) \in WriteOp
      BY <2>3, QueueType, MessageKinds
    <3>2. /\ TableInv(committed') /\ LogsTo(committed', issued)
          /\ Paired(committed) /\ NoOrphan(committed) => Paired(committed')
      BY <1>3, <2>1, <2>3, <3>1, HalfAppliedInv
    <3>3. faults <= 1 => faults = 1 /\ NoOrphan(committed)
      BY <1>3, <1>4, <2>3 DEF PairInv, ControlInv
    <3>4. QED
      BY <2>1, <3>2, <3>3
  <2>4. CASE \E now \in Times : committed' \in HalfPruned(committed, now)
    <3>1. PartOf(committed', committed)
      BY <1>3, <2>4, HalfPrunedPart
    <3>2. QED
      BY <1>3, <2>1, <3>1, PartInv
  <2>5. QED
    BY <1>2, <2>2, <2>3, <2>4
<1>7. TypeOK'
  <2>1. committed' \in Tables /\ <<>> \in Seq(WriteOp) /\ <<>> \in Seq(Messages)
    BY <1>6 DEF TableInv
  <2>2. persisting' \in [next : {"metric", "sample", "document"}, ts : Times \cup {0}]
    BY <1>1 DEF Idle
  <2>3. crashes' \in 0 .. MaxCrashes
    BY <1>1, <1>4
  <2>4. QED
    BY <1>1, <1>3, <2>1, <2>2, <2>3 DEF TypeOK, Messages
<1>8. ControlInv'
  BY <1>1 DEF ControlInv, Idle
<1>9. OrderInv' /\ FlushInv'
  BY <1>1, <1>6 DEF OrderInv, FlushInv, LogsTo, Ops
<1>10. PairInv'
  BY <1>1, <1>3, <1>5, <1>6 DEF PairInv
<1>11. SizeInv'
  <2>1. SUFFICES ASSUME faults = 0
                 PROVE  /\ Within(committed, PruneEvery * (crashes + 1) + 0)
                        /\ Within(committed, PruneEvery * ((crashes + 1) + 1))
    BY <1>1, <1>5 DEF SizeInv, Within
  <2>2. Within(committed, PruneEvery * (crashes + 1))
    BY <1>3, <2>1 DEF SizeInv
  <2>3. /\ PruneEvery * (crashes + 1) \in Nat /\ PruneEvery * ((crashes + 1) + 1) \in Nat
        /\ PruneEvery * ((crashes + 1) + 1) = PruneEvery * (crashes + 1) + PruneEvery
    BY <1>4
  <2>4. /\ PruneEvery * (crashes + 1) <= PruneEvery * ((crashes + 1) + 1)
        /\ PruneEvery * (crashes + 1) + 0 = PruneEvery * (crashes + 1)
    BY <2>3
  <2>5. QED
    BY <1>3, <2>2, <2>3, <2>4, WithinMore
<1>12. QED
  BY <1>1, <1>6, <1>7, <1>8, <1>9, <1>10, <1>11 DEF WriterInv

(* A snapshot is persisted one write after the other. *)
LEMMA PersistInv ==
  ASSUME WriterInv, NEW ts \in Times,
         Persist_Metric(ts) \/ Persist_HostDocument(ts) \/ Persist_Document(ts) \/ Write_Log(ts)
  PROVE  WriterInv'
<1>1. /\ persisting \in [next : {"metric", "sample", "document"}, ts : Times \cup {0}]
      /\ persisting.next = "sample" => persisting.ts \in Times
  BY DEF WriterInv, TypeOK, ControlInv
<1>2. CASE Persist_Metric(ts)
  <2>1. Enqueue("metric", ts) /\ persisting' = [next |-> "sample", ts |-> ts] /\ "metric" \in Kinds
    BY <1>2 DEF Persist_Metric, Kinds
  <2>2. /\ persisting' \in [next : {"metric", "sample", "document"}, ts : Times \cup {0}]
        /\ persisting'.next = "sample" => persisting'.ts \in Times
    BY <2>1
  <2>3. QED
    BY <2>1, <2>2, EnqueueInv
<1>3. CASE Persist_HostDocument(ts)
  <2>1. Enqueue("document", ts) /\ persisting' = [next |-> "metric", ts |-> 0] /\ "document" \in Kinds
    BY <1>3 DEF Persist_HostDocument, Kinds, Idle
  <2>2. /\ persisting' \in [next : {"metric", "sample", "document"}, ts : Times \cup {0}]
        /\ persisting'.next = "sample" => persisting'.ts \in Times
    BY <2>1
  <2>3. QED
    BY <2>1, <2>2, EnqueueInv
<1>4. CASE Persist_Document(ts)
  <2>1. Enqueue("document", ts) /\ persisting' = persisting /\ "document" \in Kinds
    BY <1>4 DEF Persist_Document, Kinds
  <2>2. QED
    BY <1>1, <2>1, EnqueueInv
<1>5. CASE Write_Log(ts)
  <2>1. Enqueue("log", ts) /\ persisting' = persisting /\ "log" \in Kinds
    BY <1>5 DEF Write_Log, Kinds
  <2>2. QED
    BY <1>1, <2>1, EnqueueInv
<1>6. QED
  BY <1>2, <1>3, <1>4, <1>5

(* The sample has the time of its snapshot's metric. *)
LEMMA PersistSampleInv ==
  ASSUME WriterInv, Persist_Sample
  PROVE  WriterInv'
<1>1. /\ persisting \in [next : {"metric", "sample", "document"}, ts : Times \cup {0}]
      /\ persisting.ts \in Times
  BY DEF WriterInv, TypeOK, ControlInv, Persist_Sample
<1>2. Enqueue("sample", persisting.ts) /\ "sample" \in Kinds
      /\ persisting' = [persisting EXCEPT !.next = "document"]
  BY DEF Persist_Sample, Kinds
<1>3. /\ persisting' \in [next : {"metric", "sample", "document"}, ts : Times \cup {0}]
      /\ persisting'.next = "document"
  BY <1>1, <1>2
<1>4. QED
  BY <1>1, <1>2, <1>3, EnqueueInv

(* Every step keeps the writer's invariant. *)
LEMMA NextInv == WriterInv /\ [Next]_vars => WriterInv'
<1> SUFFICES ASSUME WriterInv, [Next]_vars PROVE WriterInv'
  OBVIOUS
<1>1. CASE Producers
  <2>1. ASSUME NEW ts \in Times,
               Persist_Metric(ts) \/ Persist_HostDocument(ts) \/ Persist_Document(ts) \/ Write_Log(ts)
        PROVE  WriterInv'
    BY <2>1, PersistInv
  <2>2. CASE Persist_Sample \/ Flush_Send \/ Flush_Error \/ Flush_Ok \/ Close
    BY <2>2, PersistSampleInv, FlushSendInv, FlushErrorInv, FlushOkInv, CloseInv
  <2>3. QED
    BY <1>1, <2>1, <2>2 DEF Producers
<1>2. CASE Writer
  <2>1. CASE Writer_Opens \/ Writer_OpenFails
    BY <2>1, OpensInv, OpenFailsInv
  <2>2. CASE Writer_Apply \/ Writer_ApplyFails \/ Writer_Sync
    BY <2>2, ApplyInv, ApplyFailsInv, SyncInv
  <2>3. CASE Writer_Batch \/ Writer_Prune \/ Writer_Timeout \/ Writer_Disconnected
    BY <2>3, BatchInv, PruneInv, TimeoutInv, DisconnectedInv
  <2>4. QED
    BY <1>2, <2>1, <2>2, <2>3 DEF Writer
<1>3. CASE Crash
  BY <1>3, CrashInv
<1>4. CASE UNCHANGED vars
  <2>1. UNCHANGED <<issued, persisting, handles, queue, writer, pending, sincePrune, inTx, work,
                    committed, flush, open, owed, faults, crashes>>
    BY <1>4 DEF vars, producerVars, counterVars, tableVars
  <2>2. TypeOK' /\ ControlInv'
    BY <2>1 DEF WriterInv, TypeOK, ControlInv
  <2>3. TableInv(work)' /\ TableInv(committed)' /\ PairInv' /\ SizeInv'
    BY <2>1 DEF WriterInv, PairInv, SizeInv
  <2>4. OrderInv' /\ FlushInv'
    BY <2>1 DEF WriterInv, OrderInv, FlushInv, Ops
  <2>5. QED
    BY <2>2, <2>3, <2>4 DEF WriterInv
<1>5. QED
  BY <1>1, <1>2, <1>3, <1>4 DEF Next

-----------------------------------------------------------------------------
(* Steps of StoreService *)

(* As long as no statement has failed, a step is one of the abstract store. *)
ServiceStep == faults' = 0 => [Service!Next]_<<committed, Backlog>>

(* The store starts as StoreService does. *)
LEMMA ServiceInit == Init => ServiceInv /\ Service!Init
<1> SUFFICES ASSUME Init PROVE ServiceInv /\ Service!Init
  OBVIOUS
<1>1. queue = <<>> /\ open = <<>> /\ work = NoTables /\ committed = NoTables /\ writer = "starting"
  BY DEF Init
<1>2. Backlog = <<>> \o <<>>
  BY <1>1, WritesInEmpty DEF Backlog
<1>3. Backlog = <<>>
  BY <1>2
<1>4. ServiceInv
  BY <1>1, ResultsNone DEF ServiceInv
<1>5. QED
  BY <1>1, <1>3, <1>4, ServiceTables DEF Service!Init

(* The parts of the backlog. *)
LEMMA BacklogType ==
  ASSUME WriterInv
  PROVE  /\ queue \in Seq(Messages) /\ open \in Seq(WriteOp)
         /\ WritesIn(queue) \in Seq(WriteOp)
         /\ Backlog = open \o WritesIn(queue)
<1>1. queue \in Seq(Messages) /\ open \in Seq(WriteOp)
  BY QueueType DEF WriterInv, TypeOK
<1>2. QED
  BY <1>1, WritesInType DEF Backlog

(* A step that nobody sees. *)
LEMMA QuietService ==
  ASSUME ServiceInv, UNCHANGED <<committed, work, open, faults>>,
         writer' = writer \/ writer' # "prune", WritesIn(queue') = WritesIn(queue)
  PROVE  ServiceInv' /\ ServiceStep
<1>1. ServiceInv'
  BY DEF ServiceInv
<1>2. UNCHANGED <<committed, Backlog>>
  BY DEF Backlog
<1>3. QED
  BY <1>1, <1>2 DEF ServiceStep

(* A failed statement ends what is promised. *)
LEMMA FaultService ==
  ASSUME WriterInv, Fault
  PROVE  ServiceInv' /\ ServiceStep
<1>1. faults \in Nat /\ faults' # 0
  BY DEF WriterInv, TypeOK, Fault
<1>2. QED
  BY <1>1 DEF ServiceInv, ServiceStep

(* Accept, or a channel that is full. *)
LEMMA EnqueueService ==
  ASSUME WriterInv, ServiceInv, NEW kind \in Kinds, NEW ts \in Times, Enqueue(kind, ts)
  PROVE  ServiceInv' /\ ServiceStep
<1> DEFINE w == [op |-> issued + 1, kind |-> kind, ts |-> ts]
           ws == WritesIn(queue)
<1>0. issued \in Nat
  BY DEF WriterInv, TypeOK
<1>1. w \in WriteOp /\ w \in Messages /\ IsWrite(w)
  BY <1>0 DEF WriteOp, Messages, IsWrite
<1>2. /\ UNCHANGED <<writer, committed, work, open, faults>>
      /\ queue' = queue \/ queue' = Append(queue, w)
  BY DEF Enqueue, tableVars
<1>3. queue \in Seq(Messages) /\ open \in Seq(WriteOp) /\ ws \in Seq(WriteOp)
      /\ Backlog = open \o ws
  BY BacklogType
<1>4. CASE queue' = queue
  BY <1>2, <1>4, QuietService
<1>5. CASE queue' = Append(queue, w)
  <2>1. ServiceInv'
    BY <1>2 DEF ServiceInv
  <2>2. WritesIn(queue') = Append(ws, w)
    BY <1>1, <1>3, <1>5, WritesInAppend
  <2>3. Backlog' = open \o Append(ws, w)
    BY <1>2, <2>2 DEF Backlog
  <2> HIDE DEF w, ws
  <2>4. Backlog' = Append(Backlog, w) /\ Backlog \in Seq(WriteOp)
    BY <1>1, <1>3, <2>3, AppendOverConcat
  <2>5. \A s \in Seq(WriteOp) : Append(s, w) # <<>> /\ Service!Front(Append(s, w)) = s
    <3>1. ASSUME NEW s \in Seq(WriteOp) PROVE Append(s, w) # <<>> /\ Service!Front(Append(s, w)) = s
      <4>0. Len(Append(s, w)) = Len(s) + 1 /\ Len(s) \in Nat /\ Len(<<>>) = 0
        BY <1>1
      <4>1. Len(Append(s, w)) - 1 = Len(s) /\ Append(s, w) # <<>>
        BY <4>0
      <4>2. SubSeq(Append(s, w), 1, Len(s)) = s
        BY <1>1
      <4>3. QED
        BY <4>1, <4>2 DEF Service!Front
    <3>2. QED
      BY <3>1
  <2>6. Service!Accept
    BY <1>2, <2>4, <2>5 DEF Service!Accept
  <2>7. QED
    BY <2>1, <2>6 DEF ServiceStep, Service!Next
<1>6. QED
  BY <1>2, <1>4, <1>5

(* Concatenations taken apart. *)
LEMMA ConcatParts ==
  ASSUME NEW s \in Seq(WriteOp), NEW t \in Seq(WriteOp)
  PROVE  /\ Len(s) \in 0 .. Len(s \o t)
         /\ SubSeq(s \o t, 1, Len(s)) = s
         /\ SubSeq(s \o t, Len(s) + 1, Len(s \o t)) = t
<1> DEFINE c == s \o t
           a == SubSeq(c, 1, Len(s))
           b == SubSeq(c, Len(s) + 1, Len(c))
<1>1. c \in Seq(WriteOp) /\ Len(c) = Len(s) + Len(t) /\ Len(s) \in Nat /\ Len(t) \in Nat
  OBVIOUS
<1>2. /\ \A i \in 1 .. Len(s) : c[i] = s[i]
      /\ \A i \in 1 .. Len(t) : c[Len(s) + i] = t[i]
  OBVIOUS
<1> HIDE DEF c
<1>3. a \in Seq(WriteOp) /\ Len(a) = Len(s) /\ \A i \in 1 .. Len(s) : a[i] = c[i]
  BY <1>1
<1>4. b \in Seq(WriteOp) /\ Len(b) = Len(t) /\ \A i \in 1 .. Len(t) : b[i] = c[Len(s) + i]
  BY <1>1
<1> HIDE DEF a, b
<1>5. a = s
  BY <1>1, <1>2, <1>3, SeqEqual
<1>6. b = t
  BY <1>1, <1>2, <1>4, SeqEqual
<1>7. QED
  BY <1>1, <1>5, <1>6 DEF a, b, c

(* Publish: the transaction is committed, whatever is in the channel. *)
LEMMA CommitService ==
  ASSUME WriterInv, ServiceInv, CommitBegin, writer # "starting",
         WritesIn(queue') = WritesIn(queue)
  PROVE  ServiceInv' /\ ServiceStep
<1> DEFINE ws == WritesIn(queue)
<1>1. CASE faults' # 0
  BY <1>1 DEF ServiceInv, ServiceStep
<1>2. CASE faults' = 0
  <2>1. /\ faults = 0 /\ committed' = work /\ work' = work /\ open' = <<>>
    <3>1. faults \in Nat /\ (faults = 0 => inTx)
      BY DEF WriterInv, TypeOK, ControlInv
    <3>2. QED
      BY <1>2, <3>1 DEF CommitBegin, Commit_Done, Commit_Fails, Commit_RollsBack, Fault,
                        Commit_NoTransaction
  <2>2. ServiceInv'
    BY <2>1, ResultsNone DEF ServiceInv
  <2>3. open \in Seq(WriteOp) /\ ws \in Seq(WriteOp) /\ Backlog = open \o ws
    BY BacklogType
  <2>4. Backlog' = <<>> \o ws
    BY <2>1 DEF Backlog
  <2>5. work \in Service!Results(committed, open)
    BY <2>1 DEF ServiceInv
  <2> HIDE DEF ws
  <2>6. Backlog' = ws
    BY <2>3, <2>4
  <2>7. /\ Len(open) \in 0 .. Len(Backlog)
        /\ SubSeq(Backlog, 1, Len(open)) = open
        /\ SubSeq(Backlog, Len(open) + 1, Len(Backlog)) = ws
    BY <2>3, ConcatParts
  <2>8. Service!Publish
    BY <2>1, <2>5, <2>6, <2>7 DEF Service!Publish
  <2>9. QED
    BY <2>2, <2>8 DEF ServiceStep, Service!Next
<1>3. QED
  BY <1>1, <1>2

(* A write goes from the channel into the open transaction. *)
LEMMA ApplyService ==
  ASSUME WriterInv, ServiceInv, Writer_Apply
  PROVE  ServiceInv' /\ ServiceStep
<1> DEFINE w == Head(queue)
           rest == WritesIn(Tail(queue))
<1>1. CASE faults # 0
  BY <1>1 DEF Writer_Apply, ServiceInv, ServiceStep
<1>2. CASE faults = 0
  <2>1. inTx
    BY <1>2 DEF WriterInv, ControlInv, Writer_Apply, Received
  <2>2. /\ queue # <<>> /\ queue' = Tail(queue) /\ IsWrite(w) /\ Received
        /\ work' = Applied(work, w) /\ open' = Append(open, w) /\ committed' = committed
    BY <2>1 DEF Writer_Apply, Received
  <2>3. w \in WriteOp /\ Tail(queue) \in Seq(Messages)
    BY <2>2, HeadFacts, QueueType
  <2>4. open \in Seq(WriteOp) /\ queue \in Seq(Messages) /\ Backlog = open \o WritesIn(queue)
    BY BacklogType
  <2>5. rest \in Seq(WriteOp)
    BY <2>3, WritesInType
  <2>6. WritesIn(queue) = <<w>> \o rest
    BY <2>2, <2>4, WritesInTail
  <2>7. Backlog' = Append(open, w) \o rest
    BY <2>2 DEF Backlog
  <2>8. work \in Service!Results(committed, open)
    BY <1>2 DEF ServiceInv
  <2> HIDE DEF w, rest
  <2>9. Append(open, w) \o rest = open \o (<<w>> \o rest)
    <3>1. \A s, t \in Seq(WriteOp), x \in WriteOp : Append(s, x) \o t = s \o (<<x>> \o t)
      <4>1. ASSUME NEW s \in Seq(WriteOp), NEW t \in Seq(WriteOp), NEW x \in WriteOp
            PROVE  Append(s, x) \o t = s \o (<<x>> \o t)
        <5> DEFINE l == Append(s, x) \o t
                   r == s \o (<<x>> \o t)
        <5>1. /\ l \in Seq(WriteOp) /\ r \in Seq(WriteOp)
              /\ Len(l) = Len(s) + 1 + Len(t) /\ Len(r) = Len(l)
          OBVIOUS
        <5>2. ASSUME NEW i \in 1 .. Len(l) PROVE l[i] = r[i]
          OBVIOUS
        <5> HIDE DEF l, r
        <5>3. l = r
          BY <5>1, <5>2, SeqEqual
        <5>4. QED
          BY <5>3 DEF l, r
      <4>2. QED
        BY <4>1
    <3>2. QED
      BY <2>3, <2>4, <2>5, <3>1, Zenon
  <2>10. UNCHANGED <<committed, Backlog>>
    BY <2>2, <2>4, <2>6, <2>7, <2>9
  <2>11. /\ work' \in Service!Results(committed', open')
         /\ \A now \in Times : Pruned(work', now) \in Service!Results(committed', open')
    BY <2>2, <2>3, <2>4, <2>8, ResultsAfter
  <2>12. QED
    BY <2>10, <2>11 DEF ServiceInv, ServiceStep
<1>3. QED
  BY <1>1, <1>2

(* A prune in the transaction is one of those the results allow. *)
LEMMA PruneService ==
  ASSUME WriterInv, ServiceInv, Writer_Prune
  PROVE  ServiceInv' /\ ServiceStep
<1>1. CASE faults' # 0
  BY <1>1 DEF ServiceInv, ServiceStep
<1>2. CASE faults' = 0
  <2>1. faults \in Nat
    BY DEF WriterInv, TypeOK
  <2>2. PICK now \in Times : work' = Pruned(work, now) /\ faults' = faults
    BY <1>2, <2>1 DEF Writer_Prune, Fault
  <2>3. inTx
    BY <1>2, <2>2 DEF WriterInv, ControlInv, Writer_Prune
  <2>4. /\ UNCHANGED <<queue, open, committed>> /\ writer = "prune" /\ writer' = "recv"
    BY <2>3 DEF Writer_Prune
  <2>5. work' \in Service!Results(committed, open)
    BY <1>2, <2>2, <2>4 DEF ServiceInv
  <2>6. UNCHANGED Backlog
    BY <2>4 DEF Backlog
  <2>7. QED
    BY <2>4, <2>5, <2>6 DEF ServiceInv, ServiceStep
<1>3. QED
  BY <1>1, <1>2

(* A crash is one of StoreService. *)
LEMMA CrashService ==
  ASSUME WriterInv, ServiceInv, Crash
  PROVE  ServiceInv' /\ ServiceStep
<1>1. /\ work' = committed' /\ open' = <<>> /\ queue' = <<>> /\ writer' = "starting"
      /\ faults' = faults
  BY DEF Crash
<1>2. ServiceInv'
  BY <1>1, ResultsNone DEF ServiceInv
<1>3. Backlog' = <<>>
  <2>1. Backlog' = <<>> \o <<>>
    BY <1>1, WritesInEmpty DEF Backlog
  <2>2. QED
    BY <2>1
<1>4. faults = 0 => committed' = committed
  BY DEF Crash, WriterInv, ControlInv
<1>5. QED
  BY <1>1, <1>2, <1>3, <1>4 DEF ServiceStep, Service!Next, Service!Crash

(* Every step without a failed statement is one of StoreService, or none.   *)
LEMMA NextService ==
  ASSUME WriterInv, ServiceInv, [Next]_vars
  PROVE  ServiceInv' /\ ServiceStep
<1>1. CASE Producers
  <2>1. ASSUME NEW ts \in Times,
               Persist_Metric(ts) \/ Persist_HostDocument(ts) \/ Persist_Document(ts) \/ Write_Log(ts)
        PROVE  ServiceInv' /\ ServiceStep
    <3>1. PICK kind \in Kinds : Enqueue(kind, ts)
      BY <2>1 DEF Persist_Metric, Persist_HostDocument, Persist_Document, Write_Log, Kinds
    <3>2. QED
      BY <3>1, EnqueueService
  <2>2. CASE Persist_Sample
    <3>1. persisting.ts \in Times /\ Enqueue("sample", persisting.ts) /\ "sample" \in Kinds
      BY <2>2 DEF Persist_Sample, Kinds, WriterInv, ControlInv
    <3>2. QED
      BY <3>1, EnqueueService
  <2>3. CASE Flush_Send
    <3>1. /\ UNCHANGED <<committed, work, open, faults, writer>> /\ queue' = Append(queue, Sync)
      BY <2>3 DEF Flush_Send
    <3>2. queue \in Seq(Messages) /\ Sync \in Messages /\ ~IsWrite(Sync)
      BY BacklogType, MessageKinds DEF Messages
    <3>3. WritesIn(queue') = WritesIn(queue)
      BY <3>1, <3>2, WritesInAppend
    <3>4. QED
      BY <3>1, <3>3, QuietService
  <2>4. CASE Flush_Error
    <3>1. /\ UNCHANGED <<committed, work, open, faults, writer>>
          /\ queue' = [i \in DOMAIN queue |-> IF IsWrite(queue[i]) THEN queue[i] ELSE Abandoned]
      BY <2>4 DEF Flush_Error
    <3>2. queue \in Seq(Messages) /\ Abandoned \in Messages /\ ~IsWrite(Abandoned)
      BY BacklogType, MessageKinds DEF Messages
    <3>3. /\ queue' \in Seq(Messages) /\ Len(queue') = Len(queue)
          /\ \A i \in 1 .. Len(queue) :
               queue[i] = queue'[i] \/ (~IsWrite(queue[i]) /\ ~IsWrite(queue'[i]))
      BY <3>1, <3>2
    <3>4. WritesIn(queue) = WritesIn(queue')
      BY <3>2, <3>3, WritesInSame
    <3>5. QED
      BY <3>1, <3>4, QuietService
  <2>5. CASE Flush_Ok \/ Close
    <3>1. UNCHANGED <<committed, work, open, faults, writer, queue>>
      BY <2>5 DEF Flush_Ok, Close, tableVars
    <3>2. QED
      BY <3>1, QuietService
  <2>6. QED
    BY <1>1, <2>1, <2>2, <2>3, <2>4, <2>5 DEF Producers
<1>2. CASE Writer
  <2>1. CASE Writer_Opens
    <3>1. UNCHANGED <<committed, work, open, faults, queue>> /\ writer' # "prune"
      BY <2>1 DEF Writer_Opens
    <3>2. QED
      BY <3>1, QuietService
  <2>2. CASE Writer_OpenFails \/ Writer_ApplyFails
    BY <2>2, FaultService DEF Writer_OpenFails, Writer_ApplyFails
  <2>3. CASE Writer_Apply
    BY <2>3, ApplyService
  <2>4. CASE Writer_Prune
    BY <2>4, PruneService
  <2>5. CASE Writer_Sync
    <3>1. /\ queue # <<>> /\ queue' = Tail(queue) /\ ~IsWrite(Head(queue)) /\ CommitBegin
          /\ writer # "starting"
      BY <2>5 DEF Writer_Sync, Received
    <3>2. queue \in Seq(Messages)
      BY BacklogType
    <3>3. WritesIn(queue') = WritesIn(queue)
      BY <3>1, <3>2, WritesInTail
    <3>4. QED
      BY <3>1, <3>3, CommitService
  <2>6. CASE Writer_Batch \/ Writer_Timeout \/ Writer_Disconnected
    <3>1. CommitBegin /\ queue' = queue /\ writer # "starting"
      BY <2>6 DEF Writer_Batch, Writer_Timeout, Writer_Disconnected
    <3>2. QED
      BY <3>1, CommitService
  <2>7. QED
    BY <1>2, <2>1, <2>2, <2>3, <2>4, <2>5, <2>6 DEF Writer
<1>3. CASE Crash
  BY <1>3, CrashService
<1>4. CASE UNCHANGED vars
  <2>1. UNCHANGED <<committed, work, open, faults, queue, writer>>
    BY <1>4 DEF vars, tableVars
  <2>2. QED
    BY <2>1, QuietService
<1>5. QED
  BY <1>1, <1>2, <1>3, <1>4 DEF Next

-----------------------------------------------------------------------------
(* The properties *)

(* What every step of the threads and the writer, every failed statement    *)
(* and every crash keeps.                                                  *)
THEOREM StoreInvariantHolds == Spec => []StoreInv
<1>1. Init => StoreInv
  BY InitInv, ServiceInit DEF StoreInv
<1>2. StoreInv /\ [Next]_vars => StoreInv'
  BY NextInv, NextService DEF StoreInv
<1>3. QED
  BY <1>1, <1>2, PTL DEF Spec

(* The vector search finds a document by the vector of its own text, over   *)
(* prunes, reuse of rowids and crashes, with one failed statement too; with *)
(* none, every document has its vector (apply_op, prune).                  *)
THEOREM EmbeddingsStayPaired == Spec => []EmbeddingsPaired
<1>1. StoreInv => EmbeddingsPaired
  <2>1. SUFFICES ASSUME StoreInv PROVE EmbeddingsPaired
    OBVIOUS
  <2>2. /\ faults <= 1 => Paired(committed)
        /\ faults = 0 => NoOrphan(committed) /\ NoneBare(committed)
    BY <2>1 DEF StoreInv, WriterInv, PairInv
  <2>3. ASSUME faults = 0
        PROVE  {x.id : x \in committed.documents} = {y.id : y \in committed.embeddings}
    BY <2>2, <2>3 DEF NoOrphan, NoneBare
  <2>4. QED
    BY <2>2, <2>3 DEF EmbeddingsPaired, Paired
<1>2. QED
  BY StoreInvariantHolds, <1>1, PTL

(* flush returns Ok only when everything accepted before the call has been  *)
(* committed, as long as no COMMIT fails (flush, writer_loop).             *)
THEOREM FlushMeansCommitted == Spec => []FlushPublishes
<1>1. StoreInv => FlushPublishes
  BY DEF StoreInv, WriterInv, FlushInv, FlushPublishes
<1>2. QED
  BY StoreInvariantHolds, <1>1, PTL

(* The tables exceed what a prune keeps by the writes since the last prune  *)
(* at most, and those between two prunes once for every crash; channel,     *)
(* counters and what a crash may lose keep their bounds (writer_loop).     *)
THEOREM TablesStayBounded == Spec => []TablesBounded
<1>1. StoreInv => TablesBounded
  BY DEF StoreInv, WriterInv, SizeInv, TablesBounded
<1>2. QED
  BY StoreInvariantHolds, <1>1, PTL

(* A search does not disturb the store: what is proved of the store holds   *)
(* while searches read it (hybrid_search).                                 *)
THEOREM SearchLeavesStore == SearchSpec => Spec
<1>1. SearchInit => Init
  BY DEF SearchInit
<1>2. [SearchNext]_<<vars, searchVars>> => [Next]_vars
  BY DEF SearchNext, Reader, Writes, Dies, Next
<1>3. QED
  BY <1>1, <1>2, PTL DEF SearchSpec, Spec

(* Readers see the result of the accepted writes up to some point, in       *)
(* order, and a crash drops only the newest ones, as long as no statement   *)
(* has failed: the store implements StoreService (writer_loop).            *)
THEOREM StoreImplementsService == Spec => ImplementsStoreService
<1>1. Init => Service!Init
  BY ServiceInit
<1>2. StoreInv /\ [Next]_vars => [faults' = 0 => [Service!Next]_<<committed, Backlog>>]_vars
  <2>1. StoreInv /\ [Next]_vars => ServiceStep
    BY NextService DEF StoreInv
  <2>2. QED
    BY <2>1 DEF ServiceStep
<1>3. QED
  BY StoreInvariantHolds, <1>1, <1>2, PTL DEF Spec, ImplementsStoreService

-----------------------------------------------------------------------------
(* What a search has seen *)

(* What a step leaves of the channel is older than what it adds. *)
LEMMA OlderKept ==
  ASSUME WriterInv, [Next]_vars, NEW op \in Nat, Older(op)
  PROVE  Older(op)'
<1>1. /\ queue \in Seq(Messages) /\ Len(queue) \in Nat /\ DOMAIN queue = 1 .. Len(queue)
      /\ issued \in Nat
  BY QueueType DEF WriterInv, TypeOK
<1>2. op <= issued /\ \A i \in DOMAIN queue : IsWrite(queue[i]) => op < queue[i].op
  BY DEF Older
<1>3. CASE queue' = queue /\ issued' = issued
  BY <1>2, <1>3 DEF Older
<1>4. CASE queue' = <<>> /\ issued' = issued
  BY <1>2, <1>4 DEF Older
<1>5. CASE queue # <<>> /\ queue' = Tail(queue) /\ issued' = issued
  <2>1. \A i \in DOMAIN queue' : i + 1 \in DOMAIN queue /\ queue'[i] = queue[i + 1]
    BY <1>5, QueueType
  <2>2. QED
    BY <1>2, <1>5, <2>1 DEF Older
<1>6. ASSUME NEW m \in Messages, queue' = queue \/ queue' = Append(queue, m),
             issued' \in {issued, issued + 1}, IsWrite(m) => m.op = issued' /\ issued' = issued + 1
      PROVE  Older(op)'
  <2>1. \A i \in DOMAIN queue' : (i \in DOMAIN queue /\ queue'[i] = queue[i]) \/ queue'[i] = m
    BY <1>1, <1>6
  <2>2. op <= issued' /\ op < issued + 1
    BY <1>1, <1>2, <1>6
  <2>3. QED
    BY <1>2, <1>6, <2>1, <2>2 DEF Older
<1>7. CASE Flush_Error
  <2>1. queue' = [i \in DOMAIN queue |-> IF IsWrite(queue[i]) THEN queue[i] ELSE Abandoned]
        /\ issued' = issued
    BY <1>7 DEF Flush_Error, producerVars
  <2>2. ~IsWrite(Abandoned)
    BY DEF IsWrite, Abandoned, Kinds
  <2>3. \A i \in DOMAIN queue' : IsWrite(queue'[i]) => i \in DOMAIN queue /\ queue'[i] = queue[i]
    BY <2>1, <2>2
  <2>4. QED
    BY <1>2, <2>1, <2>3 DEF Older
<1>8. CASE Flush_Send
  <2>1. Sync \in Messages /\ ~IsWrite(Sync)
    BY DEF Messages, IsWrite, Sync, Kinds
  <2>2. queue' = Append(queue, Sync) /\ issued' = issued
    BY <1>8 DEF Flush_Send, producerVars
  <2>3. QED
    BY <1>6, <2>1, <2>2
<1>9. ASSUME NEW kind \in Kinds, NEW ts \in Times, Enqueue(kind, ts) PROVE Older(op)'
  <2>1. [op |-> issued', kind |-> kind, ts |-> ts] \in Messages
    BY <1>1, <1>9 DEF Messages, WriteOp, Enqueue
  <2>2. /\ issued' = issued + 1
        /\ queue' = queue \/ queue' = Append(queue, [op |-> issued', kind |-> kind, ts |-> ts])
    BY <1>9 DEF Enqueue
  <2>3. QED
    BY <1>6, <2>1, <2>2
<1>10. CASE Producers
  <2>1. CASE Flush_Ok \/ Close
    BY <1>3, <2>1 DEF Flush_Ok, Close, producerVars
  <2>2. CASE Persist_Sample
    <3>1. persisting.ts \in Times /\ Enqueue("sample", persisting.ts) /\ "sample" \in Kinds
      BY <2>2 DEF Persist_Sample, Kinds, WriterInv, ControlInv
    <3>2. QED
      BY <1>9, <3>1
  <2>3. ASSUME NEW ts \in Times,
               Persist_Metric(ts) \/ Persist_HostDocument(ts) \/ Persist_Document(ts) \/ Write_Log(ts)
        PROVE  Older(op)'
    <3>1. PICK kind \in Kinds : Enqueue(kind, ts)
      BY <2>3 DEF Persist_Metric, Persist_HostDocument, Persist_Document, Write_Log, Kinds
    <3>2. QED
      BY <1>9, <3>1
  <2>4. QED
    BY <1>7, <1>8, <1>10, <2>1, <2>2, <2>3 DEF Producers
<1>11. CASE Writer_Opens \/ Writer_Batch \/ Writer_Prune \/ Writer_Timeout \/ Writer_Disconnected
  BY <1>3, <1>11
     DEF Writer_Opens, Writer_Batch, Writer_Prune, Writer_Timeout, Writer_Disconnected, producerVars
<1>12. CASE Writer_OpenFails \/ Crash
  BY <1>4, <1>12 DEF Writer_OpenFails, Crash, producerVars
<1>13. CASE Writer_Apply \/ Writer_ApplyFails \/ Writer_Sync
  BY <1>5, <1>13 DEF Writer_Apply, Writer_ApplyFails, Writer_Sync, Received, producerVars
<1>14. CASE UNCHANGED vars
  BY <1>3, <1>14 DEF vars, producerVars
<1>15. QED
  BY <1>10, <1>11, <1>12, <1>13, <1>14 DEF Next, Writer

(* A document is inserted under a new rowid, newer than all that was seen.  *)
Inserts(n) ==
  /\ n.op \in Nat /\ Older(n.op)'
  /\ \A op \in Nat : Older(op) => op < n.op
  /\ \A d \in work.documents : d.id < n.id
  /\ work'.documents \subseteq work.documents \cup {n}
  /\ \/ committed'.documents \subseteq committed.documents
     \/ /\ committed = work
        /\ committed'.documents \subseteq work.documents \cup {n}

(* Nothing is inserted. *)
Keeps ==
  \/ work'.documents \subseteq work.documents /\ committed'.documents \subseteq committed.documents
  \/ work'.documents \subseteq work.documents /\ committed'.documents \subseteq work.documents
  \/ work'.documents \subseteq committed.documents /\ committed'.documents \subseteq committed.documents

(* What the statement of a write inserts. *)
LEMMA InsertStep ==
  ASSUME WriterInv, queue # <<>>, IsWrite(Head(queue)), issued' = issued,
         queue' = Tail(queue) \/ queue' = <<>>,
         work' \in HalfApplied(work, Head(queue)) \cup {Applied(work, Head(queue))},
         committed' = committed \/ (committed = work /\ committed' = work')
  PROVE  Keeps \/ \E n \in Document : Inserts(n)
<1>0. PICK w, n :
        w = Head(queue) /\ n = [op |-> w.op, ts |-> w.ts, id |-> NewId(work.documents)]
  OBVIOUS
<1>1. /\ TableInv(work) /\ work \in Tables /\ OrderInv /\ issued \in Nat
  BY DEF WriterInv, TableInv, TypeOK
<1>2. w \in WriteOp /\ w = queue[1] /\ 1 \in DOMAIN queue
  BY <1>0, QueueType, MessageKinds
<1>3. work'.documents \subseteq work.documents \cup {n}
  <2>1. CASE work' = work
    BY <2>1
  <2>2. CASE work' = InsertDocument(work, w)
    BY <1>0, <1>1, <2>2, InsertDocumentFields
  <2>3. CASE work' = Applied(work, w)
    BY <1>0, <1>1, <1>2, <2>3, AppliedFields
  <2>4. QED
    BY <1>0, <2>1, <2>2, <2>3 DEF HalfApplied
<1>4. NewId(work.documents) \in Nat /\ \A d \in work.documents : d.id < NewId(work.documents)
  BY <1>1, NewIdFresh
<1>5. n \in Document /\ n.op = w.op /\ n.id = NewId(work.documents) /\ w.op \in Nat
  BY <1>0, <1>2, <1>4 DEF Document, WriteOp
<1>6. Older(w.op)'
  <2>1. w.op <= issued
    BY <1>1, <1>2 DEF OrderInv
  <2>2. CASE queue' = Tail(queue)
    <3>1. ASSUME NEW i \in DOMAIN queue', IsWrite(queue'[i]) PROVE w.op < queue'[i].op
      <4>1. /\ DOMAIN Tail(queue) = 1 .. Len(queue) - 1 /\ Len(queue) \in Nat
            /\ \A k \in DOMAIN Tail(queue) : k + 1 \in DOMAIN queue /\ Tail(queue)[k] = queue[k + 1]
        BY QueueType
      <4>2. i + 1 \in DOMAIN queue /\ queue'[i] = queue[i + 1] /\ 1 < i + 1
        BY <2>2, <3>1, <4>1
      <4>3. IsWrite(queue[1]) /\ IsWrite(queue[i + 1])
        BY <1>0, <1>2, <3>1, <4>2
      <4>4. queue[1].op < queue[i + 1].op
        BY <1>1, <1>2, <4>2, <4>3 DEF OrderInv
      <4>5. QED
        BY <1>2, <4>2, <4>4
    <3>2. QED
      BY <2>1, <3>1 DEF Older
  <2>3. CASE queue' = <<>>
    BY <2>1, <2>3 DEF Older
  <2>4. QED
    BY <2>2, <2>3
<1>7. \A op \in Nat : Older(op) => op < w.op
  <2>1. IsWrite(queue[1])
    BY <1>0, <1>2
  <2>2. \A op \in Nat : Older(op) => op < queue[1].op
    BY <1>2, <2>1 DEF Older
  <2>3. QED
    BY <1>2, <2>2
<1>8. Inserts(n)
  BY <1>3, <1>4, <1>5, <1>6, <1>7 DEF Inserts
<1>9. QED
  BY <1>5, <1>8

(* Every step keeps the documents of one of the two views, or some of them, *)
(* or inserts one.                                                         *)
LEMMA DocumentsStep ==
  ASSUME WriterInv, [Next]_vars
  PROVE  Keeps \/ \E n \in Document : Inserts(n)
<1>1. /\ TableInv(work) /\ work \in Tables /\ committed \in Tables
      /\ ~inTx => work = committed
  BY DEF WriterInv, TableInv, TypeOK, ControlInv
<1>2. CASE UNCHANGED <<work, committed>>
  BY <1>2 DEF Keeps
<1>3. CASE CommitBegin \/ RollBack
  BY <1>3 DEF Keeps, CommitBegin, Commit_Done, Commit_Fails, Commit_RollsBack, RollBack,
             Commit_NoTransaction, tableVars
<1>4. CASE Producers
  BY <1>2, <1>4 DEF Producers, Persist_Metric, Persist_HostDocument, Persist_Document, Write_Log,
                  Persist_Sample, Flush_Send, Flush_Error, Flush_Ok, Close, Enqueue, tableVars
<1>5. CASE Writer_Opens \/ Writer_OpenFails
  BY <1>2, <1>5 DEF Writer_Opens, Writer_OpenFails, tableVars
<1>6. CASE Writer_Batch \/ Writer_Timeout \/ Writer_Disconnected \/ Writer_Sync
  BY <1>3, <1>6 DEF Writer_Batch, Writer_Timeout, Writer_Disconnected, Writer_Sync
<1>7. CASE Writer_Apply
  <2>1. /\ queue # <<>> /\ queue' = Tail(queue) /\ IsWrite(Head(queue)) /\ issued' = issued
        /\ work' = Applied(work, Head(queue))
        /\ committed' = committed \/ (committed = work /\ committed' = work')
    BY <1>1, <1>7 DEF Writer_Apply, Received, producerVars
  <2>2. QED
    BY <2>1, InsertStep
<1>8. CASE Writer_ApplyFails
  <2>1. CASE RollBack
    BY <1>3, <2>1
  <2>2. CASE /\ work' \in HalfApplied(work, Head(queue))
             /\ committed' = IF inTx THEN committed ELSE work'
    <3>1. /\ queue # <<>> /\ queue' = Tail(queue) /\ IsWrite(Head(queue)) /\ issued' = issued
          /\ committed' = committed \/ (committed = work /\ committed' = work')
      BY <1>1, <1>8, <2>2 DEF Writer_ApplyFails, Received, producerVars
    <3>2. QED
      BY <2>2, <3>1, InsertStep
  <2>3. QED
    BY <1>8, <2>1, <2>2 DEF Writer_ApplyFails
<1>9. CASE Writer_Prune
  <2>1. PICK now \in Times : work' = Pruned(work, now) \/ work' \in PrunedButOne(work, now)
    BY <1>9 DEF Writer_Prune
  <2>2. PartOf(work', work)
    BY <1>1, <2>1, PrunedPart, PrunedButOnePart
  <2>3. committed' = committed \/ committed' = work'
    BY <1>9 DEF Writer_Prune
  <2>4. QED
    BY <2>2, <2>3 DEF PartOf, Keeps
<1>10. CASE Crash
  <2>1. work' = committed' /\ issued' = issued /\ queue' = <<>>
    BY <1>10 DEF Crash
  <2>2. \/ committed' = committed
        \/ /\ ~inTx /\ queue # <<>> /\ IsWrite(Head(queue))
           /\ committed' \in HalfApplied(committed, Head(queue))
        \/ \E now \in Times : committed' \in HalfPruned(committed, now)
    BY <1>10 DEF Crash
  <2>3. CASE committed' = committed
    BY <2>1, <2>3 DEF Keeps
  <2>4. CASE /\ ~inTx /\ queue # <<>> /\ IsWrite(Head(queue))
             /\ committed' \in HalfApplied(committed, Head(queue))
    BY <1>1, <2>1, <2>4, InsertStep
  <2>5. ASSUME NEW now \in Times, committed' \in HalfPruned(committed, now) PROVE Keeps
    <3>1. PartOf(committed', committed)
      BY <1>1, <2>5, HalfPrunedPart
    <3>2. QED
      BY <2>1, <3>1 DEF PartOf, Keeps
  <2>6. QED
    BY <2>2, <2>3, <2>4, <2>5
<1>11. CASE UNCHANGED vars
  BY <1>2, <1>11 DEF vars, tableVars
<1>12. QED
  BY <1>4, <1>5, <1>6, <1>7, <1>8, <1>9, <1>10, <1>11 DEF Next, Writer

(* What has been seen stays settled, whatever becomes of it. *)
LEMMA SettledKept ==
  ASSUME WriterInv, [Next]_vars, NEW id \in Nat, NEW op \in Nat, Settled(id, op)
  PROVE  Settled(id, op)'
<1>1. SeenIn(work, id, op) /\ SeenIn(committed, id, op) /\ Older(op) /\ Older(op)'
  BY OlderKept DEF Settled
<1>2. CASE Keeps
  BY <1>1, <1>2 DEF Keeps, Settled, SeenIn
<1>3. ASSUME NEW n \in Document, Inserts(n) PROVE Settled(id, op)'
  <2>1. op < n.op /\ n.op \in Nat
    BY <1>1, <1>3 DEF Inserts
  <2>2. \A d \in work.documents \cup committed.documents \cup {n} :
          (d.id = id => d.op >= op) /\ (d.op = op => d.id = id)
    BY <1>1, <2>1 DEF SeenIn
  <2>3. \A d \in work'.documents \cup committed'.documents :
          d \in work.documents \cup committed.documents \cup {n}
    BY <1>3 DEF Inserts
  <2>4. QED
    BY <1>1, <2>2, <2>3 DEF Settled, SeenIn
<1>4. QED
  BY <1>2, <1>3, DocumentsStep

(* So has every document. *)
LEMMA DocsKept ==
  ASSUME WriterInv, DocsInv, [Next]_vars
  PROVE  DocsInv'
<1>1. \A d \in work.documents \cup committed.documents : d.id \in Nat /\ d.op \in Nat
  BY DEF WriterInv, TypeOK, Tables, Document
<1>2. \A d \in committed.documents : Settled(d.id, d.op)'
  BY <1>1, SettledKept DEF DocsInv
<1>3. \A d \in work.documents : SeenIn(work, d.id, d.op) /\ Older(d.op) /\ Older(d.op)'
  BY <1>1, OlderKept DEF DocsInv
<1>4. CASE Keeps
  <2>1. CASE work'.documents \subseteq work.documents /\ committed'.documents \subseteq committed.documents
    BY <1>2, <1>3, <2>1 DEF DocsInv, SeenIn
  <2>2. CASE work'.documents \subseteq work.documents /\ committed'.documents \subseteq work.documents
    BY <1>3, <2>2 DEF DocsInv, SeenIn, Settled
  <2>3. CASE work'.documents \subseteq committed.documents /\ committed'.documents \subseteq committed.documents
    BY <1>2, <2>3 DEF DocsInv, SeenIn, Settled
  <2>4. QED
    BY <1>4, <2>1, <2>2, <2>3 DEF Keeps
<1>5. ASSUME NEW n \in Document, Inserts(n) PROVE DocsInv'
  <2>1. /\ n.op \in Nat /\ n.id \in Nat /\ Older(n.op)'
        /\ \A d \in work.documents : d.id < n.id /\ d.op < n.op
    BY <1>1, <1>3, <1>5 DEF Inserts, Document
  <2>2. \A d, e \in work.documents \cup {n} :
          (d.id = e.id => d.op >= e.op) /\ (d.op = e.op => d.id = e.id)
    BY <1>1, <1>3, <2>1 DEF SeenIn
  <2>3. work'.documents \subseteq work.documents \cup {n}
    BY <1>5 DEF Inserts
  <2>4. \A d \in work'.documents : SeenIn(work', d.id, d.op) /\ Older(d.op)'
    BY <1>3, <2>1, <2>2, <2>3 DEF SeenIn
  <2>5. CASE committed'.documents \subseteq committed.documents
    BY <1>2, <2>4, <2>5 DEF DocsInv
  <2>6. CASE committed = work /\ committed'.documents \subseteq work.documents \cup {n}
    BY <1>3, <2>1, <2>2, <2>3, <2>4, <2>6 DEF DocsInv, Settled, SeenIn
  <2>7. QED
    BY <1>5, <2>5, <2>6 DEF Inserts
<1>6. QED
  BY <1>4, <1>5, DocumentsStep

(* The smaller of two numbers. *)
LEMMA MinOfTwo ==
  ASSUME NEW a \in Nat, NEW b \in Nat
  PROVE  (Min({a, b}) = a \/ Min({a, b}) = b) /\ Min({a, b}) <= a /\ Min({a, b}) <= b
<1>1. \E x \in {a, b} : \A y \in {a, b} : x <= y
  <2>1. CASE a <= b
    BY <2>1
  <2>2. CASE b <= a
    BY <2>2
  <2>3. QED
    BY <2>1, <2>2
<1>2. Min({a, b}) \in {a, b} /\ \A y \in {a, b} : Min({a, b}) <= y
  BY <1>1 DEF Min
<1>3. QED
  BY <1>2

(* The weight of a later rank is not greater. *)
LEMMA WeightFalls ==
  /\ \A i \in Nat : Weight(i) \in Nat
  /\ \A i, j \in Nat : i < j => Weight(i) >= Weight(j)
<1>1. ASSUME NEW b \in Nat, b > 0
      PROVE  /\ 1000000 \div b \in Nat
             /\ b * (1000000 \div b) <= 1000000 /\ 1000000 < b * (1000000 \div b) + b
  BY <1>1, Z3
<1>2. \A i \in Nat : Weight(i) \in Nat
  BY <1>1 DEF Weight
<1>3. ASSUME NEW i \in Nat, NEW j \in Nat, i < j PROVE Weight(i) >= Weight(j)
  <2> DEFINE p == Weight(i)
             q == Weight(j)
  <2>1. /\ p \in Nat /\ (60 + i) * p <= 1000000 /\ 1000000 < (60 + i) * p + (60 + i)
        /\ q \in Nat /\ (60 + j) * q <= 1000000
    BY <1>1 DEF Weight
  <2> HIDE DEF p, q
  <2>2. SUFFICES ASSUME p + 1 <= q PROVE FALSE
    BY <2>1 DEF p, q
  <2>3. (60 + i) * (p + 1) <= (60 + i) * q
    BY <2>1, <2>2
  <2>4. (60 + i) * q <= (60 + j) * q
    BY <1>3, <2>1
  <2>5. (60 + i) * (p + 1) = (60 + i) * p + (60 + i)
    BY <2>1
  <2>6. (60 + i) * (p + 1) \in Int /\ (60 + i) * q \in Int /\ (60 + j) * q \in Int
    BY <2>1
  <2>7. QED
    BY <2>1, <2>3, <2>4, <2>5, <2>6
<1>4. QED
  BY <1>2, <1>3

(* The rows of a set in some order: each of them once. *)
LEMMA OrderedRows ==
  ASSUME NEW S, IsFiniteSet(S), NEW s \in SetToSeqs(S)
  PROVE  /\ s \in Seq(S) /\ Len(s) = Cardinality(S) /\ Len(s) \in Nat
         /\ \A i, j \in DOMAIN s : s[i] = s[j] => i = j
         /\ \A x \in S : \E i \in DOMAIN s : s[i] = x
<1> DEFINE n == Cardinality(S)
<1>1. n \in Nat
  BY FS_CardinalityType
<1> HIDE DEF n
<1>2. s \in [1 .. n -> S] /\ \A i, j \in 1 .. n : i # j => s[i] # s[j]
  BY DEF SetToSeqs, n
<1>3. s \in Seq(S) /\ Len(s) = n /\ DOMAIN s = 1 .. n
  BY <1>1, <1>2
<1>4. \A x \in S : \E i \in 1 .. n : s[i] = x
  <2>1. IsFiniteSet(1 .. n) /\ Cardinality(1 .. n) = n
    BY <1>1, FS_Interval
  <2>2. s \in Injection(1 .. n, S)
    BY <1>2 DEF Injection, IsInjective
  <2>3. s \in Surjection(1 .. n, S)
    BY <2>1, <2>2, FS_Injection, FS_PigeonHole DEF n
  <2>4. QED
    BY <2>3 DEF Surjection
<1>5. QED
  BY <1>1, <1>2, <1>3, <1>4 DEF n

(* The beginning of a sequence. *)
LEMMA BeginningOf ==
  ASSUME NEW S, NEW t \in Seq(S), NEW m \in Nat, m <= Len(t), NEW s, s = SubSeq(t, 1, m)
  PROVE  /\ s \in Seq(S) /\ Len(s) = m
         /\ \A i \in DOMAIN s : i \in DOMAIN t /\ s[i] = t[i]
<1>1. s \in Seq(S)
  OBVIOUS
<1>2. Len(s) = m
  OBVIOUS
<1>3. \A i \in 1 .. m : s[i] = t[i]
  OBVIOUS
<1>4. DOMAIN s = 1 .. m /\ DOMAIN t = 1 .. Len(t) /\ Len(t) \in Nat
  BY <1>1, <1>2
<1>5. QED
  BY <1>1, <1>2, <1>3, <1>4

(* The first rows of a sequence, as many as there are. *)
LEMMA FirstRows ==
  ASSUME NEW S, NEW t, t \in Seq(S), NEW limit \in Nat
  PROVE  \E m \in Nat :
           /\ Min({limit, Len(t)}) = m /\ m <= limit /\ m <= Len(t) /\ (m = limit \/ m = Len(t))
           /\ SubSeq(t, 1, Min({limit, Len(t)})) \in Seq(S)
           /\ Len(SubSeq(t, 1, Min({limit, Len(t)}))) = m
           /\ \A i \in DOMAIN SubSeq(t, 1, Min({limit, Len(t)})) :
                i \in DOMAIN t /\ SubSeq(t, 1, Min({limit, Len(t)}))[i] = t[i]
<1>1. PICK m : m = Min({limit, Len(t)})
  OBVIOUS
<1>2. PICK s : s = SubSeq(t, 1, m)
  OBVIOUS
<1>3. Len(t) \in Nat
  OBVIOUS
<1>4. m \in Nat /\ m <= limit /\ m <= Len(t) /\ (m = limit \/ m = Len(t))
  <2>1. (m = limit \/ m = Len(t)) /\ m <= limit /\ m <= Len(t)
    BY <1>1, <1>3, MinOfTwo, Zenon
  <2>2. QED
    BY <1>3, <2>1, Zenon
<1>5. /\ s \in Seq(S) /\ Len(s) = m
      /\ \A i \in DOMAIN s : i \in DOMAIN t /\ s[i] = t[i]
  <2>1. m \in Nat /\ m <= Len(t)
    BY <1>4, Zenon
  <2>2. QED
    BY <1>2, <2>1, BeginningOf
<1>6. s = SubSeq(t, 1, Min({limit, Len(t)}))
  BY <1>1, <1>2
<1>7. QED
  BY <1>1, <1>4, <1>5, <1>6, Zenon

(* A ranking holds rows, at most as many as asked for and none twice. *)
LEMMA RankingIs ==
  ASSUME NEW rows, IsFiniteSet(rows), NEW limit \in Nat, NEW s \in Rankings(rows, limit)
  PROVE  /\ s \in Seq(rows) /\ Len(s) <= limit
         /\ \A i, j \in DOMAIN s : s[i] = s[j] => i = j
<1>0. PICK u \in UNION {SetToSeqs(S) : S \in SUBSET rows} : s = SubSeq(u, 1, Min({limit, Len(u)}))
  BY DEF Rankings
<1>1. PICK S \in SUBSET rows : \E t \in SetToSeqs(S) : s = SubSeq(t, 1, Min({limit, Len(t)}))
  BY <1>0
<1>2. PICK t \in SetToSeqs(S) : s = SubSeq(t, 1, Min({limit, Len(t)}))
  BY <1>1
<1>3. IsFiniteSet(S)
  BY FS_Subset
<1>4. t \in Seq(S) /\ \A i, j \in DOMAIN t : t[i] = t[j] => i = j
  BY <1>3, OrderedRows
<1>5. /\ s \in Seq(S) /\ Len(s) <= limit
      /\ \A i \in DOMAIN s : i \in DOMAIN t /\ s[i] = t[i]
  <2>1. t \in Seq(S)
    BY <1>4
  <2>2. \E m \in Nat :
           /\ m <= limit /\ s \in Seq(S) /\ Len(s) = m
           /\ \A i \in DOMAIN s : i \in DOMAIN t /\ s[i] = t[i]
    BY <1>2, <2>1, FirstRows, Zenon
  <2>3. QED
    BY <2>2
<1>6. s \in Seq(rows)
  BY <1>5, SeqMonotonic
<1>7. QED
  BY <1>4, <1>5, <1>6

(* A list of hits to be fused: rows of one document each. *)
ListOf(list, T) ==
  /\ list \in Seq(T) /\ \A i \in DOMAIN list : list[i].id \in Nat
  /\ \A i, j \in DOMAIN list : list[i].id = list[j].id => i = j

(* The rank of a document is its place, 0 if it has none. *)
LEMMA RankIs ==
  ASSUME NEW T, NEW list, ListOf(list, T), NEW id
  PROVE  /\ RankOf(list, id) \in Nat
         /\ IF id \in Ids(list)
            THEN RankOf(list, id) \in DOMAIN list /\ RankOf(list, id) # 0
                 /\ list[RankOf(list, id)].id = id
            ELSE RankOf(list, id) = 0
         /\ \A i \in DOMAIN list : list[i].id = id => RankOf(list, id) = i
<1>1. DOMAIN list = 1 .. Len(list) /\ Len(list) \in Nat
  BY DEF ListOf
<1>2. (\E i \in DOMAIN list : list[i].id = id) <=> id \in Ids(list)
  BY DEF Ids
<1>3. CASE id \in Ids(list)
  <2>1. RankOf(list, id) \in DOMAIN list /\ list[RankOf(list, id)].id = id
    BY <1>2, <1>3 DEF RankOf
  <2>2. \A i \in DOMAIN list : list[i].id = id => RankOf(list, id) = i
    BY <2>1 DEF ListOf
  <2>3. QED
    BY <1>1, <1>3, <2>1, <2>2
<1>4. CASE id \notin Ids(list)
  BY <1>2, <1>4 DEF RankOf
<1>5. QED
  BY <1>3, <1>4

(* The numbers of a list's documents are finitely many. *)
LEMMA IdsFinite ==
  ASSUME NEW T, NEW list, ListOf(list, T)
  PROVE  IsFiniteSet(Ids(list))
<1> DEFINE f == [i \in DOMAIN list |-> list[i].id]
<1>1. IsFiniteSet(DOMAIN list)
  <2>1. DOMAIN list = 1 .. Len(list) /\ Len(list) \in Nat
    BY DEF ListOf
  <2>2. QED
    BY <2>1, FS_Interval
<1>2. f \in Surjection(DOMAIN list, Ids(list))
  BY DEF Surjection, Ids
<1> HIDE DEF f
<1>3. QED
  BY <1>1, <1>2, FS_Surjection

(* What the two lists are made of. *)
Found == [id : Nat, op : Nat]
Vector == [id : Nat, op : Nat, vec : Nat]

(* A fused hit. *)
LEMMA FuseIs ==
  ASSUME NEW l, ListOf(l, Found), NEW v, ListOf(v, Vector), NEW id \in Ids(l) \cup Ids(v)
  PROVE  LET i == RankOf(l, id)  j == RankOf(v, id)  h == Fuse(l, v, id) IN
         /\ h \in Hit /\ h.id = id
         /\ i # 0 => /\ i \in DOMAIN l /\ l[i].id = id
                     /\ h.op = l[i].op /\ h.fts = l[i].op /\ h.score >= Weight(i)
         /\ i = 0 => /\ j \in DOMAIN v /\ v[j].id = id
                     /\ h.op = v[j].op /\ h.fts = NONE /\ h.vec = v[j].vec
         /\ h.vec = NONE \/ (j \in DOMAIN v /\ v[j].id = id /\ h.vec = v[j].vec)
<1> DEFINE i == RankOf(l, id)
           j == RankOf(v, id)
<1>1. i \in Nat /\ j \in Nat /\ (i # 0 => i \in DOMAIN l /\ l[i].id = id)
      /\ (j # 0 => j \in DOMAIN v /\ v[j].id = id) /\ (i # 0 \/ j # 0)
  <2>1. /\ i \in Nat
        /\ IF id \in Ids(l) THEN i \in DOMAIN l /\ i # 0 /\ l[i].id = id ELSE i = 0
    BY RankIs
  <2>2. /\ j \in Nat
        /\ IF id \in Ids(v) THEN j \in DOMAIN v /\ j # 0 /\ v[j].id = id ELSE j = 0
    BY RankIs
  <2> HIDE DEF i, j
  <2>3. QED
    BY <2>1, <2>2
<1>2. Earned(i) \in Nat /\ Earned(j) \in Nat /\ (i # 0 => Earned(i) = Weight(i))
  BY <1>1, WeightFalls DEF Earned
<1>3. Fuse(l, v, id) =
        [id |-> id,
         op |-> IF i # 0 THEN l[i].op ELSE v[j].op,
         fts |-> IF i # 0 THEN l[i].op ELSE NONE,
         vec |-> IF j # 0 THEN v[j].vec ELSE NONE,
         score |-> Earned(i) + Earned(j)]
  BY DEF Fuse
<1>4. id \in Nat
  BY DEF ListOf, Ids
<1>5. /\ \A k \in DOMAIN l : l[k] \in Found /\ l[k].op \in Nat
      /\ \A k \in DOMAIN v : v[k] \in Vector /\ v[k].op \in Nat /\ v[k].vec \in Nat
  <2>1. (\A k \in DOMAIN l : l[k] \in Found) /\ (\A k \in DOMAIN v : v[k] \in Vector)
    BY DEF ListOf
  <2>2. \A r \in Found : r.op \in Nat
    BY DEF Found
  <2>3. \A r \in Vector : r.op \in Nat /\ r.vec \in Nat
    BY DEF Vector
  <2>4. QED
    BY <2>1, <2>2, <2>3
<1> HIDE DEF i, j
<1>6. Earned(i) + Earned(j) \in Nat /\ (i # 0 => Earned(i) + Earned(j) >= Weight(i))
  BY <1>2
<1>7. CASE i # 0 /\ j # 0
  BY <1>1, <1>3, <1>4, <1>5, <1>6, <1>7 DEF Hit, i, j
<1>8. CASE i # 0 /\ j = 0
  BY <1>1, <1>3, <1>4, <1>5, <1>6, <1>8 DEF Hit, i, j
<1>9. CASE i = 0 /\ j # 0
  BY <1>1, <1>3, <1>4, <1>5, <1>6, <1>9 DEF Hit, i, j
<1>10. QED
  BY <1>1, <1>7, <1>8, <1>9 DEF i, j

(* The result of fuse_rrf: some of the fused hits, the best ones, each once. *)
LEMMA FusedIs ==
  ASSUME NEW l, ListOf(l, Found), NEW v, ListOf(v, Vector), NEW s \in Fused(l, v)
  PROVE  /\ s \in Seq(Hit) /\ Len(s) <= Limit /\ Descending(s)
         /\ \A i, j \in DOMAIN s : s[i].id = s[j].id => i = j
         /\ \A k \in DOMAIN s : \E id \in Ids(l) \cup Ids(v) : s[k] = Fuse(l, v, id)
         /\ \A i \in DOMAIN l :
              l[i].id \in Ids(s)
              \/ (Len(s) = Limit /\ \A j \in DOMAIN s : s[j].score >= Weight(i))
<1> DEFINE ids == Ids(l) \cup Ids(v)
           S == {Fuse(l, v, id) : id \in ids}
<1>0. Limit \in Nat
  BY SearchConstants
<1>1. PICK t \in SetToSeqs(S) : Descending(t) /\ s = SubSeq(t, 1, Min({Limit, Len(t)}))
  BY DEF Fused
<1>2. \A id \in ids : Fuse(l, v, id) \in Hit /\ Fuse(l, v, id).id = id
  BY FuseIs
<1>3. IsFiniteSet(S)
  <2> DEFINE f == [id \in ids |-> Fuse(l, v, id)]
  <2>1. IsFiniteSet(ids)
    BY IdsFinite, FS_Union
  <2>2. f \in Surjection(ids, S)
    BY DEF Surjection
  <2> HIDE DEF f, ids, S
  <2>3. QED
    BY <2>1, <2>2, FS_Surjection
<1>4. S \subseteq Hit /\ \A x \in S : x = Fuse(l, v, x.id) /\ x.id \in ids
  BY <1>2
<1>5. \A id \in ids : Fuse(l, v, id) \in S
  OBVIOUS
<1>6. Ids(l) \subseteq ids
  OBVIOUS
<1> HIDE DEF S, ids
<1>7. /\ t \in Seq(S) /\ Len(t) \in Nat
      /\ \A i, j \in DOMAIN t : t[i] = t[j] => i = j
      /\ \A x \in S : \E i \in DOMAIN t : t[i] = x
  BY <1>3, OrderedRows
<1>8. PICK m \in Nat :
        /\ m <= Limit /\ m <= Len(t) /\ (m = Limit \/ m = Len(t))
        /\ s \in Seq(S) /\ Len(s) = m
        /\ \A i \in DOMAIN s : i \in DOMAIN t /\ s[i] = t[i]
  <2>1. t \in Seq(S)
    BY <1>7
  <2>2. QED
    BY <1>0, <1>1, <2>1, FirstRows, Zenon
<1>9. \A i \in DOMAIN s : s[i] \in S
  BY <1>8
<1>10. \A i \in DOMAIN t : t[i] \in S /\ t[i].score \in Nat
  <2>1. \A i \in DOMAIN t : t[i] \in S
    BY <1>7
  <2>2. \A x \in S : x.score \in Nat
    BY <1>4 DEF Hit
  <2>3. QED
    BY <2>1, <2>2
<1>11. s \in Seq(Hit)
  BY <1>4, <1>8, SeqMonotonic
<1>12. Len(s) <= Limit
  BY <1>8
<1>13. Descending(s)
  BY <1>1, <1>8 DEF Descending
<1>14. ASSUME NEW i \in DOMAIN s, NEW j \in DOMAIN s, s[i].id = s[j].id PROVE i = j
  <2>1. s[i] = s[j]
    BY <1>4, <1>9, <1>14
  <2>2. QED
    BY <1>7, <1>8, <2>1
<1>15. \A k \in DOMAIN s : \E id \in ids : s[k] = Fuse(l, v, id)
  BY <1>4, <1>9
<1>16. ASSUME NEW i \in DOMAIN l, l[i].id \notin Ids(s)
       PROVE  Len(s) = Limit /\ \A j \in DOMAIN s : s[j].score >= Weight(i)
  <2> DEFINE h == Fuse(l, v, l[i].id)
  <2>1. l[i].id \in ids
    BY <1>6 DEF Ids
  <2>2. h \in S /\ h.id = l[i].id
    BY <1>2, <1>5, <2>1
  <2>3. RankOf(l, l[i].id) = i /\ i # 0 /\ i \in Nat
    <3>1. DOMAIN l = 1 .. Len(l) /\ Len(l) \in Nat
      BY DEF ListOf
    <3>2. RankOf(l, l[i].id) = i
      BY RankIs
    <3>3. QED
      BY <3>1, <3>2
  <2>4. h.score >= Weight(i) /\ Weight(i) \in Nat /\ h.score \in Nat
    <3>1. h.score >= Weight(i)
      BY <2>1, <2>3, FuseIs DEF ids
    <3>2. h.score \in Nat
      BY <1>4, <2>2 DEF Hit
    <3>3. QED
      BY <2>3, <3>1, <3>2, WeightFalls
  <2> HIDE DEF h
  <2>5. PICK k \in DOMAIN t : t[k] = h
    BY <1>7, <2>2
  <2>6. k \notin DOMAIN s
    BY <1>8, <1>16, <2>2, <2>5 DEF Ids
  <2>7. DOMAIN s = 1 .. m /\ DOMAIN t = 1 .. Len(t)
    BY <1>7, <1>8
  <2>8. k > m /\ k <= Len(t) /\ k \in Nat
    BY <1>7, <2>5, <2>6, <2>7
  <2>9. m = Limit
    BY <1>7, <1>8, <2>8
  <2>10. ASSUME NEW j \in DOMAIN s PROVE s[j].score >= Weight(i)
    <3>1. j \in DOMAIN t /\ s[j] = t[j]
      BY <1>8
    <3>2. j < k
      BY <2>7, <2>8, <2>10
    <3>3. t[j].score >= t[k].score
      BY <1>1, <3>1, <3>2 DEF Descending
    <3>4. t[j].score \in Nat /\ t[k].score \in Nat
      BY <1>10, <3>1
    <3>5. QED
      BY <2>4, <2>5, <3>1, <3>3, <3>4
  <2>11. QED
    BY <1>8, <2>9, <2>10
<1>17. QED
  BY <1>11, <1>12, <1>13, <1>14, <1>15, <1>16 DEF ids

-----------------------------------------------------------------------------
(* The reads of a search *)

(* The committed documents, as both reads see them. *)
LEMMA CommittedDocs ==
  ASSUME WriterInv
  PROVE  /\ IsFiniteSet(committed.documents)
         /\ \A d \in committed.documents : d \in Document /\ d.id \in Nat /\ d.op \in Nat
         /\ \A d, e \in committed.documents : d.id = e.id => d = e
<1>1. TableInv(committed)
  BY DEF WriterInv
<1>2. \A d \in Document : d.id \in Nat /\ d.op \in Nat
  BY DEF Document
<1>3. committed.documents \subseteq Document
  BY <1>1 DEF TableInv, Tables
<1>4. QED
  BY <1>1, <1>2, <1>3 DEF TableInv

(* The first read. *)
LEMMA LexicalIs ==
  ASSUME WriterInv, DocsInv, NEW s \in Rankings(Lexical, Wide)
  PROVE  ListOf(s, Found) /\ \A i \in DOMAIN s : Settled(s[i].id, s[i].op)
<1> DEFINE docs == committed.documents
           f == [d \in docs |-> [id |-> d.id, op |-> d.op]]
<1>1. /\ IsFiniteSet(docs) /\ \A d \in docs : d.id \in Nat /\ d.op \in Nat
      /\ \A d, e \in docs : d.id = e.id => d = e
  BY CommittedDocs
<1>2. IsFiniteSet(Lexical)
  <2>1. f \in Surjection(docs, Lexical)
    BY DEF Lexical, Surjection
  <2> HIDE DEF f
  <2>2. QED
    BY <1>1, <2>1, FS_Surjection
<1>3. \A r \in Lexical : \E d \in docs : r = [id |-> d.id, op |-> d.op]
  BY DEF Lexical
<1>4. \A r \in Lexical : r \in Found /\ r.id \in Nat /\ Settled(r.id, r.op)
  BY <1>1, <1>3 DEF Found, DocsInv
<1>5. \A q, r \in Lexical : q.id = r.id => q = r
  BY <1>1, <1>3
<1>6. Wide \in Nat
  BY SearchConstants DEF Wide
<1>7. s \in Seq(Lexical) /\ \A i, j \in DOMAIN s : s[i] = s[j] => i = j
  BY <1>2, <1>6, RankingIs
<1>8. \A i \in DOMAIN s : s[i] \in Lexical
  BY <1>7
<1>9. s \in Seq(Found)
  BY <1>4, <1>7, SeqMonotonic
<1>10. QED
  BY <1>4, <1>5, <1>7, <1>8, <1>9 DEF ListOf

(* A vector read for a document is its own, after one fault at most. *)
LEMMA EmbeddedIs ==
  ASSUME WriterInv, faults <= 1, NEW v \in Rankings(Embedded, Wide)
  PROVE  /\ ListOf(v, Vector)
         /\ \A i \in DOMAIN v : \E d \in committed.documents :
              v[i].id = d.id /\ v[i].op = d.op /\ v[i].vec = d.op
<1> DEFINE docs == committed.documents
           joined == {d \in docs : \E e \in committed.embeddings : e.id = d.id}
           newest == Newest(joined, ScanLimit, NewerDocument)
           Row2(d) == [id |-> d.id, op |-> d.op,
                       vec |-> (CHOOSE e \in committed.embeddings : e.id = d.id).op]
           f == [d \in newest |-> Row2(d)]
<1>1. /\ IsFiniteSet(docs) /\ \A d \in docs : d.id \in Nat /\ d.op \in Nat
      /\ \A d, e \in docs : d.id = e.id => d = e
  BY CommittedDocs
<1>2. newest \subseteq joined /\ newest \subseteq docs
  BY DEF Newest
<1>3. Embedded = {Row2(d) : d \in newest}
  BY DEF Embedded
<1>4. \A d \in newest : Row2(d) = [id |-> d.id, op |-> d.op, vec |-> d.op]
  <2>1. ASSUME NEW d \in newest PROVE (CHOOSE e \in committed.embeddings : e.id = d.id).op = d.op
    <3>1. d \in docs /\ \E e \in committed.embeddings : e.id = d.id
      BY <1>2
    <3>2. PICK y \in committed.embeddings :
            y = (CHOOSE e \in committed.embeddings : e.id = d.id) /\ y.id = d.id
      BY <3>1
    <3>3. Paired(committed)
      BY DEF WriterInv, PairInv
    <3>4. d.op = y.op
      BY <3>1, <3>2, <3>3 DEF Paired
    <3>5. QED
      BY <3>2, <3>4
  <2>2. QED
    BY <2>1
<1> HIDE DEF Row2
<1>5. IsFiniteSet(Embedded)
  <2>1. IsFiniteSet(newest)
    BY <1>1, <1>2, FS_Subset
  <2> HIDE DEF newest
  <2>2. f \in Surjection(newest, Embedded)
    BY <1>3 DEF Surjection
  <2> HIDE DEF f
  <2>3. QED
    BY <2>1, <2>2, FS_Surjection
<1> HIDE DEF newest, joined
<1>6. \A r \in Embedded : \E d \in docs : r = [id |-> d.id, op |-> d.op, vec |-> d.op]
  BY <1>2, <1>3, <1>4
<1>7. \A r \in Embedded : r \in Vector /\ r.id \in Nat
  BY <1>1, <1>6 DEF Vector
<1>8. \A q, r \in Embedded : q.id = r.id => q = r
  BY <1>1, <1>6
<1>9. Wide \in Nat
  BY SearchConstants DEF Wide
<1>10. v \in Seq(Embedded) /\ \A i, j \in DOMAIN v : v[i] = v[j] => i = j
  BY <1>5, <1>9, RankingIs
<1>11. \A i \in DOMAIN v : v[i] \in Embedded
  BY <1>10
<1>12. v \in Seq(Vector)
  BY <1>7, <1>10, SeqMonotonic
<1>13. ListOf(v, Vector)
  BY <1>7, <1>8, <1>10, <1>11, <1>12 DEF ListOf
<1>14. ASSUME NEW i \in DOMAIN v
       PROVE  \E d \in docs : v[i].id = d.id /\ v[i].op = d.op /\ v[i].vec = d.op
  BY <1>6, <1>11
<1>15. QED
  BY <1>13, <1>14

(* The newest documents, for an empty query. *)
LEMMA RecentIs ==
  ASSUME WriterInv, DocsInv, NEW rows \in RecentRows
  PROVE  /\ ListOf(rows, Found) /\ Len(rows) <= Limit
         /\ \A i \in DOMAIN rows : Settled(rows[i].id, rows[i].op)
<1> DEFINE docs == committed.documents
           newest == Newest(docs, Limit, NewerDocument)
<1>1. /\ IsFiniteSet(docs) /\ \A d \in docs : d \in Document /\ d.id \in Nat /\ d.op \in Nat
      /\ \A d, e \in docs : d.id = e.id => d = e
  BY CommittedDocs
<1>2. newest \subseteq docs /\ Limit \in Nat
  BY SearchConstants DEF Newest
<1>3. IsFiniteSet(newest) /\ Cardinality(newest) <= Limit
  <2>1. docs \in SUBSET Document
    BY <1>1
  <2>2. Cardinality(newest) <= Limit
    BY <1>1, <1>2, <2>1, NewestDocuments
  <2>3. QED
    BY <1>1, <1>2, <2>2, FS_Subset
<1>4. PICK t \in SetToSeqs(newest) : rows = [i \in DOMAIN t |-> [id |-> t[i].id, op |-> t[i].op]]
  BY DEF RecentRows
<1> HIDE DEF newest
<1>5. /\ t \in Seq(newest) /\ Len(t) = Cardinality(newest) /\ Len(t) \in Nat
      /\ \A i, j \in DOMAIN t : t[i] = t[j] => i = j
  BY <1>3, OrderedRows
<1>6. \A i \in DOMAIN t : t[i] \in docs
  BY <1>2, <1>5
<1>7. DOMAIN rows = DOMAIN t /\ DOMAIN t = 1 .. Len(t)
  BY <1>4, <1>5
<1>8. \A i \in DOMAIN rows : /\ rows[i] = [id |-> t[i].id, op |-> t[i].op]
                             /\ rows[i].id = t[i].id /\ rows[i].op = t[i].op
  BY <1>4, <1>7
<1>9. \A i \in DOMAIN rows : rows[i] \in Found /\ rows[i].id \in Nat /\ Settled(rows[i].id, rows[i].op)
  BY <1>1, <1>6, <1>7, <1>8 DEF Found, DocsInv
<1>10. rows \in Seq(Found) /\ Len(rows) = Len(t)
  <2>1. rows = [i \in 1 .. Len(t) |-> [id |-> t[i].id, op |-> t[i].op]]
    BY <1>4, <1>7
  <2>2. \A i \in 1 .. Len(t) : [id |-> t[i].id, op |-> t[i].op] \in Found
    BY <1>7, <1>8, <1>9
  <2>3. rows \in [1 .. Len(t) -> Found]
    BY <2>1, <2>2
  <2>4. QED
    BY <1>5, <2>3
<1>11. \A i, j \in DOMAIN rows : rows[i].id = rows[j].id => i = j
  BY <1>1, <1>5, <1>6, <1>7, <1>8
<1>12. QED
  BY <1>3, <1>5, <1>9, <1>10, <1>11 DEF ListOf

-----------------------------------------------------------------------------
(* The steps of a search *)

(* What each hit is, for good. *)
Sound(h) ==
  /\ Settled(h.id, h.op) /\ h.fts \in {h.op, NONE}
  /\ h.vec # NONE => h.vec >= h.op /\ Settled(h.id, h.vec)

(* The list of the first read can be fused. *)
LEMMA FoundIs ==
  ASSUME SearchInv
  PROVE  /\ ListOf(found, Found) /\ \A i \in DOMAIN found : Settled(found[i].id, found[i].op)
         /\ stage = "idle" => found = <<>>
<1>1. found \in Seq(Found)
  BY DEF SearchInv, SearchTypeOK, Found
<1>2. \A i \in DOMAIN found : found[i] \in Found
  BY <1>1
<1>3. \A i \in DOMAIN found : found[i].id \in Nat
  BY <1>2 DEF Found
<1>4. QED
  BY <1>1, <1>3 DEF SearchInv, FoundInv, ListOf

(* A fused hit shows a row of the first list with the vector of that row or *)
(* of its successor, or a row of the second with its own.                  *)
LEMMA FusedSound ==
  ASSUME SearchInv, WriterInv, NEW v, ListOf(v, Vector),
         \A i \in DOMAIN v : \E d \in committed.documents :
           v[i].id = d.id /\ v[i].op = d.op /\ v[i].vec = d.op,
         NEW s \in Fused(found, v)
  PROVE  \A k \in DOMAIN s : Sound(s[k])
<1>1. ListOf(found, Found) /\ \A i \in DOMAIN found : Settled(found[i].id, found[i].op)
  BY FoundIs
<1>2. ASSUME NEW id \in Ids(found) \cup Ids(v) PROVE Sound(Fuse(found, v, id))
  <2> DEFINE i == RankOf(found, id)
             j == RankOf(v, id)
             h == Fuse(found, v, id)
  <2>1. /\ h \in Hit /\ h.id = id
        /\ i # 0 => i \in DOMAIN found /\ found[i].id = id /\ h.op = found[i].op /\ h.fts = found[i].op
        /\ i = 0 => /\ j \in DOMAIN v /\ v[j].id = id
                    /\ h.op = v[j].op /\ h.fts = NONE /\ h.vec = v[j].vec
        /\ h.vec = NONE \/ (j \in DOMAIN v /\ v[j].id = id /\ h.vec = v[j].vec)
    BY <1>1, FuseIs
  <2>2. \A d \in committed.documents : d.op \in Nat /\ Settled(d.id, d.op)
    BY CommittedDocs DEF SearchInv, DocsInv
  <2> HIDE DEF i, j, h
  <2>3. CASE i # 0
    <3>1. Settled(h.id, h.op) /\ h.fts = h.op
      BY <1>1, <2>1, <2>3
    <3>2. ASSUME h.vec # NONE PROVE h.vec >= h.op /\ Settled(h.id, h.vec)
      <4>1. PICK d \in committed.documents : d.id = id /\ h.vec = d.op
        BY <2>1, <3>2
      <4>2. d.op >= h.op
        BY <2>1, <3>1, <4>1 DEF Settled, SeenIn
      <4>3. QED
        BY <2>1, <2>2, <4>1, <4>2
    <3>3. QED
      BY <3>1, <3>2 DEF Sound, h
  <2>4. CASE i = 0
    <3>1. PICK d \in committed.documents : d.id = id /\ h.op = d.op /\ h.vec = d.op
      BY <2>1, <2>4
    <3>2. Settled(h.id, h.op) /\ h.op \in Nat /\ h.vec = h.op /\ h.fts = NONE
      BY <2>1, <2>2, <2>4, <3>1
    <3>3. h.vec >= h.op /\ Settled(h.id, h.vec)
      BY <3>2
    <3>4. QED
      BY <3>2, <3>3 DEF Sound, h
  <2>5. QED
    BY <2>3, <2>4
<1>3. \A k \in DOMAIN s : \E id \in Ids(found) \cup Ids(v) : s[k] = Fuse(found, v, id)
  BY <1>1, FusedIs
<1>4. QED
  BY <1>2, <1>3

(* The hits a search returns make the invariant. *)
LEMMA HitsMake ==
  ASSUME SearchInv, UNCHANGED vars, UNCHANGED found, stage \in {"idle", "lexical"},
         stage' = "done", NEW s \in Seq(Hit), hits' = s,
         Len(s) <= Limit, Descending(s),
         \A i, j \in DOMAIN s : s[i].id = s[j].id => i = j,
         \A k \in DOMAIN s : Sound(s[k]),
         \A i \in DOMAIN found :
           found[i].id \in Ids(s)
           \/ (Len(s) = Limit /\ \A j \in DOMAIN s : s[j].score >= Weight(i))
  PROVE  SearchInv'
<1>1. UNCHANGED <<work, committed, queue, issued>>
  BY DEF vars, tableVars, producerVars
<1>2. \A id, op : Settled(id, op)' <=> Settled(id, op)
  BY <1>1 DEF Settled, SeenIn, Older
<1>3. SearchTypeOK'
  BY DEF SearchInv, SearchTypeOK
<1>4. DocsInv'
  BY <1>1, <1>2 DEF SearchInv, DocsInv, SeenIn, Older
<1>5. FoundInv'
  BY <1>2 DEF SearchInv, FoundInv
<1>6. HitsInv'
  BY <1>2 DEF HitsInv, Sound
<1>7. RankedInv'
  BY DEF RankedInv, NoneForgotten, Descending, Ids
<1>8. QED
  BY <1>3, <1>4, <1>5, <1>6, <1>7 DEF SearchInv

(* A step that leaves the hits alone, or forgets them. *)
LEMMA HitsKept ==
  ASSUME WriterInv, SearchInv, [Next]_vars,
         UNCHANGED searchVars \/ (stage' = "idle" /\ found' = <<>> /\ hits' = <<>>)
  PROVE  SearchInv'
<1>1. DocsInv'
  BY DocsKept DEF SearchInv
<1>2. <<>> \in Seq(Hit) /\ <<>> \in Seq([id : Nat, op : Nat]) /\ DOMAIN <<>> = {} /\ Len(<<>>) = 0
  OBVIOUS
<1>3. CASE UNCHANGED searchVars
  <2>1. UNCHANGED <<stage, found, hits>>
    BY <1>3 DEF searchVars
  <2>2. SearchTypeOK' /\ RankedInv'
    BY <2>1 DEF SearchInv, SearchTypeOK, RankedInv, NoneForgotten, Ids, Descending
  <2>3. PICK F, H : F = found /\ H = hits /\ F = found' /\ H = hits'
    BY <2>1
  <2>4. FoundInv'
    <3>1. /\ \A i \in DOMAIN F : Settled(F[i].id, F[i].op)
          /\ F \in Seq(Found)
      BY <2>3, FoundIs DEF ListOf
    <3>2. \A i \in DOMAIN F : F[i] \in Found
      BY <3>1
    <3>3. \A i \in DOMAIN F : F[i].id \in Nat /\ F[i].op \in Nat
      BY <3>2 DEF Found
    <3>4. \A i \in DOMAIN F : Settled(F[i].id, F[i].op)'
      BY <3>1, <3>3, SettledKept
    <3>5. QED
      BY <2>1, <2>3, <3>4 DEF SearchInv, FoundInv
  <2>5. HitsInv'
    <3>1. \A i \in DOMAIN H : H[i] \in Hit /\ Sound(H[i])
      BY <2>3 DEF SearchInv, SearchTypeOK, HitsInv, Sound
    <3>2. \A h \in Hit : h.id \in Nat /\ h.op \in Nat /\ (h.vec # NONE => h.vec \in Nat)
      BY DEF Hit
    <3>3. \A h \in Hit : Sound(h) => Sound(h)'
      BY <3>2, SettledKept DEF Sound
    <3>4. \A i \in DOMAIN H : Sound(H[i])'
      BY <3>1, <3>3
    <3>5. QED
      BY <2>3, <3>4 DEF HitsInv, Sound
  <2>6. QED
    BY <1>1, <2>2, <2>4, <2>5 DEF SearchInv
<1>4. CASE stage' = "idle" /\ found' = <<>> /\ hits' = <<>>
  <2>1. SearchTypeOK' /\ FoundInv' /\ HitsInv'
    BY <1>2, <1>4 DEF SearchTypeOK, FoundInv, HitsInv
  <2>2. Len(hits') <= Limit
    BY <1>2, <1>4, SearchConstants
  <2>3. RankedInv'
    BY <1>2, <1>4, <2>2 DEF RankedInv, NoneForgotten, Descending
  <2>4. QED
    BY <1>1, <2>1, <2>3 DEF SearchInv
<1>5. QED
  BY <1>3, <1>4

(* Every step of a search, with one failed statement at most. *)
LEMMA ReaderKeeps ==
  ASSUME WriterInv, faults <= 1, SearchInv, Reader
  PROVE  SearchInv'
<1>1. UNCHANGED vars
  BY DEF Reader
<1>2. /\ ListOf(found, Found) /\ \A i \in DOMAIN found : Settled(found[i].id, found[i].op)
      /\ stage = "idle" => found = <<>>
      /\ DocsInv
  BY FoundIs DEF SearchInv
<1>3. ASSUME NEW v, ListOf(v, Vector),
             \A i \in DOMAIN v : \E d \in committed.documents :
               v[i].id = d.id /\ v[i].op = d.op /\ v[i].vec = d.op,
             hits' \in Fused(found, v), UNCHANGED found,
             stage \in {"idle", "lexical"}, stage' = "done"
      PROVE  SearchInv'
  <2>1. PICK s : s = hits' /\ s \in Fused(found, v)
    BY <1>3
  <2>2. \A k \in DOMAIN s : Sound(s[k])
    BY <1>3, <2>1, FusedSound
  <2>3. /\ s \in Seq(Hit) /\ Len(s) <= Limit /\ Descending(s)
        /\ \A i, j \in DOMAIN s : s[i].id = s[j].id => i = j
        /\ \A i \in DOMAIN found :
             found[i].id \in Ids(s)
             \/ (Len(s) = Limit /\ \A j \in DOMAIN s : s[j].score >= Weight(i))
    BY <1>2, <1>3, <2>1, FusedIs
  <2>4. QED
    BY <1>1, <1>3, <2>1, <2>2, <2>3, HitsMake
<1>4. CASE Search_Lexical
  <2>1. PICK s : s = found' /\ s \in Rankings(Lexical, Wide)
    BY <1>4 DEF Search_Lexical
  <2>2. ListOf(s, Found) /\ \A i \in DOMAIN s : Settled(s[i].id, s[i].op)
    BY <1>2, <2>1, LexicalIs
  <2>3. \A id, op : Settled(id, op)' <=> Settled(id, op)
    BY <1>1 DEF Settled, SeenIn, Older, vars, tableVars, producerVars
  <2>4. UNCHANGED hits /\ stage = "idle" /\ stage' = "lexical"
    BY <1>4 DEF Search_Lexical, Begin
  <2>5. hits = <<>> /\ hits \in Seq(Hit)
    BY <2>4 DEF SearchInv, FoundInv, SearchTypeOK
  <2>6. SearchTypeOK' /\ FoundInv'
    BY <2>1, <2>2, <2>3, <2>4, <2>5 DEF SearchTypeOK, FoundInv, ListOf, Found
  <2>7. DocsInv'
    BY <1>1, <1>2 DEF DocsInv, Settled, SeenIn, Older, vars, tableVars, producerVars
  <2>8. HitsInv'
    BY <2>4, <2>5 DEF HitsInv
  <2>9. RankedInv'
    BY <2>4, <2>5 DEF SearchInv, RankedInv, NoneForgotten, Descending
  <2>10. QED
    BY <2>6, <2>7, <2>8, <2>9 DEF SearchInv
<1>5. CASE Search_Fts
  <2>1. ListOf(<<>>, Vector) /\ DOMAIN <<>> = {}
    BY DEF ListOf
  <2>2. /\ hits' \in Fused(found, <<>>) /\ UNCHANGED found
        /\ stage \in {"idle", "lexical"} /\ stage' = "done"
    BY <1>5 DEF Search_Fts
  <2>3. QED
    BY <1>3, <2>1, <2>2
<1>6. CASE Search_Vector
  <2>1. PICK v \in Rankings(Embedded, Wide) : hits' \in Fused(found, v)
    BY <1>6 DEF Search_Vector
  <2>2. UNCHANGED found /\ stage \in {"idle", "lexical"} /\ stage' = "done"
    BY <1>6 DEF Search_Vector, Begin
  <2>3. QED
    BY <1>3, <2>1, <2>2, EmbeddedIs
<1>7. CASE Search_Recent
  <2>1. PICK rows \in RecentRows :
          hits' = [i \in DOMAIN rows |->
                     [id |-> rows[i].id, op |-> rows[i].op, fts |-> NONE, vec |-> NONE,
                      score |-> Weight(i)]]
    BY <1>7 DEF Search_Recent
  <2>2. stage = "idle" /\ stage' = "done" /\ UNCHANGED found
    BY <1>7 DEF Search_Recent, Begin
  <2>3. /\ ListOf(rows, Found) /\ Len(rows) <= Limit
        /\ \A i \in DOMAIN rows : Settled(rows[i].id, rows[i].op)
    BY <1>2, RecentIs
  <2>4. PICK s : s = hits'
    OBVIOUS
  <2>5. \A i \in DOMAIN rows : rows[i].id \in Nat /\ rows[i].op \in Nat
    <3>1. \A i \in DOMAIN rows : rows[i] \in Found
      BY <2>3 DEF ListOf
    <3>2. QED
      BY <3>1 DEF Found
  <2>6. DOMAIN rows = 1 .. Len(rows) /\ Len(rows) \in Nat
    BY <2>3 DEF ListOf
  <2>7. /\ s = [i \in 1 .. Len(rows) |->
                 [id |-> rows[i].id, op |-> rows[i].op, fts |-> NONE, vec |-> NONE,
                  score |-> Weight(i)]]
    BY <2>1, <2>4, <2>6
  <2>8. \A i \in 1 .. Len(rows) :
          [id |-> rows[i].id, op |-> rows[i].op, fts |-> NONE, vec |-> NONE,
           score |-> Weight(i)] \in Hit
    <3>1. \A i \in 1 .. Len(rows) : i \in Nat
      BY <2>6
    <3>2. \A i \in 1 .. Len(rows) : rows[i].id \in Nat /\ rows[i].op \in Nat /\ Weight(i) \in Nat
      BY <2>5, <2>6, <3>1, WeightFalls, Zenon
    <3>3. QED
      BY <3>2 DEF Hit
  <2>9. s \in Seq(Hit) /\ Len(s) = Len(rows) /\ DOMAIN s = 1 .. Len(rows)
    <3>1. s \in [1 .. Len(rows) -> Hit]
      BY <2>7, <2>8
    <3>2. QED
      BY <2>6, <3>1
  <2>10. \A i \in DOMAIN s :
           /\ i \in DOMAIN rows /\ i \in Nat
           /\ s[i].id = rows[i].id /\ s[i].op = rows[i].op /\ s[i].fts = NONE
           /\ s[i].vec = NONE /\ s[i].score = Weight(i)
    BY <2>6, <2>7, <2>9
  <2>11. \A i, j \in DOMAIN s : s[i].id = s[j].id => i = j
    BY <2>3, <2>10 DEF ListOf
  <2>12. \A k \in DOMAIN s : Sound(s[k])
    BY <2>3, <2>10 DEF Sound
  <2>13. Descending(s)
    BY <2>10, WeightFalls DEF Descending
  <2>14. DOMAIN found = {}
    BY <1>2, <2>2
  <2>15. Len(s) <= Limit
    BY <2>3, <2>9
  <2>16. QED
    BY <1>1, <2>2, <2>4, <2>9, <2>11, <2>12, <2>13, <2>14, <2>15, HitsMake
<1>8. CASE Search_Shown
  <2>1. [Next]_vars
    BY <1>1
  <2>2. stage' = "idle" /\ found' = <<>> /\ hits' = <<>>
    BY <1>8 DEF Search_Shown
  <2>3. QED
    BY <2>1, <2>2, HitsKept
<1>9. QED
  BY <1>4, <1>5, <1>6, <1>7, <1>8 DEF Reader

(* Failures are counted, never forgotten. *)
LEMMA FaultsGrow ==
  ASSUME WriterInv, [Next]_vars, faults' <= 1
  PROVE  faults <= 1
<1>1. faults \in Nat
  BY DEF WriterInv, TypeOK
<1>2. CASE faults' = faults \/ faults' = faults + 1
  BY <1>1, <1>2
<1>3. CASE Producers
  BY <1>2, <1>3 DEF Producers, Persist_Metric, Persist_HostDocument, Persist_Document, Write_Log,
                  Persist_Sample, Flush_Send, Flush_Error, Flush_Ok, Close, Enqueue
<1>4. CASE CommitBegin
  BY <1>2, <1>4 DEF CommitBegin, Commit_Done, Commit_Fails, Commit_RollsBack,
                    Commit_NoTransaction, Fault
<1>5. CASE Writer
  BY <1>2, <1>4, <1>5
     DEF Writer, Writer_Opens, Writer_OpenFails, Writer_Apply, Writer_ApplyFails, Writer_Sync,
         Writer_Batch, Writer_Prune, Writer_Timeout, Writer_Disconnected, Fault
<1>6. CASE Crash \/ UNCHANGED vars
  BY <1>2, <1>6 DEF Crash, vars
<1>7. QED
  BY <1>3, <1>5, <1>6 DEF Next

(* What every step of a search and of the store under it keeps, until a     *)
(* second statement has failed: the vectors read may then be those of       *)
(* another document (EmbeddingsPaired).                                    *)
THEOREM SearchInvariantHolds == SearchSpec => [](faults <= 1 => SearchInv)
<1>1. SearchInit => SearchInv
  <2>1. SUFFICES ASSUME SearchInit PROVE SearchInv
    OBVIOUS
  <2>2. /\ work.documents = {} /\ committed.documents = {}
        /\ stage = "idle" /\ found = <<>> /\ hits = <<>>
    BY <2>1 DEF SearchInit, Init, NoTables
  <2>3. <<>> \in Seq(Hit) /\ <<>> \in Seq([id : Nat, op : Nat]) /\ DOMAIN <<>> = {} /\ Len(<<>>) = 0
    OBVIOUS
  <2>4. SearchTypeOK /\ DocsInv /\ FoundInv /\ HitsInv
    BY <2>2, <2>3 DEF SearchTypeOK, DocsInv, FoundInv, HitsInv
  <2>5. Len(hits) <= Limit
    BY <2>2, <2>3, SearchConstants
  <2>6. RankedInv
    BY <2>2, <2>3, <2>5 DEF RankedInv, NoneForgotten, Descending
  <2>7. QED
    BY <2>4, <2>6 DEF SearchInv
<1>2. StoreInv /\ (faults <= 1 => SearchInv) /\ [SearchNext]_<<vars, searchVars>>
        => (faults <= 1 => SearchInv)'
  <2>1. SUFFICES ASSUME StoreInv, faults <= 1 => SearchInv, [SearchNext]_<<vars, searchVars>>,
                        faults' <= 1
                 PROVE  SearchInv'
    OBVIOUS
  <2>2. WriterInv
    BY <2>1 DEF StoreInv
  <2>3. faults <= 1 /\ SearchInv
    <3>1. [Next]_vars
      BY <2>1 DEF SearchNext, Reader, Writes, Dies, Next
    <3>2. QED
      BY <2>1, <2>2, <3>1, FaultsGrow
  <2>4. CASE Reader
    BY <2>2, <2>3, <2>4, ReaderKeeps
  <2>5. CASE Writes
    <3>1. [Next]_vars /\ UNCHANGED searchVars
      BY <2>5 DEF Writes, Next
    <3>2. QED
      BY <2>2, <2>3, <3>1, HitsKept
  <2>6. CASE Dies
    <3>1. [Next]_vars /\ stage' = "idle" /\ found' = <<>> /\ hits' = <<>>
      BY <2>6 DEF Dies, Next
    <3>2. QED
      BY <2>2, <2>3, <3>1, HitsKept
  <2>7. CASE UNCHANGED <<vars, searchVars>>
    <3>1. [Next]_vars /\ UNCHANGED searchVars
      BY <2>7
    <3>2. QED
      BY <2>2, <2>3, <3>1, HitsKept
  <2>8. QED
    BY <2>1, <2>4, <2>5, <2>6, <2>7 DEF SearchNext
<1>3. SearchSpec => []StoreInv
  BY SearchLeavesStore, StoreInvariantHolds, PTL
<1>4. QED
  BY <1>1, <1>2, <1>3, PTL DEF SearchSpec

(* A search returns at most the hits asked for, best first, none twice and  *)
(* none left out for a worse one, each scored by its own document's text    *)
(* and vector, whatever the writer commits and prunes between its two reads *)
(* and with one failed statement (hybrid_search, fuse_rrf).                *)
THEOREM SearchesSound == SearchSpec => [](faults <= 1 => SearchSound)
<1>1. SearchInv => SearchSound
  <2>1. SUFFICES ASSUME SearchInv PROVE SearchSound
    OBVIOUS
  <2>2. ASSUME NEW i \in DOMAIN hits PROVE OwnScores(hits[i])
    <3>1. PICK h : h = hits[i] /\ h \in Hit
      BY <2>1 DEF SearchInv, SearchTypeOK
    <3>2. h.op \in Nat /\ (h.vec # NONE => h.vec \in Nat)
      BY <3>1 DEF Hit
    <3>3. /\ Settled(h.id, h.op) /\ h.fts \in {h.op, NONE}
          /\ h.vec # NONE => h.vec >= h.op /\ Settled(h.id, h.vec)
      BY <2>1, <3>1 DEF SearchInv, HitsInv
    <3>4. ASSUME h.vec # NONE, h.vec # h.op
          PROVE  h.vec > h.op /\ \A d \in committed.documents : d.op # h.op
      <4>1. h.vec > h.op
        BY <3>2, <3>3, <3>4
      <4>2. \A d \in committed.documents : d.op = h.op => d.id = h.id
        BY <3>3 DEF Settled, SeenIn
      <4>3. \A d \in committed.documents : d.id = h.id => d.op >= h.vec
        BY <3>3, <3>4 DEF Settled, SeenIn
      <4>4. QED
        BY <3>2, <3>4, <4>1, <4>2, <4>3
    <3>5. QED
      BY <3>1, <3>3, <3>4 DEF OwnScores
  <2>3. QED
    BY <2>1, <2>2 DEF SearchInv, RankedInv, SearchSound
<1>2. (faults <= 1 => SearchInv) => (faults <= 1 => SearchSound)
  BY <1>1
<1>3. QED
  BY SearchInvariantHolds, <1>2, PTL

=============================================================================
