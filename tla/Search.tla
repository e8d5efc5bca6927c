------------------------------- MODULE Search -------------------------------
(***************************************************************************)
(* hybrid_search (src/search/mod.rs) over the store: two reads through     *)
(* connections of their own, with the writer going on between them, fused  *)
(* by reciprocal rank.  What the query says, how bm25 and the cosine score *)
(* a text, and the f32 arithmetic of the scores, are left out: a read may  *)
(* return any of the documents it sees in any order.                       *)
(***************************************************************************)
EXTENDS Store, SequencesExt

CONSTANTS
  Limit,        \* hits asked for, 1 to 100
  ScanLimit,    \* embeddings read, the newest (2000)
  NONE,         \* no score
  LateSearches  \* bound: may searches begin after the first fault or crash?

ASSUME SearchConstants ==
  /\ Limit \in 1 .. 100 /\ ScanLimit \in Nat \ {0} /\ NONE \notin Nat
  /\ LateSearches \in BOOLEAN

VARIABLES
  stage,  \* of the search: "idle", "lexical" (first read made), "done"
  found,  \* what the first read returned
  hits    \* what the search returned

searchVars == <<stage, found, hits>>

(* A row read for a document, with the documents whose text or vector was  *)
(* scored.                                                                 *)
Hit == [id : Nat, op : Nat, fts : Nat \cup {NONE}, vec : Nat \cup {NONE}, score : Nat]

SearchTypeOK ==
  /\ stage \in {"idle", "lexical", "done"}
  /\ found \in Seq([id : Nat, op : Nat]) /\ hits \in Seq(Hit)

SearchInit ==
  /\ Init
  /\ stage = "idle" /\ found = <<>> /\ hits = <<>>

-----------------------------------------------------------------------------
(* The reads *)

(* Any of the rows, in any order. *)
Rankings(rows, limit) ==
  {SubSeq(s, 1, Min({limit, Len(s)})) : s \in UNION {SetToSeqs(S) : S \in SUBSET rows}}

(* fts_search: the full-text index, which the triggers keep with the table, *)
(* joined with the documents.                                              *)
Lexical == {[id |-> d.id, op |-> d.op] : d \in committed.documents}

(* load_embeddings: the newest of embeddings joined with documents. *)
Embedded ==
  LET joined == {d \in committed.documents : \E e \in committed.embeddings : e.id = d.id} IN
  {[id |-> d.id, op |-> d.op,
    vec |-> (CHOOSE e \in committed.embeddings : e.id = d.id).op] :
      d \in Newest(joined, ScanLimit, NewerDocument)}

(* recent_documents: the newest rows, newest first. *)
RecentRows ==
  LET newest == Newest(committed.documents, Limit, NewerDocument) IN
  {[i \in DOMAIN t |-> [id |-> t[i].id, op |-> t[i].op]] :
     t \in {r \in SetToSeqs(newest) :
              \A i, j \in DOMAIN r : i < j => NewerDocument(r[i], r[j])}}

Wide == 3 * Limit

-----------------------------------------------------------------------------
(* fuse_rrf *)

(* rrf_score, in millionths; ranks count from 1. *)
Weight(rank) == 1000000 \div (60 + rank)

RankOf(list, id) ==
  IF \E i \in DOMAIN list : list[i].id = id
  THEN CHOOSE i \in DOMAIN list : list[i].id = id ELSE 0

Earned(rank) == IF rank = 0 THEN 0 ELSE Weight(rank)

(* Mutant: the row is the one of the last list that has the id. *)
Fuse_LastRow(lexical, vectors, id) ==
  LET i == RankOf(lexical, id)  j == RankOf(vectors, id) IN
  [id |-> id,
   op |-> IF j # 0 THEN vectors[j].op ELSE lexical[i].op,
   fts |-> IF i # 0 THEN lexical[i].op ELSE NONE,
   vec |-> IF j # 0 THEN vectors[j].vec ELSE NONE,
   score |-> Earned(i) + Earned(j)]

(* The row is the one of the first list that has the id. *)
Fuse(lexical, vectors, id) ==
  LET i == RankOf(lexical, id)  j == RankOf(vectors, id) IN
  [id |-> id,
   op |-> IF i # 0 THEN lexical[i].op ELSE vectors[j].op,
   fts |-> IF i # 0 THEN lexical[i].op ELSE NONE,
   vec |-> IF j # 0 THEN vectors[j].vec ELSE NONE,
   score |-> Earned(i) + Earned(j)]

Ids(list) == {list[i].id : i \in DOMAIN list}

Descending(s) == \A i, j \in DOMAIN s : i < j => s[i].score >= s[j].score

(* The order of equal scores is that of a HashMap. *)
Fused(lexical, vectors) ==
  {SubSeq(s, 1, Min({Limit, Len(s)})) :
     s \in {t \in SetToSeqs({Fuse(lexical, vectors, id) : id \in Ids(lexical) \cup Ids(vectors)}) :
              Descending(t)}}

-----------------------------------------------------------------------------
(* hybrid_search *)

Begin == stage = "idle" /\ (LateSearches \/ (faults = 0 /\ crashes = 0))

(* Modes hybrid and fts; a query without a term of two letters finds none. *)
Search_Lexical ==
  /\ Begin
  /\ stage' = "lexical"
  /\ found' \in Rankings(Lexical, Wide)
  /\ UNCHANGED hits

(* Mode fts: there is no second read; a list of its own keeps its order,    *)
(* and its scores, in Fused.                                               *)
Search_Fts ==
  /\ stage = "lexical"
  /\ stage' = "done"
  /\ hits' \in Fused(found, <<>>)
  /\ UNCHANGED found

(* Mode vector has made no first read. *)
Search_Vector ==
  /\ Begin \/ stage = "lexical"
  /\ stage' = "done"
  /\ \E vectors \in Rankings(Embedded, Wide) : hits' \in Fused(found, vectors)
  /\ UNCHANGED found

(* The empty query *)
Search_Recent ==
  /\ Begin
  /\ stage' = "done"
  /\ \E rows \in RecentRows :
       hits' = [i \in DOMAIN rows |->
                  [id |-> rows[i].id, op |-> rows[i].op, fts |-> NONE, vec |-> NONE,
                   score |-> Weight(i)]]
  /\ UNCHANGED found

(* The caller has shown the hits. *)
Search_Shown ==
  /\ stage = "done"
  /\ stage' = "idle" /\ found' = <<>> /\ hits' = <<>>

Reader ==
  /\ Search_Lexical \/ Search_Fts \/ Search_Vector \/ Search_Recent \/ Search_Shown
  /\ UNCHANGED vars

(* The writer and its clients go on during a search; one that the process   *)
(* does not survive is gone.                                               *)
Writes ==
  /\ Producers \/ Writer
  /\ UNCHANGED searchVars

Dies == Crash /\ stage' = "idle" /\ found' = <<>> /\ hits' = <<>>

SearchNext == Reader \/ Writes \/ Dies

SearchSpec ==
  SearchInit /\ [][SearchNext]_<<vars, searchVars>> /\ WF_vars(Writer)

-----------------------------------------------------------------------------
(* Properties *)

(* Every hit is one document's: the scores it combines come from the text   *)
(* and the vector of the row it shows.  Only when a prune has dropped that  *)
(* row between the two reads, and a newer document has taken its rowid, may *)
(* the vector be the newer one's.                                          *)
OwnScores(h) ==
  /\ h.fts \in {h.op, NONE}
  /\ h.vec # NONE /\ h.vec # h.op =>
       h.vec > h.op /\ \A d \in committed.documents : d.op # h.op

(* What the first read found is a hit, unless there are enough better ones. *)
NoneForgotten ==
  stage = "done" =>
    \A i \in DOMAIN found :
      \/ found[i].id \in Ids(hits)
      \/ Len(hits) = Limit /\ \A j \in DOMAIN hits : hits[j].score >= Weight(i)

(* A search returns at most the hits asked for, best first, none twice and  *)
(* none left out for a worse one, each scored by its own document's text    *)
(* and vector, whatever the writer commits and prunes between the two reads *)
(* (hybrid_search, fuse_rrf).                                              *)
SearchSound ==
  /\ SearchTypeOK
  /\ NoneForgotten
  /\ Len(hits) <= Limit /\ Descending(hits)
  /\ \A i, j \in DOMAIN hits : hits[i].id = hits[j].id => i = j
  /\ \A i \in DOMAIN hits : OwnScores(hits[i])

=============================================================================
