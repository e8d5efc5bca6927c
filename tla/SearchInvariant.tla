-------------------------- MODULE SearchInvariant --------------------------
(***************************************************************************)
(* The inductive invariant behind SearchSound: a document that was seen    *)
(* has no older successor under its rowid, and none under another one.     *)
(***************************************************************************)
EXTENDS Search, StoreInvariant

(* Under this rowid there is nothing older, and this write nowhere else.    *)
SeenIn(t, id, op) ==
  \A d \in t.documents : (d.id = id => d.op >= op) /\ (d.op = op => d.id = id)

(* All writes still to be applied are newer. *)
Older(op) == op <= issued /\ \A i \in DOMAIN queue : IsWrite(queue[i]) => op < queue[i].op

(* What was read once, whatever has become of it since. *)
Settled(id, op) == SeenIn(work, id, op) /\ SeenIn(committed, id, op) /\ Older(op)

DocsInv ==
  /\ \A d \in committed.documents : Settled(d.id, d.op)
  /\ \A d \in work.documents : SeenIn(work, d.id, d.op) /\ Older(d.op)

(* What the first read returned was there when it was read. *)
FoundInv ==
  /\ \A i, j \in DOMAIN found : found[i].id = found[j].id => i = j
  /\ \A i \in DOMAIN found : Settled(found[i].id, found[i].op)
  /\ stage = "idle" => found = <<>>
  /\ stage # "done" => hits = <<>>

(* A hit shows a row that was there, with the text of that row, and with    *)
(* the vector of that row or of a newer one that was there later.           *)
HitsInv ==
  \A i \in DOMAIN hits : LET h == hits[i] IN
    /\ Settled(h.id, h.op) /\ h.fts \in {h.op, NONE}
    /\ h.vec # NONE => h.vec >= h.op /\ Settled(h.id, h.vec)

(* What the hits are by themselves. *)
RankedInv ==
  /\ NoneForgotten
  /\ Len(hits) <= Limit /\ Descending(hits)
  /\ \A i, j \in DOMAIN hits : hits[i].id = hits[j].id => i = j

(* What every step of the store and of a search keeps. *)
SearchInv == SearchTypeOK /\ DocsInv /\ FoundInv /\ HitsInv /\ RankedInv

=============================================================================
