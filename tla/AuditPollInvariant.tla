------------------------ MODULE AuditPollInvariant ------------------------
(***************************************************************************)
(* The inductive invariants behind the properties of AuditPoll, for one    *)
(* dashboard.  Without faults: which runs of events the anchored roots     *)
(* are, and where the offset of the event stream points.  With faults: in  *)
(* which order the lines are, in the files and in the writer's hands.      *)
(***************************************************************************)
EXTENDS AuditPoll, AuditTrailInvariant

Newest(root) == root[Len(root)]

(* Each root on the chain is a run of events that ends before the anchor    *)
(* event that was appended for it, and after the run before it.            *)
ChainRuns ==
  /\ \A k \in DOMAIN chain :
       /\ chain[k] # <<>> /\ RunTo(chain[k], Newest(chain[k]))
       /\ Newest(chain[k]) < issued
  /\ \A j, k \in DOMAIN chain : j < k => Newest(chain[j]) < Newest(chain[k])

AnchorInv ==
  /\ chain \in Seq(Seq(Event)) /\ ChainRuns
  /\ pc[Ui] = "submit" => buf[Ui] = log /\ log # <<>>
  /\ anchors \subseteq 1 .. issued /\ Cardinality(anchors) = Len(chain)

(* Until retention moves lines, the lines behind the offset are the events  *)
(* since the last poll.                                                    *)
StreamInv ==
  /\ streamed \in Seq(Event) /\ offset \in Nat
  /\ seen \in Nat /\ seen <= Written(Ui)
  /\ ~trimmed /\ pc[Ui] # "rewrite" => offset + Written(Ui) = Len(log) + seen

(* What every step of the dashboard keeps.                                  *)
PollInv == SequentialTypeInv /\ AnchorInv /\ StreamInv
-----------------------------------------------------------------------------
(* With crashes, failed writes and lost answers *)

EventsOf(lines) == Entries(lines) \ {JUNK, BLANK}

Ordered(lines) ==
  \A i, j \in DOMAIN lines : i < j /\ IsEvent(lines[i]) /\ IsEvent(lines[j]) => lines[i] < lines[j]

(* What is archived is older than the lines, or is still among them.        *)
OlderOrAmong(old, lines) ==
  \A a \in EventsOf(old), e \in EventsOf(lines) : a < e \/ a \in EventsOf(lines)

(* Nothing emitted is as new as a line behind the first n.                  *)
StreamAhead(emitted, n, lines) ==
  \A i \in DOMAIN lines : i > n /\ IsEvent(lines[i]) => \A e \in Entries(emitted) : e < lines[i]

(* An unterminated line may still be lost, so nothing like it is archived.  *)
FilesInv ==
  /\ Ordered(log) /\ OlderOrAmong(archive, log) /\ StreamAhead(streamed, offset, log) /\ StreamedInOrder
  /\ \A e \in EventsOf(log) \cup EventsOf(archive) \cup Entries(streamed) : e <= Written(Ui)
  /\ unterminated =>
       /\ log # <<>>
       /\ IsEvent(log[Len(log)]) => \A a \in EventsOf(archive) : a < log[Len(log)]

Appending == {"newline", "merkle", "save_truncate", "save_write",
              "retain", "archive", "truncate", "rewrite", "done"}

(* What the writer has in its hands. *)
HandsInv ==
  /\ pc[Ui] \in Appending \cup {"write"} => event[Ui] \in Event
  /\ pc[Ui] = "write" => event[Ui] = issued
  /\ pc[Ui] \in Appending \ {"newline"} => ~unterminated
  /\ pc[Ui] \in {"save_truncate", "save_write", "root_check",
                 "rebuild_truncate", "rebuild_write", "root", "submit"} => buf[Ui] \in Seq(Event)
  /\ pc[Ui] \in {"archive", "truncate", "rewrite"} =>
       /\ Len(buf[Ui]) > MaxEntries /\ Ordered(buf[Ui])
       /\ \A e \in EventsOf(buf[Ui]) : e <= issued
       /\ OlderOrAmong(archive, Kept(buf[Ui])) /\ StreamAhead(streamed, offset, Kept(buf[Ui]))
  /\ pc[Ui] = "archive" => EventsOf(buf[Ui]) \subseteq EventsOf(log)
  /\ pc[Ui] = "rewrite" => log = <<>>

(* What every step keeps, faults or not.                                    *)
FaultsInv == PollTypeOK /\ FilesInv /\ HandsInv
=============================================================================
