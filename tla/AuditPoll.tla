----------------------------- MODULE AuditPoll -----------------------------
(***************************************************************************)
(* The dashboard's periodic work on the audit trail: the anchoring pass of *)
(* anchor_audit_if_due, which writes the current Merkle root to the        *)
(* Evrmore chain and then appends an event of its own to the trail, and    *)
(* the audit part of the event stream, which emits the lines behind an     *)
(* offset it keeps in memory.  Both run in poll of the dashboard, in the   *)
(* UI thread, which is the one writer here.                                *)
(***************************************************************************)
EXTENDS AuditTrail, FiniteSets

CONSTANTS
  Ui,           \* the dashboard's thread, the only writer
  LostReplies   \* may the node's answer to a broadcast be lost?

ASSUME OneDashboard == Writers = {Ui} /\ LostReplies \in BOOLEAN

VARIABLES
  chain,        \* roots the Evrmore node accepted, oldest first (external)
  anchorState,  \* last_anchor_merkle_root of anchor_state.json; <<>> for none
  submitted,    \* the root whose anchor event is being appended; <<>> for none
  anchors,      \* events that are anchor events of a transaction
  offset,       \* event_stream_audit_offset: lines of the file already read
  streamed,     \* audit events emitted since the stream last began with the first line
  seen,         \* events issued before the last stream poll
  trimmed       \* has a retention pass rewritten the file since then?

anchorVars == <<chain, anchorState, submitted, anchors>>
streamVars == <<offset, streamed, seen, trimmed>>
pollVars == <<trailVars, anchorVars, streamVars>>

PollTypeOK ==
  /\ TypeOK
  /\ chain \in Seq(Seq(Event))
  /\ anchorState \in Seq(Event) /\ submitted \in Seq(Event)
  /\ anchors \subseteq Event
  /\ offset \in Nat /\ streamed \in Seq(Event)
  /\ seen \in 0 .. MaxEvents /\ trimmed \in BOOLEAN

PollInit ==
  /\ Init
  /\ chain = <<>> /\ anchorState = <<>> /\ submitted = <<>> /\ anchors = {}
  /\ offset = 0 /\ streamed = <<>> /\ seen = 0 /\ trimmed = FALSE

-----------------------------------------------------------------------------
(* anchor_audit_if_due.  It starts like any root computation of AuditTrail; *)
(* at pc = "root" the caller turns out to be the anchoring pass.            *)

(* An empty trail, or the root anchored last: Ok(None). *)
Anchor_Skip ==
  /\ pc[Ui] = "root"
  /\ buf[Ui] = <<>> \/ buf[Ui] = anchorState
  /\ Goto(Ui, "idle")
  /\ UNCHANGED <<files, issued, local, anchorVars, streamVars>>

(* A state file that cannot be read is taken for one that was never written. *)
Anchor_Due ==
  /\ pc[Ui] = "root"
  /\ buf[Ui] # <<>> /\ (buf[Ui] # anchorState \/ IoErrors)
  /\ Goto(Ui, "submit")
  /\ UNCHANGED <<files, issued, local, anchorVars, streamVars>>

(* Mutant: the anchor event is appended before the node has answered, so a  *)
(* refused transaction leaves one behind.                                   *)
Anchor_Rejected_Recorded ==
  /\ pc[Ui] = "submit"
  /\ Begin(Ui, FALSE)
  /\ anchors' = anchors \cup {issued + 1}
  /\ submitted' = buf[Ui]
  /\ UNCHANGED <<files, buf, chain, anchorState, streamVars>>

(* One of the RPC calls fails before the transaction is broadcast. *)
Anchor_Rejected ==
  /\ pc[Ui] = "submit"
  /\ Goto(Ui, "idle")
  /\ UNCHANGED <<files, issued, local, anchorVars, streamVars>>

(* sendrawtransaction returns the txid, and the anchor event is appended    *)
(* with append_event, which enforces no retention.                          *)
Anchor_Submit ==
  /\ pc[Ui] = "submit"
  /\ Begin(Ui, FALSE)
  /\ chain' = Append(chain, buf[Ui])
  /\ submitted' = buf[Ui]
  /\ anchors' = anchors \cup {issued + 1}
  /\ UNCHANGED <<files, buf, anchorState, streamVars>>

(* The node broadcasts the transaction, but its answer does not arrive      *)
(* within the client's 10 s: the call returns Err.                          *)
Anchor_ReplyLost ==
  /\ LostReplies
  /\ pc[Ui] = "submit"
  /\ Len(chain) < MaxEvents
  /\ chain' = Append(chain, buf[Ui])
  /\ Goto(Ui, "idle")
  /\ UNCHANGED <<files, issued, local, anchorState, submitted, anchors, streamVars>>

(* The append returned Ok: store_anchor_state. *)
Anchor_Store ==
  /\ submitted # <<>>
  /\ Append_Return(Ui)
  /\ anchorState' = submitted
  /\ submitted' = <<>>
  /\ UNCHANGED <<chain, anchors, streamVars>>

(* fs::write of anchor_state.json fails, or dies after truncating it.       *)
Anchor_StoreFails ==
  /\ Crashes \/ IoErrors
  /\ submitted # <<>>
  /\ Append_Return(Ui)
  /\ anchorState' \in {anchorState, <<>>}
  /\ submitted' = <<>>
  /\ UNCHANGED <<chain, anchors, streamVars>>

-----------------------------------------------------------------------------
(* The audit part of the event stream: read_from_offset *)

Skip(lines, n) == SubSeq(lines, n + 1, Len(lines))

(* Mutant: the offset advances by the number of events emitted plus one. *)
Stream_Poll_OffsetDrifts ==
  /\ pc[Ui] = "idle"
  /\ streamed' = streamed \o Parsed(Skip(log, offset))
  /\ offset' = IF Len(log) > offset THEN Len(log) - 1 ELSE Len(log)
  /\ seen' = issued /\ trimmed' = FALSE
  /\ UNCHANGED <<trailVars, anchorVars>>

(* Mutant: the offset is taken for the index of the next line. *)
Stream_Poll_SkipsOne ==
  /\ pc[Ui] = "idle"
  /\ streamed' = streamed \o Parsed(Skip(log, offset))
  /\ offset' = Len(log) + 1
  /\ seen' = issued /\ trimmed' = FALSE
  /\ UNCHANGED <<trailVars, anchorVars>>

Stream_Poll ==
  /\ pc[Ui] = "idle"
  /\ streamed' = streamed \o Parsed(Skip(log, offset))
  /\ offset' = Len(log)
  /\ seen' = issued /\ trimmed' = FALSE
  /\ UNCHANGED <<trailVars, anchorVars>>

(* The stream begins anew: the next poll emits every line of the file.      *)
StreamAnew == offset' = 0 /\ streamed' = <<>> /\ seen' = 0 /\ trimmed' = FALSE

(* A read that fails counts as one of an empty file: nothing is emitted, no *)
(* error is reported, and the offset becomes 0.                            *)
Stream_ReadFails ==
  /\ IoErrors
  /\ pc[Ui] = "idle"
  /\ StreamAnew
  /\ UNCHANGED <<trailVars, anchorVars>>

-----------------------------------------------------------------------------
(* The rest of AuditTrail: appends and root computations of the UI.         *)

TrailUnchanged == UNCHANGED <<anchorVars, streamVars>>

Trail_Step ==
  /\ \/ Append_Begin(Ui) \/ RootStep(Ui) \/ Root_Show(Ui)
     \/ submitted = <<>> /\ Append_Return(Ui)
     \/ AppendStep(Ui) /\ ~Retain_Rewrite(Ui)
  /\ TrailUnchanged

Trail_Rewrite ==
  /\ Retain_Rewrite(Ui)
  /\ trimmed' = TRUE
  /\ UNCHANGED <<anchorVars, offset, streamed, seen>>

(* The running call returns Err, or goes on without its Merkle update. *)
Trail_Fault ==
  /\ FaultStep(Ui)
  /\ submitted' = IF pc'[Ui] = "idle" THEN <<>> ELSE submitted
  /\ UNCHANGED <<chain, anchorState, anchors, streamVars>>

(* The process dies between two file operations; the next one starts its    *)
(* stream, to new clients, at the first line of the file.                   *)
Restart ==
  /\ Crashes
  /\ Goto(Ui, "idle")
  /\ submitted' = <<>>
  /\ StreamAnew
  /\ UNCHANGED <<files, issued, local, chain, anchorState, anchors>>

AnchorStep ==
  \/ Anchor_Skip \/ Anchor_Due \/ Anchor_Rejected \/ Anchor_Submit
  \/ Anchor_ReplyLost \/ Anchor_Store \/ Anchor_StoreFails

PollNext ==
  \/ AnchorStep \/ Stream_Poll \/ Stream_ReadFails
  \/ Trail_Step \/ Trail_Rewrite \/ Trail_Fault \/ Restart

PollSpec == PollInit /\ [][PollNext]_pollVars
-----------------------------------------------------------------------------
(* Properties *)

(* s occurs in t without a gap. *)
IsSegment(s, t) ==
  \E i \in 0 .. Len(t) - Len(s) : s = SubSeq(t, i + 1, i + Len(s))

(* Every root on the chain can be recomputed from the trail: its leaves are *)
(* a gapless part of archive and live file, although the root came from a   *)
(* cache, retention has moved lines since, and anchoring appends lines      *)
(* itself (docs/manticore-ecosystem-integration.md:577).                    *)
AnchoredVerifiable ==
  \A k \in DOMAIN chain : IsSegment(chain[k], VisibleTrail)

(* Every transaction has its anchor event in the trail, and no anchor event *)
(* is without a transaction, whenever no call is running                    *)
(* (docs/manticore-ecosystem-integration.md:353).                           *)
AnchorsRecorded ==
  pc[Ui] = "idle" =>
    Len(chain) = Cardinality({i \in DOMAIN VisibleTrail : VisibleTrail[i] \in anchors})

(* Every root on the chain covers an event that no root before it covers:   *)
(* no root is anchored twice, nor an older window after a newer one,        *)
(* although retention moves events out of the live file between two passes. *)
AnchorsAdvance ==
  \A j, k \in DOMAIN chain : j < k =>
    \E e \in Entries(chain[k]) : \A f \in Entries(chain[j]) : f < e

(* From one beginning of the stream to the next no audit event is emitted   *)
(* twice or out of order, although the offset counts lines and retention    *)
(* renumbers them.  A failed read is such a beginning (read_from_offset     *)
(* returns no events and line 0): behind it the stream repeats itself.      *)
StreamedInOrder ==
  \A i, j \in DOMAIN streamed : i < j => streamed[i] < streamed[j]

(* One writer that may die, and whose reads and writes may fail, at any     *)
(* step: the trail never loses its order, and the stream does not between   *)
(* two failed reads.                                                       *)
FaultsOrdered == PollTypeOK /\ OrderKept /\ StreamedInOrder

(* A poll emits every event issued since the previous poll, unless a        *)
(* retention pass has rewritten the file in between: only then may the      *)
(* offset point behind events that were never emitted.                      *)
StreamGapsOnlyByRetention ==
  [][Stream_Poll /\ ~trimmed =>
       Entries(streamed') = Entries(streamed) \cup (seen + 1 .. issued)]_pollVars
=============================================================================
