----------------------------- MODULE AuditTrail -----------------------------
(***************************************************************************)
(* The audit trail of src/security/audit.rs: events.jsonl, its archive and *)
(* the cached Merkle leaves of merkle_state.json, with every file          *)
(* operation that can interleave with another writer, or that a crash or   *)
(* an I/O error can separate from the next one, as a step of its own.      *)
(*                                                                         *)
(* An event is its number: the n-th event any writer set out to append.    *)
(* A leaf is the hash of one event, so it is represented by that event,    *)
(* and a Merkle root by the sequence of its leaves.  (Two sequences of     *)
(* distinct leaves have the same root only if SHA-256 collides.)           *)
(*                                                                         *)
(* A writer is a thread that calls audit.rs.  One Sentinel instance is ONE *)
(* writer: its UI thread appends denials and anchors itself and is blocked *)
(* in send_request while its helper appends.                               *)
(***************************************************************************)
EXTENDS Naturals, Sequences

CONSTANTS
  Writers,         \* threads that may use the audit files at the same time
  MaxEntries,      \* MANTICORE_AUDIT_MAX_ENTRIES; 0 disables retention
  ArchiveEnabled,  \* MANTICORE_AUDIT_ARCHIVE_ENABLED
  MaxEvents,       \* bound: events appended in a behaviour
  Crashes,         \* may a writer die between two file operations?
  IoErrors,        \* may a file operation fail?
  JUNK,            \* a line that does not parse as an event
  BLANK            \* an empty line

ASSUME AuditConstants ==
  /\ MaxEntries \in Nat /\ MaxEvents \in Nat
  /\ ArchiveEnabled \in BOOLEAN /\ Crashes \in BOOLEAN /\ IoErrors \in BOOLEAN
  /\ JUNK \notin Nat /\ BLANK \notin Nat /\ JUNK # BLANK

VARIABLES
  log,           \* lines of events.jsonl
  unterminated,  \* its last line has no newline yet
  leaves,        \* merkle_state.json; <<>> when absent or unparsable
  archive,       \* lines under archive/, oldest first
  issued,        \* events created so far
  pc,            \* what each writer does next
  event,         \* the event each writer is appending
  retaining,     \* did its caller ask for retention?
  buf            \* the leaves or lines the writer read last

files == <<log, unterminated, leaves, archive>>
local == <<event, retaining, buf>>
trailVars == <<files, issued, pc, local>>

Event == 1 .. MaxEvents
Line == Event \cup {JUNK, BLANK}

PC == {"idle", "write", "newline", "merkle", "save_truncate", "save_write",
       "retain", "archive", "truncate", "rewrite", "done",
       "root_check", "rebuild_truncate", "rebuild_write", "root", "submit"}

TypeOK ==
  /\ log \in Seq(Line) /\ archive \in Seq(Line)
  /\ leaves \in Seq(Event)
  /\ unterminated \in BOOLEAN
  /\ issued \in 0 .. MaxEvents
  /\ pc \in [Writers -> PC]
  /\ event \in [Writers -> 0 .. MaxEvents]
  /\ retaining \in [Writers -> BOOLEAN]
  /\ buf \in [Writers -> Seq(Line)]

Init ==
  /\ log = <<>> /\ archive = <<>> /\ leaves = <<>>
  /\ unterminated = FALSE
  /\ issued = 0
  /\ pc = [w \in Writers |-> "idle"]
  /\ event = [w \in Writers |-> 0]
  /\ retaining = [w \in Writers |-> FALSE]
  /\ buf = [w \in Writers |-> <<>>]

-----------------------------------------------------------------------------
(* What the readers make of the file. *)

IsEvent(line) == line \notin {JUNK, BLANK}

Without(lines, dropped) ==
  LET rest[i \in 0 .. Len(lines)] ==
        IF i = 0 THEN <<>>
        ELSE IF lines[i] \in dropped THEN rest[i - 1] ELSE Append(rest[i - 1], lines[i])
  IN rest[Len(lines)]

Parsed(lines) == Without(lines, {JUNK, BLANK})

NonBlank(lines) == Without(lines, {BLANK})

(* Mutant: one line too few goes to the archive. *)
Overflow_OneShort(lines) == SubSeq(lines, 1, Len(lines) - MaxEntries - 1)

Overflow(lines) == SubSeq(lines, 1, Len(lines) - MaxEntries)
(* Mutants: the oldest lines are kept instead of the newest; one is lost. *)
Kept_Oldest(lines) == SubSeq(lines, 1, MaxEntries)
Kept_OneShort(lines) == SubSeq(lines, Len(lines) - MaxEntries + 2, Len(lines))

Kept(lines) == SubSeq(lines, Len(lines) - MaxEntries + 1, Len(lines))

(* What a write at the start of a file leaves of what others appended since *)
(* the file was truncated.  Lines count as equally long.                    *)
Overlay(lines, present) ==
  IF Len(present) <= Len(lines) THEN lines
  ELSE lines \o SubSeq(present, Len(lines) + 1, Len(present))

Goto(w, label) == pc' = [pc EXCEPT ![w] = label]

-----------------------------------------------------------------------------
(* append_event_with_retention *)

(* The event is built, the file opened in append mode, the key loaded.      *)
(* The dashboard's own events carry retention; the helper's do not.         *)
Begin(w, withRetention) ==
  /\ issued < MaxEvents
  /\ issued' = issued + 1
  /\ event' = [event EXCEPT ![w] = issued + 1]
  /\ retaining' = [retaining EXCEPT ![w] = withRetention]
  /\ Goto(w, "write")

Append_Begin(w) ==
  /\ pc[w] = "idle"
  /\ \E withRetention \in BOOLEAN : Begin(w, withRetention)
  /\ UNCHANGED <<files, buf>>

(* The bytes of the line land after whatever the file ends with: an         *)
(* unterminated line absorbs them and stops being an event.                 *)
Landed(line) ==
  IF unterminated THEN [log EXCEPT ![Len(log)] = JUNK] ELSE Append(log, line)

Append_WriteLine(w) ==
  /\ pc[w] = "write"
  /\ log' = Landed(event[w])
  /\ unterminated' = TRUE
  /\ Goto(w, "newline")
  /\ UNCHANGED <<leaves, archive, issued, local>>

Append_WriteNewline(w) ==
  /\ pc[w] = "newline"
  /\ log' = IF unterminated THEN log ELSE Append(log, BLANK)
  /\ unterminated' = FALSE
  /\ Goto(w, "merkle")
  /\ UNCHANGED <<leaves, archive, issued, local>>

(* Mutant: the new leaf is not pushed. *)
LoadLeaves_NoPush(w) ==
  /\ pc[w] = "merkle"
  /\ buf' = [buf EXCEPT ![w] = leaves]
  /\ Goto(w, "save_truncate")
  /\ UNCHANGED <<files, issued, event, retaining>>

(* update_merkle_state_incremental_from_signed: load, push, save.           *)
LoadLeaves(w) ==
  /\ pc[w] = "merkle"
  /\ buf' = [buf EXCEPT ![w] = Append(leaves, event[w])]
  /\ Goto(w, "save_truncate")
  /\ UNCHANGED <<files, issued, event, retaining>>

(* fs::write of merkle_state.json: truncate, then write from offset 0.  A   *)
(* shorter text over a longer one leaves trailing bytes that do not parse.  *)
TruncateLeaves(w, from, to) ==
  /\ pc[w] = from
  /\ leaves' = <<>>
  /\ Goto(w, to)
  /\ UNCHANGED <<log, unterminated, archive, issued, local>>

WriteLeaves(w, from, to) ==
  /\ pc[w] = from
  /\ leaves' = IF Len(buf[w]) < Len(leaves) THEN <<>> ELSE buf[w]
  /\ Goto(w, to)
  /\ UNCHANGED <<log, unterminated, archive, issued, local>>

AfterMerkle(w) == IF retaining[w] /\ MaxEntries > 0 THEN "retain" ELSE "done"

Append_SaveLeaves(w) ==
  \/ TruncateLeaves(w, "save_truncate", "save_write")
  \/ WriteLeaves(w, "save_write", AfterMerkle(w))

(* The call returns Ok. *)
Append_Return(w) ==
  /\ pc[w] = "done"
  /\ Goto(w, "idle")
  /\ UNCHANGED <<files, issued, local>>

-----------------------------------------------------------------------------
(* enforce_audit_retention *)

Retain_Read(w) ==
  /\ pc[w] = "retain"
  /\ buf' = [buf EXCEPT ![w] = NonBlank(log)]
  /\ Goto(w, IF Len(NonBlank(log)) <= MaxEntries THEN "done"
             ELSE IF ArchiveEnabled THEN "archive" ELSE "truncate")
  /\ UNCHANGED <<files, issued, event, retaining>>

Retain_Archive(w) ==
  /\ pc[w] = "archive"
  /\ archive' = archive \o Overflow(buf[w])
  /\ Goto(w, "truncate")
  /\ UNCHANGED <<log, unterminated, leaves, issued, local>>

Retain_Truncate(w) ==
  /\ pc[w] = "truncate"
  /\ log' = <<>>
  /\ unterminated' = FALSE
  /\ Goto(w, "rewrite")
  /\ UNCHANGED <<leaves, archive, issued, local>>

Retain_Rewrite(w) ==
  /\ pc[w] = "rewrite"
  /\ log' = Overlay(Kept(buf[w]), log)
  /\ unterminated' = (unterminated /\ Len(log) > Len(Kept(buf[w])))
  /\ Goto(w, "done")
  /\ UNCHANGED <<leaves, archive, issued, local>>

-----------------------------------------------------------------------------
(* current_merkle_root: the cached leaves are trusted when there are as     *)
(* many of them as lines in the file, and rebuilt from the file otherwise.  *)

Root_LoadLeaves(w) ==
  /\ pc[w] = "idle"
  /\ buf' = [buf EXCEPT ![w] = leaves]
  /\ Goto(w, "root_check")
  /\ UNCHANGED <<files, issued, event, retaining>>

(* Mutant: any non-empty cache is trusted. *)
Root_Trust_Always(w) ==
  /\ pc[w] = "root_check"
  /\ buf[w] # <<>>
  /\ Goto(w, "root")
  /\ UNCHANGED <<files, issued, local>>

Root_Trust(w) ==
  /\ pc[w] = "root_check"
  /\ buf[w] # <<>> /\ Len(buf[w]) = Len(NonBlank(log))
  /\ Goto(w, "root")
  /\ UNCHANGED <<files, issued, local>>

Root_Rebuild(w) ==
  /\ pc[w] = "root_check"
  /\ buf[w] = <<>> \/ Len(buf[w]) # Len(NonBlank(log))
  /\ buf' = [buf EXCEPT ![w] = Parsed(log)]
  /\ Goto(w, "rebuild_truncate")
  /\ UNCHANGED <<files, issued, event, retaining>>

Root_SaveLeaves(w) ==
  \/ TruncateLeaves(w, "rebuild_truncate", "rebuild_write")
  \/ WriteLeaves(w, "rebuild_write", "root")

(* The audit section only displays the root it got. *)
Root_Show(w) ==
  /\ pc[w] = "root"
  /\ Goto(w, "idle")
  /\ UNCHANGED <<files, issued, local>>

-----------------------------------------------------------------------------
(* Failures *)

(* The writer dies, or a file operation fails and the call returns Err,     *)
(* before its next file operation.                                          *)
Abandon(w) ==
  /\ Crashes \/ IoErrors
  /\ pc[w] # "idle"
  /\ Goto(w, "idle")
  /\ UNCHANGED <<files, issued, local>>

(* write_all gives up after part of the line. *)
Append_WriteFails(w) ==
  /\ IoErrors
  /\ pc[w] = "write"
  /\ log' = Landed(JUNK)
  /\ unterminated' = TRUE
  /\ Goto(w, "idle")
  /\ UNCHANGED <<leaves, archive, issued, local>>

(* The result of the Merkle update is discarded (let _ = ...). *)
Append_MerkleFails(w) ==
  /\ IoErrors
  /\ pc[w] \in {"merkle", "save_truncate", "save_write"}
  /\ Goto(w, AfterMerkle(w))
  /\ UNCHANGED <<files, issued, local>>

(* A state file that cannot be read counts as empty. *)
LoadLeaves_Fails(w) ==
  /\ IoErrors
  /\ pc[w] = "merkle"
  /\ buf' = [buf EXCEPT ![w] = <<event[w]>>]
  /\ Goto(w, "save_truncate")
  /\ UNCHANGED <<files, issued, event, retaining>>

Root_LoadFails(w) ==
  /\ IoErrors
  /\ pc[w] = "idle"
  /\ buf' = [buf EXCEPT ![w] = <<>>]
  /\ Goto(w, "root_check")
  /\ UNCHANGED <<files, issued, event, retaining>>

(* So does the trail: its lines are not counted, or yield no leaves.        *)
Root_ReadFails(w) ==
  /\ IoErrors
  /\ pc[w] = "root_check"
  /\ buf' \in {[buf EXCEPT ![w] = Parsed(log)], [buf EXCEPT ![w] = <<>>]}
  /\ Goto(w, "rebuild_truncate")
  /\ UNCHANGED <<files, issued, event, retaining>>

ReadFails(w) == LoadLeaves_Fails(w) \/ Root_LoadFails(w) \/ Root_ReadFails(w)

-----------------------------------------------------------------------------
AppendStep(w) ==
  \/ Append_WriteLine(w) \/ Append_WriteNewline(w)
  \/ LoadLeaves(w) \/ Append_SaveLeaves(w)
  \/ Retain_Read(w) \/ Retain_Archive(w) \/ Retain_Truncate(w) \/ Retain_Rewrite(w)

RootStep(w) ==
  \/ Root_LoadLeaves(w) \/ Root_Trust(w) \/ Root_Rebuild(w) \/ Root_SaveLeaves(w)

FaultStep(w) == Abandon(w) \/ Append_WriteFails(w) \/ Append_MerkleFails(w) \/ ReadFails(w)

TrailStep(w) ==
  \/ Append_Begin(w) \/ AppendStep(w) \/ Append_Return(w)
  \/ RootStep(w) \/ Root_Show(w)

Next == \E w \in Writers : TrailStep(w)

Spec == Init /\ [][Next]_trailVars

(* With the faults that Crashes and IoErrors allow. *)
FaultyNext == Next \/ \E w \in Writers : FaultStep(w)

FaultySpec == Init /\ [][FaultyNext]_trailVars
-----------------------------------------------------------------------------
(* Properties *)

Entries(lines) == {lines[i] : i \in DOMAIN lines}

(* One writer, no faults, archiving on: archive and live file together hold *)
(* every event issued, once each and in order, whenever no call is running. *)
(* An append, a retention pass or a root computation that drops, repeats or *)
(* reorders a line breaks it.                                               *)
HistoryKept ==
  (\A w \in Writers : pc[w] = "idle") =>
    archive \o log = [i \in 1 .. issued |-> i]

(* The root current_merkle_root returns is the root of the events in the    *)
(* file, whether it trusted the cached leaves (whose number it compares     *)
(* with the number of lines, and nothing else) or rebuilt them.             *)
TrustedRoot ==
  \A w \in Writers : pc[w] = "root" => buf[w] = Parsed(log)

(* One writer that may die at any step: what is left of the live file is    *)
(* still in the order of issue, and what was archived is older than every   *)
(* event in the live file, or is still there because the pass was cut short *)
(* between archiving and rewriting.                                         *)
OrderKept ==
  LET live == Parsed(log)
      old  == Parsed(archive)
  IN /\ \A i, j \in DOMAIN live : i < j => live[i] < live[j]
     /\ \A i \in DOMAIN old, j \in DOMAIN live :
          old[i] < live[j] \/ old[i] \in Entries(live)

(* One writer: the trail as a reader sees it.  During the last two steps of *)
(* a retention pass the overflow is in the archive and the rest in memory.  *)
TheWriter == CHOOSE w \in Writers : TRUE

VisibleTrail ==
  IF pc[TheWriter] \in {"truncate", "rewrite"}
  THEN archive \o Kept(buf[TheWriter])
  ELSE archive \o log

(* One writer, no faults, archiving on: the trail is append-only, through   *)
(* every intermediate step of retention and of the Merkle bookkeeping.      *)
AppendOnly == INSTANCE AppendOnlyLog WITH Events <- Event, trail <- VisibleTrail

ImplementsAppendOnlyLog == AppendOnly!Spec
=============================================================================
