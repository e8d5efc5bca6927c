-------------------------- MODULE SnapshotHistory --------------------------
(***************************************************************************)
(* The snapshot history of src/core/history.rs: a JSONL file to which the  *)
(* dashboard appends each snapshot and which it rewrites when age, number  *)
(* or size of the lines exceed their limits.  The file is a sequence of    *)
(* snapshots, all of the same size; a line that does not parse is JUNK,    *)
(* and TORN at the end of the file is a line without its newline.          *)
(***************************************************************************)
EXTENDS Integers, Sequences, SequencesExt

CONSTANTS
  MaxEntries,   \* max_entries; 0 for no limit
  MaxAge,       \* max_age_secs, or NONE
  MaxLines,     \* the lines max_bytes has room for, or NONE
  JUNK, TORN, NONE

ASSUME HistoryConstants ==
  /\ MaxEntries \in Nat /\ MaxAge \in Nat \cup {NONE} /\ MaxLines \in Nat \cup {NONE}
  /\ NONE \notin Nat /\ JUNK # TORN

Parses(line) == line \notin {JUNK, TORN}

Suffix(lines, n) == SubSeq(lines, Len(lines) - n + 1, Len(lines))

(* retain on the timestamp; a line that does not parse goes. *)
Young(lines, now) ==
  LET kept[i \in 0 .. Len(lines)] ==
        IF i = 0 THEN <<>>
        ELSE IF Parses(lines[i]) /\ lines[i].ts + MaxAge >= now THEN Append(kept[i - 1], lines[i])
        ELSE kept[i - 1]
  IN IF MaxAge = NONE THEN lines ELSE kept[Len(lines)]

(* Mutant: the oldest lines stay. *)
Few_Oldest(lines) ==
  IF MaxEntries > 0 /\ Len(lines) > MaxEntries THEN SubSeq(lines, 1, MaxEntries) ELSE lines

Few(lines) ==
  IF MaxEntries > 0 /\ Len(lines) > MaxEntries THEN Suffix(lines, MaxEntries) ELSE lines

(* At least the newest line stays, however small the limit. *)
Small(lines) ==
  LET room == IF MaxLines = 0 THEN 1 ELSE MaxLines IN
  IF MaxLines # NONE /\ Len(lines) > room THEN Suffix(lines, room) ELSE lines

Compacted(lines, now) == Small(Few(Young(lines, now)))

(* An append to an unfinished line spoils both. *)
Appended(lines, s) ==
  IF lines # <<>> /\ Last(lines) = TORN THEN Append(Front(lines), JUNK)
  ELSE Append(lines, s)

(* append_snapshot *)
Recorded(lines, s) == Compacted(Appended(lines, s), s.ts)

(* Part of a line, at the end of the file. *)
Torn(lines) ==
  IF lines # <<>> /\ Last(lines) = TORN THEN lines ELSE Append(lines, TORN)

(* What the process may leave when it dies in append_snapshot: part of the  *)
(* new line, the line without the compaction, or part of the rewritten file.*)
HalfRecorded(lines, s) ==
  LET c == Recorded(lines, s) IN
  {Torn(lines), Appended(lines, s)} \cup
  IF c = Appended(lines, s) THEN {}
  ELSE UNION {{SubSeq(c, 1, k), Torn(SubSeq(c, 1, k))} : k \in 0 .. Len(c) - 1}

=============================================================================
