------------------------ MODULE AuditTrailInvariant ------------------------
(***************************************************************************)
(* The inductive invariant behind HistoryKept, TrustedRoot and             *)
(* ImplementsAppendOnlyLog, for one writer and no faults.  Every file is   *)
(* then a run of consecutive event numbers, and the invariant says where   *)
(* each run ends, and how long it is, at each step of the writer.          *)
(***************************************************************************)
EXTENDS AuditTrail

(* s holds consecutive numbers, the last of which is last. *)
RunTo(s, last) ==
  /\ s \in Seq(Nat)
  /\ Len(s) <= last
  /\ \A i \in 1 .. Len(s) : s[i] = (last - Len(s)) + i

(* How many events have their line in the file, and a leaf in the cache. *)
Written(w) == IF pc[w] = "write" THEN issued - 1 ELSE issued

Hashed(w) ==
  IF pc[w] \in {"write", "newline", "merkle", "save_truncate", "save_write"}
  THEN issued - 1 ELSE issued

Control(w) ==
  /\ pc \in [Writers -> PC]
  /\ event \in [Writers -> Nat]
  /\ retaining \in [Writers -> BOOLEAN]
  /\ buf \in [Writers -> Seq(Nat)]
  /\ issued \in Nat
  /\ pc[w] \in {"write", "newline", "merkle", "save_truncate", "save_write"} =>
       issued > 0 /\ event[w] = issued
  /\ unterminated = (pc[w] = "newline")
  /\ pc[w] \in {"retain", "archive", "truncate", "rewrite"} => MaxEntries > 0

LogRun(w) ==
  /\ RunTo(log, Written(w))
  /\ pc[w] = "rewrite" => log = <<>>

(* The cache never falls behind the file: events leave the file by          *)
(* retention, and leave the cache only when it is rebuilt from the file.    *)
LeavesRun(w) ==
  /\ RunTo(leaves, Hashed(w))
  /\ pc[w] \in {"save_write", "rebuild_write"} => leaves = <<>>
  /\ pc[w] \notin {"save_write", "rebuild_write"} =>
       Len(log) <= Len(leaves) + (Written(w) - Hashed(w))

BufRun(w) ==
  /\ pc[w] \in {"save_truncate", "save_write"} =>
       RunTo(buf[w], issued) /\ Len(log) <= Len(buf[w])
  /\ pc[w] = "root_check" => buf[w] = leaves
  /\ pc[w] \in {"archive", "truncate", "rebuild_truncate", "rebuild_write", "root"} =>
       buf[w] = log
  /\ pc[w] \in {"archive", "truncate", "rewrite"} =>
       RunTo(buf[w], issued) /\ Len(buf[w]) > MaxEntries
  /\ pc[w] = "rewrite" => MaxEntries <= Len(leaves)

ArchiveRun(w) ==
  ArchiveEnabled =>
    /\ RunTo(archive, Len(archive))
    /\ IF pc[w] \in {"truncate", "rewrite"}
       THEN Len(archive) = issued - MaxEntries
       ELSE Len(archive) = Written(w) - Len(log)

SequentialInv ==
  \A w \in Writers :
    Control(w) /\ LogRun(w) /\ LeavesRun(w) /\ BufRun(w) /\ ArchiveRun(w)

(* What TypeOK needs besides: no event number leaves 1 .. MaxEvents.        *)
Bounded(w) ==
  /\ issued <= MaxEvents
  /\ event[w] <= issued
  /\ pc[w] \in {"retain", "archive", "truncate", "rewrite", "done"} => event[w] > 0
  /\ archive \in Seq(Event) /\ buf[w] \in Seq(Event)

SequentialTypeInv == SequentialInv /\ \A w \in Writers : Bounded(w)
=============================================================================
