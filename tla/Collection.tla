----------------------------- MODULE Collection -----------------------------
(***************************************************************************)
(* One collection of the host's figures: the collectors run in threads of  *)
(* their own, each reads the kernel's counters and turns them into rates   *)
(* against the sample it read the last time, and the engine joins them     *)
(* into a snapshot, or into an error when one of them failed               *)
(* (src/core/engine.rs, src/collectors).                                   *)
(*                                                                         *)
(* A rate is kept as the growth of its counter since the last sample: the  *)
(* time it is divided by does not matter to the properties.                *)
(***************************************************************************)
EXTENDS Naturals, FiniteSets, Functions, FiniteSetsExt

CONSTANTS
  Disks, Interfaces, Pids,  \* names of devices and processes
  MaxEntries,   \* process_max_entries
  Boot,         \* every counter's value when Sentinel is started
  MaxCycles,    \* bound: collections
  MaxMoves,     \* bound: growth of the counters, together
  MaxFaults,    \* bound: failures and disappearances of all kinds, together
  RUNNING, FAILED \* a thread without figures

ASSUME CollectionConstants ==
  /\ Disks \cap Interfaces = {} /\ Disks \cap Pids = {} /\ Interfaces \cap Pids = {}
  /\ IsFiniteSet(Disks) /\ IsFiniteSet(Interfaces) /\ IsFiniteSet(Pids)
  /\ MaxEntries \in Nat /\ Boot \in Nat \ {0}
  /\ RUNNING # FAILED /\ \A S \in SUBSET (Disks \cup Interfaces \cup Pids) : {RUNNING, FAILED} \cap [S -> Nat] = {}
  /\ MaxCycles \in Nat /\ MaxMoves \in Nat /\ MaxFaults \in Nat

(* The CPU and memory collectors have no named counters; what they can do   *)
(* to the others, to fail, each of these does too.                         *)
Sources == [disk |-> Disks, network |-> Interfaces, process |-> Pids]
Collectors == DOMAIN Sources
Names == UNION Range(Sources)

VARIABLES
  host,      \* the kernel: the counter of each device or process that exists
  previous,  \* of each collector
  results    \* of each thread of the running collection: RUNNING, FAILED or its figures

(* History, for the properties and the bounds. *)
VARIABLES
  moved,     \* growth of each counter since Sentinel was started
  counted,   \* what the snapshots say of it, together
  dropped,   \* what the threads measured and no snapshot says
  first,     \* the first sample of each counter
  broken,    \* names that vanished, or whose reading failed
  misread,   \* names whose counter was once read as 0
  cycles,    \* collections
  faults

collectorVars == <<previous, results>>
figureVars == <<counted, dropped, cycles>>
vars == <<host, collectorVars, moved, figureVars, first, broken, misread, faults>>

Zeros == [d \in Names |-> 0]

IsSample(f, c) == DOMAIN f \subseteq Sources[c] /\ \A d \in DOMAIN f : f[d] \in Nat

TypeOK ==
  /\ DOMAIN previous = Collectors /\ DOMAIN results = Collectors
  /\ \A c \in Collectors : IsSample(previous[c], c)
  /\ \A c \in Collectors : results[c] \in {RUNNING, FAILED} \/ IsSample(results[c], c)
  /\ DOMAIN host \subseteq Names /\ \A d \in DOMAIN host : host[d] \in Nat
  /\ moved \in [Names -> Nat] /\ counted \in [Names -> Nat] /\ dropped \in [Names -> Nat]
  /\ DOMAIN first \subseteq Names /\ \A d \in DOMAIN first : first[d] \in Nat
  /\ broken \subseteq Names /\ misread \subseteq Interfaces
  /\ cycles \in 0 .. MaxCycles /\ faults \in 0 .. MaxFaults

NoFigures == [c \in Collectors |-> RUNNING]

Init ==
  /\ \E S \in SUBSET Names : host = [d \in S |-> Boot]
  /\ previous = [c \in Collectors |-> <<>>] /\ results = NoFigures
  /\ moved = Zeros /\ counted = Zeros /\ dropped = Zeros
  /\ first = <<>> /\ broken = {} /\ misread = {} /\ cycles = 0 /\ faults = 0

Fault(n) == faults + n <= MaxFaults /\ faults' = faults + n

-----------------------------------------------------------------------------
(* The host *)

Total(f) == MapThenSumSet(LAMBDA d : f[d], DOMAIN f)

Move(d) ==
  /\ d \in DOMAIN host /\ Total(moved) < MaxMoves
  /\ host' = [host EXCEPT ![d] = @ + 1] /\ moved' = [moved EXCEPT ![d] = @ + 1]
  /\ UNCHANGED <<collectorVars, figureVars, first, broken, misread, faults>>

Vanish(d) ==
  /\ d \in DOMAIN host /\ Fault(1)
  /\ host' = Restrict(host, DOMAIN host \ {d}) /\ broken' = broken \cup {d}
  /\ UNCHANGED <<collectorVars, moved, figureVars, first, misread>>

(* A new device, or the name or pid of an old one used again: from 0.      *)
Appear(d) ==
  /\ d \notin DOMAIN host
  /\ host' = [x \in DOMAIN host \cup {d} |-> IF x = d THEN 0 ELSE host[x]]
  /\ UNCHANGED <<collectorVars, moved, figureVars, first, broken, misread, faults>>

-----------------------------------------------------------------------------
(* The collectors *)

(* saturating_sub *)
Less(a, b) == IF a > b THEN a - b ELSE 0

(* Mutant: what is not in the last sample was 0 then. *)
Growth_FromZero(last, now) ==
  [d \in DOMAIN now |-> Less(now[d], IF d \in DOMAIN last THEN last[d] ELSE 0)]

(* What is not in the last sample has not grown. *)
Growth(last, now) ==
  [d \in DOMAIN now |-> Less(now[d], IF d \in DOMAIN last THEN last[d] ELSE now[d])]

Present(c) == Sources[c] \cap DOMAIN host

(* seen: what the collector reads, zero: what it takes for 0.              *)
Sample(c, r) ==
  LET now == [d \in r.seen |-> IF d \in r.zero THEN 0 ELSE host[d]]
      new == r.seen \ DOMAIN first
  IN
  /\ results[c] = RUNNING /\ cycles < MaxCycles
  /\ results' = [results EXCEPT ![c] = Growth(previous[c], now)]
  /\ previous' = [previous EXCEPT ![c] = now]
  /\ first' = [d \in DOMAIN first \cup new |-> IF d \in new THEN now[d] ELSE first[d]]
  /\ misread' = misread \cup r.zero
  /\ broken' = broken \cup r.zero \cup (Present(c) \ r.seen)
  /\ Fault(Cardinality(r.zero) + Cardinality(Present(c) \ r.seen))
  /\ UNCHANGED <<host, moved, figureVars>>

(* Mutant: the baseline is taken over before the error is found. *)
Sample_Fails_Advances(c) ==
  /\ results[c] = RUNNING /\ cycles < MaxCycles /\ Fault(1)
  /\ results' = [results EXCEPT ![c] = FAILED]
  /\ previous' = [previous EXCEPT ![c] = Restrict(host, Present(c))]
  /\ UNCHANGED <<host, moved, figureVars, first, broken, misread>>

(* Before anything is assigned. *)
Sample_Fails(c) ==
  /\ results[c] = RUNNING /\ cycles < MaxCycles /\ Fault(1)
  /\ results' = [results EXCEPT ![c] = FAILED]
  /\ UNCHANGED <<host, previous, moved, figureVars, first, broken, misread>>

(* All the disks there are. *)
Disk_Collect == Sample("disk", [seen |-> Present("disk"), zero |-> {}])

(* An entry of the directory that cannot be read is passed over; a counter  *)
(* that cannot be read or parsed counts as 0.                              *)
Network_Collect ==
  \E seen \in SUBSET Present("network") :
    \E zero \in SUBSET seen : Sample("network", [seen |-> seen, zero |-> zero])

(* A process that is gone, or cannot be read, is passed over. *)
Process_Collect ==
  \E seen \in SUBSET Present("process") : Sample("process", [seen |-> seen, zero |-> {}])

-----------------------------------------------------------------------------
(* The engine: collect *)

Joined == \A c \in Collectors : results[c] # RUNNING

(* The processes that used most of the CPU, in any order among equals.      *)
Shown(c) ==
  LET names == DOMAIN results[c] IN
  IF c # "process" \/ Cardinality(names) <= MaxEntries THEN {names}
  ELSE {S \in kSubset(MaxEntries, names) :
          \A d \in S, x \in names \ S : results[c][d] >= results[c][x]}

Measured == UNION {DOMAIN results[c] : c \in {x \in Collectors : results[x] \notin {RUNNING, FAILED}}}

Figure(d) == results[CHOOSE c \in Collectors : d \in Sources[c]][d]

Add(sums, S) == [d \in Names |-> sums[d] + IF d \in S THEN Figure(d) ELSE 0]

(* A snapshot of the figures of the collectors. *)
Collected ==
  /\ Joined /\ \A c \in Collectors : results[c] # FAILED
  /\ \E S \in Shown("process") :
       LET shown == S \cup (Measured \ Pids) IN
       counted' = Add(counted, shown) /\ dropped' = Add(dropped, Measured \ shown)
  /\ results' = NoFigures /\ cycles' = cycles + 1
  /\ UNCHANGED <<host, previous, moved, first, broken, misread, faults>>

(* The first error is the collection's; the figures of the others go.       *)
Collected_Fails ==
  /\ Joined /\ \E c \in Collectors : results[c] = FAILED
  /\ dropped' = Add(dropped, Measured)
  /\ results' = NoFigures /\ cycles' = cycles + 1
  /\ UNCHANGED <<host, previous, moved, counted, first, broken, misread, faults>>

Next ==
  \/ \E d \in Names : Move(d) \/ Vanish(d) \/ Appear(d)
  \/ Disk_Collect \/ Network_Collect \/ Process_Collect
  \/ \E c \in Collectors : Sample_Fails(c)
  \/ Collected \/ Collected_Fails

Spec == Init /\ [][Next]_vars

-----------------------------------------------------------------------------
(* Properties *)

(* The snapshots never say that more was transferred, or more CPU used,     *)
(* than was since Sentinel was started: nothing from before the start is    *)
(* counted, nothing is counted twice, and no name that is used again        *)
(* inherits a growth. Only a network counter that was read as 0 after a     *)
(* failure is counted from 0 again (collect of the collectors).            *)
CountedOnce == \A d \in Names : counted[d] <= moved[d] \/ d \in misread

InHand(d) == IF d \in Measured THEN Figure(d) ELSE 0

(* What a counter grew by between its first and its last sample is in the   *)
(* snapshots, or it was measured for a collection that another collector    *)
(* failed or for a process below the list's limit, or it is in the hands    *)
(* of a thread: the collectors' samples join without a gap, whichever of    *)
(* the threads fail and however they interleave with the counters.         *)
Continuous ==
  \A c \in Collectors : \A d \in DOMAIN previous[c] \ broken :
    d \in DOMAIN first /\ first[d] + counted[d] + dropped[d] + InHand(d) = previous[c][d]

(* Every variable is in its type, and the samples are continuous: what each *)
(* step of the collectors keeps.                                           *)
CollectionInv == TypeOK /\ Continuous

=============================================================================
