--------------------------- MODULE TelemetryWorker ---------------------------
(***************************************************************************)
(* The telemetry worker of src/telemetry/mod.rs: it collects, hands the    *)
(* snapshot to the store and publishes it in the state it shares with      *)
(* whoever holds a TelemetryHandle: the dashboard or the headless loop     *)
(* polls it for a tick, the observability server reads it.                 *)
(***************************************************************************)
EXTENDS Integers, Sequences

CONSTANTS
  Values,         \* values of the one metric that is looked at
  Times,          \* values of the wall clock, which may be set back
  MaxCycles,      \* bound: collections
  HasConnectors,  \* is a connector configured?
  NoSnapshot

ASSUME WorkerConstants ==
  /\ Times \subseteq Nat /\ MaxCycles \in Nat /\ HasConnectors \in BOOLEAN

VARIABLES
  worker,      \* what the worker does next
  collected,   \* the snapshot in the worker's hands
  shared,      \* SharedState
  seen         \* last_seen_seq

(* History, for the properties and the bounds. *)
VARIABLES
  cycles,      \* the values of all collections; NoSnapshot for one that failed
  stored       \* number of the last collection handed to the store

workerVars == <<worker, collected, cycles, stored>>

(* n: the number of the collection. *)
Snapshot == [n : 1 .. MaxCycles, ts : Times, value : Values]

ASSUME NoSnapshotIsNone == NoSnapshot \notin Values \cup Snapshot

WorkerTypeOK ==
  /\ worker \in {"collect", "persist", "publish", "connectors"}
  /\ collected \in Snapshot \cup {NoSnapshot}
  /\ shared \in [seq : 0 .. MaxCycles, latest : Snapshot \cup {NoSnapshot},
                 errors : 0 .. MaxCycles, error : BOOLEAN, polls : BOOLEAN]
  /\ seen \in 0 .. MaxCycles
  /\ cycles \in Seq(Values \cup {NoSnapshot}) /\ stored \in 0 .. MaxCycles

NoShared == [seq |-> 0, latest |-> NoSnapshot, errors |-> 0, error |-> FALSE, polls |-> FALSE]

WorkerInit ==
  /\ worker = "collect" /\ collected = NoSnapshot /\ shared = NoShared /\ seen = 0
  /\ cycles = <<>> /\ stored = 0

-----------------------------------------------------------------------------
(* run_worker *)

Collect(value, ts) ==
  /\ worker = "collect" /\ Len(cycles) < MaxCycles
  /\ collected' = [n |-> Len(cycles) + 1, ts |-> ts, value |-> value]
  /\ cycles' = Append(cycles, value)
  /\ worker' = "persist"
  /\ UNCHANGED <<stored, shared>>

(* The error is logged to the store; no new sequence number. *)
Collect_Fails ==
  /\ worker = "collect" /\ Len(cycles) < MaxCycles
  /\ cycles' = Append(cycles, NoSnapshot)
  /\ shared' = [shared EXCEPT !.errors = @ + 1, !.error = TRUE]
  /\ worker' = "connectors"
  /\ UNCHANGED <<collected, stored>>

(* persist_snapshot: the writes go into the store's channel. *)
Persist ==
  /\ worker = "persist"
  /\ stored' = collected.n
  /\ worker' = "publish"
  /\ UNCHANGED <<collected, cycles, shared>>

(* Mutant: the snapshot may be published before it is stored. *)
Publish_Early ==
  /\ worker \in {"persist", "publish"}
  /\ shared' = [shared EXCEPT !.seq = @ + 1, !.latest = collected, !.error = FALSE]
  /\ worker' = "connectors" /\ collected' = NoSnapshot
  /\ UNCHANGED <<cycles, stored>>

(* Under the lock; a good snapshot clears the last error. *)
Publish ==
  /\ worker = "publish"
  /\ shared' = [shared EXCEPT !.seq = @ + 1, !.latest = collected, !.error = FALSE]
  /\ worker' = "connectors" /\ collected' = NoSnapshot
  /\ UNCHANGED <<cycles, stored>>

(* Poll the connectors if their interval has passed, then sleep. *)
Connectors ==
  /\ worker = "connectors"
  /\ \E due \in BOOLEAN :
       shared' = [shared EXCEPT !.polls = @ \/ (HasConnectors /\ due)]
  /\ worker' = "collect"
  /\ UNCHANGED <<collected, cycles, stored>>

Worker ==
  /\ \/ \E value \in Values, ts \in Times : Collect(value, ts)
     \/ Collect_Fails \/ Persist \/ Publish \/ Connectors
  /\ UNCHANGED seen

-----------------------------------------------------------------------------
(* poll_tick: the latest snapshot, unless its number has been seen. *)

(* Mutant: a number is taken for the next one to come. *)
Fresh_SkipsOne == shared.seq > seen + 1

Fresh == shared.seq # seen

PollTick ==
  /\ Fresh
  /\ seen' = shared.seq
  /\ UNCHANGED <<workerVars, shared>>

=============================================================================
