------------------------- MODULE TelemetryInvariant -------------------------
(***************************************************************************)
(* The inductive invariant behind the properties of Telemetry: how far the *)
(* worker, the shared state, the dashboard and the history file can be     *)
(* apart.                                                                  *)
(***************************************************************************)
EXTENDS Telemetry

(* The worker's snapshot is of its last collection, newer than the one      *)
(* that is shared; every collection gives a number or an error.            *)
WorkInv ==
  /\ worker \in {"persist", "publish"} => collected \in Snapshot /\ collected.n = Len(cycles)
  /\ Len(cycles) <= MaxCycles /\ stored <= Len(cycles)
  /\ worker = "publish" => stored = Len(cycles)
  /\ worker = "persist" => stored < Len(cycles)
  /\ shared.latest # NoSnapshot =>
       shared.latest.n <= stored /\ (worker = "publish" => shared.latest.n < stored)
  /\ shared.seq = 0 <=> shared.latest = NoSnapshot
  /\ seen <= shared.seq
  /\ shared.seq + shared.errors <= Len(cycles)
  /\ worker \in {"persist", "publish"} => shared.seq + shared.errors < Len(cycles)

(* Older than what comes next: the snapshot that is shared and not taken,   *)
(* or the one that is stored and not shared.                               *)
Older(n) ==
  /\ n <= stored
  /\ worker = "publish" => n < stored
  /\ Fresh => n < shared.latest.n

TakenInv ==
  /\ \A i \in DOMAIN taken : Older(taken[i].n)
  /\ \A i, j \in DOMAIN taken : i < j => taken[i].n < taken[j].n

(* The streak of an id is the number of the last evaluations under it that  *)
(* matched.                                                                *)
StreakInv ==
  /\ \A id \in Ids :
       streaks[id] = Cardinality(Unbroken(taken, id, Len(taken), Len(Rules)))
  /\ AlertsMatchStreaks

HistoryInv ==
  /\ \A i \in DOMAIN history : Parses(history[i]) => Older(history[i].n)
  /\ HistoryInOrder
  /\ intact > 0 /\ history # <<>> => history[Len(history)] # TORN
  /\ HistoryKeepsNewest

(* What every step of the worker and the dashboard, every failed append and *)
(* every crash keeps (run_worker, drain_telemetry, append_snapshot).       *)
TelemetryInv == TypeOK /\ WorkInv /\ TakenInv /\ StreakInv /\ HistoryInv

=============================================================================
