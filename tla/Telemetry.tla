----------------------------- MODULE Telemetry -----------------------------
(***************************************************************************)
(* The dashboard that follows the telemetry worker: the UI thread takes    *)
(* the latest snapshot when it gets to it, appends it to the history and   *)
(* evaluates the alert rules (drain_telemetry of src/app/dashboard.rs,     *)
(* evaluate_snapshot_alerts of src/core/policy.rs).                        *)
(***************************************************************************)
EXTENDS SnapshotHistory, TelemetryWorker

CONSTANTS
  Rules,        \* alert rules; holds: the values for which a rule's comparison is true
  MaxUiErrors,  \* bound: error count from which the dashboard's own work succeeds
  MaxLosses     \* bound: deaths of the process and failed appends to the history

Ids == {Rules[k].id : k \in DOMAIN Rules}

ASSUME TelemetryConstants ==
  /\ Len(Rules) \in Nat /\ DOMAIN Rules = 1 .. Len(Rules)
  /\ \A k \in DOMAIN Rules :
       Rules[k].holds \subseteq Values /\ Rules[k].known \in BOOLEAN /\ Rules[k].forCycles \in Nat
  /\ MaxUiErrors \in Nat /\ MaxLosses \in Nat
  /\ Snapshot \cap {NoSnapshot, JUNK, TORN} = {}

VARIABLES
  ui,          \* what the dashboard shows
  streaks,     \* alert_rule_streaks
  history      \* the lines of snapshots.jsonl

(* History, for the properties and the bounds. *)
VARIABLES
  taken,       \* the snapshots the dashboard took since it was started
  losses,      \* deaths and failed appends
  intact       \* appends to the history since the last of them, up to 2

uiVars == <<ui, streaks, taken>>
lossVars == <<losses, intact>>
vars == <<workerVars, shared, seen, uiVars, history, lossVars>>

TypeOK ==
  /\ WorkerTypeOK
  /\ ui \in [latest : Snapshot \cup {NoSnapshot}, alerts : SUBSET DOMAIN Rules,
             errors : 0 .. MaxCycles + MaxUiErrors, error : BOOLEAN]
  /\ streaks \in [Ids -> Nat]
  /\ history \in Seq(Snapshot \cup {JUNK, TORN})
  /\ taken \in Seq(Snapshot) /\ losses \in 0 .. MaxLosses /\ intact \in 0 .. 2

NoUi == [latest |-> NoSnapshot, alerts |-> {}, errors |-> 0, error |-> FALSE]
NoStreaks == [id \in Ids |-> 0]

Init ==
  /\ WorkerInit
  /\ ui = NoUi /\ streaks = NoStreaks /\ history = <<>>
  /\ taken = <<>> /\ losses = 0 /\ intact = 2

-----------------------------------------------------------------------------
(* The dashboard *)

(* evaluate_snapshot_alerts: the rules in turn, one streak per rule id;     *)
(* a rule on an unknown metric is passed over.                             *)
Matched(k, value) == Rules[k].known /\ value \in Rules[k].holds

(* Mutant: a value that does not match leaves the streak. *)
NextStreak_NoReset(streak, matched) == IF matched THEN streak + 1 ELSE streak

NextStreak(streak, matched) == IF matched THEN streak + 1 ELSE 0

StreaksUpTo(value) ==
  LET after[k \in 0 .. Len(Rules)] ==
        IF k = 0 THEN streaks
        ELSE IF ~Rules[k].known THEN after[k - 1]
        ELSE [after[k - 1] EXCEPT ![Rules[k].id] = NextStreak(@, Matched(k, value))]
  IN after

Needed(k) == IF Rules[k].forCycles = 0 THEN 1 ELSE Rules[k].forCycles

Firing(value) ==
  LET after == StreaksUpTo(value) IN
  {k \in DOMAIN Rules : Matched(k, value) /\ after[k][Rules[k].id] >= Needed(k)}

(* drain_telemetry with a tick of poll_tick: the counter of errors and the  *)
(* last error are overwritten by the worker's.                             *)
TakeTick ==
  /\ PollTick
  /\ taken' = Append(taken, shared.latest)
  /\ streaks' = StreaksUpTo(shared.latest.value)[Len(Rules)]

Drain ==
  /\ TakeTick
  /\ history' = Recorded(history, shared.latest)
  /\ ui' = [latest |-> shared.latest, alerts |-> Firing(shared.latest.value),
            errors |-> shared.errors, error |-> shared.error]
  /\ intact' = IF intact = 2 THEN 2 ELSE intact + 1
  /\ UNCHANGED losses

Lose == losses < MaxLosses /\ losses' = losses + 1 /\ intact' = 0

(* append_snapshot returns an error, which is counted and shown.            *)
Drain_HistoryFails ==
  /\ TakeTick /\ Lose
  /\ history' \in {history} \cup HalfRecorded(history, shared.latest)
  /\ ui' = [latest |-> shared.latest, alerts |-> Firing(shared.latest.value),
            errors |-> shared.errors + 1, error |-> TRUE]

(* The anchoring pass or the history probe of poll has failed. *)
UiError ==
  /\ ui.errors < MaxUiErrors
  /\ ui' = [ui EXCEPT !.errors = @ + 1, !.error = TRUE]
  /\ UNCHANGED <<workerVars, shared, seen, streaks, taken, history, lossVars>>

-----------------------------------------------------------------------------
(* The process dies, perhaps in append_snapshot, and is started again. *)
Crash ==
  /\ Lose
  /\ history' \in {history} \cup IF Fresh THEN HalfRecorded(history, shared.latest) ELSE {}
  /\ worker' = "collect" /\ collected' = NoSnapshot /\ shared' = NoShared
  /\ seen' = 0 /\ ui' = NoUi /\ streaks' = NoStreaks /\ taken' = <<>>
  /\ UNCHANGED <<cycles, stored>>

Next ==
  \/ Worker /\ UNCHANGED <<uiVars, history, lossVars>>
  \/ Drain \/ Drain_HistoryFails \/ UiError \/ Crash

Spec == Init /\ [][Next]_vars

(* The dashboard is repainted at an interval, and each frame drains. *)
FairSpec == Spec /\ WF_vars(Drain \/ Drain_HistoryFails)

-----------------------------------------------------------------------------
(* Properties *)

(* The alerts on the screen are exactly those of the rules on a known       *)
(* metric for which the last forCycles evaluations under the rule's id, up  *)
(* to its own of the last snapshot taken, all matched: rules with one id    *)
(* share a streak, and collections that the dashboard did not take count    *)
(* for nothing (evaluate_snapshot_alerts).  An evaluation is <<i, j>>, of   *)
(* rule j on the i-th snapshot taken.                                      *)
Evaluated(id, n, k) ==
  {e \in (1 .. n) \X {j \in DOMAIN Rules : Rules[j].known /\ Rules[j].id = id} :
     e[1] < n \/ e[2] <= k}

Before(e, f) == e[1] < f[1] \/ (e[1] = f[1] /\ e[2] < f[2])

Unbroken(snapshots, id, n, k) ==
  {e \in Evaluated(id, n, k) :
     \A f \in Evaluated(id, n, k) : Before(f, e) \/ Matched(f[2], snapshots[f[1]].value)}

AlertsMatchStreaks ==
  \A k \in DOMAIN Rules :
    k \in ui.alerts <=>
      /\ Rules[k].known
      /\ Cardinality(Unbroken(taken, Rules[k].id, Len(taken), k)) >= Needed(k)

(* An alert is on the screen only if its condition held in each of the last *)
(* forCycles collection cycles that did not fail: "Alerts are evaluated on  *)
(* each collection cycle", "for_cycles ... requires the condition to        *)
(* persist for N consecutive cycles before firing" (src/core/command.rs:440 *)
(* and 462).                                                               *)
AlertsPersist ==
  \A k \in ui.alerts :
    \A c \in ui.latest.n - Needed(k) + 1 .. ui.latest.n :
      c \in DOMAIN cycles /\ cycles[c] # NoSnapshot => Matched(k, cycles[c])

(* The dashboard takes no snapshot twice and none out of order, and what    *)
(* it shows has been handed to the store before.                           *)
TakenInOrder ==
  /\ TypeOK
  /\ \A i, j \in DOMAIN taken : i < j => taken[i].n < taken[j].n
  /\ \A i \in DOMAIN taken : taken[i].n <= stored

(* The lines of the history that parse are in the order of collection, each *)
(* once, whatever the clock does and wherever the process dies or an append *)
(* fails, and each of these losses spoils one line at most.                *)
HistoryInOrder ==
  /\ \A i, j \in DOMAIN history :
       i < j /\ Parses(history[i]) /\ Parses(history[j]) => history[i].n < history[j].n
  /\ Cardinality({i \in DOMAIN history : ~Parses(history[i])}) <= losses

(* The newest snapshot taken is the last line of the history under every    *)
(* limit and every reading of the clock, and the limit is kept; only the    *)
(* first append after a loss may go into a line that the loss left torn.   *)
HistoryKeepsNewest ==
  /\ taken # <<>> /\ intact = 2 => history # <<>> /\ Last(history) = Last(taken)
  /\ taken # <<>> /\ intact > 0 /\ MaxEntries > 0 => Len(history) <= MaxEntries

(* The history file over every order of collections, losses and readings of *)
(* the clock: ordered, and never without the newest snapshot                *)
(* (append_snapshot, compact).                                             *)
HistorySound == HistoryInOrder /\ HistoryKeepsNewest

(* The dashboard catches up with the worker again and again: whatever was   *)
(* published is on the screen, or a later snapshot is, or the process died. *)
LatestShown == []<>(ui.latest = shared.latest)

=============================================================================
