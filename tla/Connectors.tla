----------------------------- MODULE Connectors -----------------------------
(***************************************************************************)
(* The connectors to the other services: PeerWeave, which is asked for its *)
(* health and given the newest snapshot at an interval, and EVRUS, whose   *)
(* discovery document is probed (src/connectors). The engine hands them    *)
(* every snapshot and polls them one after the other, both from the        *)
(* worker's loop (src/core/engine.rs). A snapshot is its number.           *)
(***************************************************************************)
EXTENDS Naturals, Sequences

CONSTANTS
  Interval,    \* publish_interval_ms, in units of the model's clock
  MaxCycles,   \* bound: snapshots
  MaxFaults,   \* bound: answers of the services that are not as they should be
  NONE

ASSUME ConnectorsConstants ==
  /\ Interval \in Nat \ {0} /\ MaxCycles \in Nat /\ MaxFaults \in Nat
  /\ NONE \notin Nat /\ NONE \notin {"unset", "stored", "declined", "refused", "unanswered"}

VARIABLES
  publishing,  \* publish_enabled and publish_space_id: "off", "unset" or "on"
  peerweave,   \* PeerWeaveConnector; since: the time since last_publish_at
  evrus,       \* EvrusConnector
  summary      \* ConnectorSummary of the last poll

(* History, for the properties and the bounds. *)
VARIABLES
  received,    \* the snapshots PeerWeave was given, each with what became of it
               \* and the time since an earlier one was acknowledged
  quiet,       \* time since then, up to Interval
  refused,     \* whether the last attempt to publish was not acknowledged
  cycles,
  faults

historyVars == <<received, quiet, refused, cycles, faults>>
vars == <<publishing, peerweave, evrus, summary, historyVars>>

Statuses == {"connecting", "healthy", "degraded", "failed"}
Spans == 0 .. Interval

TypeOK ==
  /\ publishing \in {"off", "unset", "on"}
  /\ peerweave \in [status : Statuses, snapshot : BOOLEAN,
                    pending : 1 .. MaxCycles \cup {NONE}, since : Spans \cup {NONE}]
  /\ evrus \in [status : Statuses, oidcHealthy : BOOLEAN]
  /\ summary \in [statuses : Seq(Statuses), snapshots : SUBSET {"peerweave", "evrus"}]
  /\ received \in Seq([n : 1 .. MaxCycles, outcome : {"stored", "declined", "unanswered"}, gap : Spans])
  /\ quiet \in Spans /\ refused \in BOOLEAN /\ cycles \in 0 .. MaxCycles /\ faults \in 0 .. MaxFaults

Init ==
  /\ publishing \in {"off", "unset", "on"}
  /\ peerweave = [status |-> "connecting", snapshot |-> FALSE, pending |-> NONE, since |-> NONE]
  /\ evrus = [status |-> "connecting", oidcHealthy |-> FALSE]
  /\ summary = [statuses |-> <<>>, snapshots |-> {}]
  /\ received = <<>> /\ quiet = Interval /\ refused = FALSE /\ cycles = 0 /\ faults = 0

(* ingest_system_snapshot: the newest snapshot takes the place of the one   *)
(* that waits.                                                             *)
Ingest ==
  /\ cycles < MaxCycles /\ cycles' = cycles + 1
  /\ peerweave' = IF publishing = "off" THEN peerweave ELSE [peerweave EXCEPT !.pending = cycles + 1]
  /\ UNCHANGED <<publishing, evrus, summary, received, quiet, refused, faults>>

Later(t) == IF t < Interval THEN t + 1 ELSE t

Elapse ==
  /\ quiet' = Later(quiet)
  /\ peerweave' = IF peerweave.since = NONE THEN peerweave ELSE [peerweave EXCEPT !.since = Later(@)]
  /\ UNCHANGED <<publishing, evrus, summary, received, refused, cycles, faults>>

-----------------------------------------------------------------------------
(* PeerWeave: health_check *)

(* Mutant: the interval may still have a unit to go. *)
ShouldPublish_Early ==
  publishing # "off" /\ peerweave.pending # NONE /\ peerweave.since \in {NONE, Interval - 1, Interval}

ShouldPublish ==
  publishing # "off" /\ peerweave.pending # NONE /\ peerweave.since \in {NONE, Interval}

(* The mutation may be stored and answered; it may be answered with         *)
(* "accepted: false", which the connector does not look at; refused, or     *)
(* lost on its way; or stored with the answer lost or unreadable. Without a *)
(* space it is not sent. NONE: there is no attempt.                        *)
Outcomes ==
  IF ~ShouldPublish THEN {NONE}
  ELSE IF publishing = "unset" THEN {"unset"}
  ELSE {"stored", "declined", "refused", "unanswered"}

Acknowledged(outcome) == outcome \in {"stored", "declined"}

(* Mutant: the time of an attempt is kept, not that of a success. *)
Publish_MarksAttempt(outcome) ==
  IF outcome = NONE THEN peerweave
  ELSE IF Acknowledged(outcome) THEN [peerweave EXCEPT !.pending = NONE, !.since = 0]
  ELSE [peerweave EXCEPT !.since = 0]

(* Mutant: a published snapshot still waits. *)
Publish_KeepsPending(outcome) ==
  IF Acknowledged(outcome) THEN [peerweave EXCEPT !.since = 0] ELSE peerweave

(* Mutant: the snapshot is taken out before it is sent. *)
Publish_Takes(outcome) ==
  IF Acknowledged(outcome) THEN [peerweave EXCEPT !.pending = NONE, !.since = 0]
  ELSE IF outcome = NONE THEN peerweave ELSE [peerweave EXCEPT !.pending = NONE]

(* publish_snapshot *)
Publish(outcome) ==
  IF Acknowledged(outcome) THEN [peerweave EXCEPT !.pending = NONE, !.since = 0] ELSE peerweave

Receive(outcome) ==
  LET entry == [n |-> peerweave.pending, outcome |-> outcome, gap |-> quiet] IN
  /\ received' = IF outcome \in {"stored", "declined", "unanswered"} THEN Append(received, entry)
                 ELSE received
  /\ quiet' = IF Acknowledged(outcome) THEN 0 ELSE quiet
  /\ refused' = IF outcome = NONE THEN refused ELSE ~Acknowledged(outcome)

(* hasErrors: the answer to the query carries GraphQL errors; whether to    *)
(* publish does not depend on it.                                          *)
PeerWeave_Answers(hasErrors, outcome) ==
  LET detail == outcome # NONE /\ ~Acknowledged(outcome) IN
  /\ outcome \in Outcomes
  /\ peerweave' = [Publish(outcome) EXCEPT
                     !.status = IF hasErrors \/ detail THEN "degraded" ELSE "healthy",
                     !.snapshot = TRUE]
  /\ Receive(outcome)

(* No answer, a bad one, or no HTTP client: nothing is published. *)
PeerWeave_Fails ==
  /\ peerweave' = [peerweave EXCEPT !.status = "failed", !.snapshot = FALSE]
  /\ UNCHANGED <<received, quiet, refused>>

(* EVRUS: health_check *)
Evrus_Check(reached) ==
  evrus' = [status |-> IF reached THEN "healthy" ELSE "failed", oidcHealthy |-> reached]

-----------------------------------------------------------------------------
(* poll_connectors: one after the other, whatever each of them finds. *)
Summarised ==
  summary' = [statuses |-> <<peerweave'.status, evrus'.status>>,
              snapshots |-> (IF peerweave'.snapshot THEN {"peerweave"} ELSE {})
                             \cup (IF evrus'.oidcHealthy THEN {"evrus"} ELSE {})]

Cost(bad) == IF bad THEN 1 ELSE 0

Fault(n) == faults + n <= MaxFaults /\ faults' = faults + n

Poll ==
  \E reached \in BOOLEAN :
    /\ \/ PeerWeave_Fails /\ Fault(1 + Cost(~reached))
       \/ \E hasErrors \in BOOLEAN, outcome \in Outcomes :
            /\ PeerWeave_Answers(hasErrors, outcome)
            /\ Fault(Cost(hasErrors) + Cost(outcome \notin {NONE, "unset", "stored"}) + Cost(~reached))
    /\ Evrus_Check(reached) /\ Summarised
    /\ UNCHANGED <<publishing, cycles>>

Next == Ingest \/ Elapse \/ Poll

Spec == Init /\ [][Next]_vars

(* The worker's loop polls again and again, and time passes between.       *)
FairSpec == Spec /\ WF_vars(Poll) /\ WF_vars(Elapse)

-----------------------------------------------------------------------------
(* Properties *)

(* PeerWeave is given the snapshots in their order, each once: one comes    *)
(* again only if the answer to it was lost (health_check,                  *)
(* publish_snapshot).                                                      *)
PublishedInOrder ==
  \A i, j \in DOMAIN received : i < j =>
    /\ received[i].n <= received[j].n
    /\ received[i].n = received[j].n => received[i].outcome = "unanswered"

(* After an acknowledged publish the interval passes before PeerWeave is    *)
(* given another snapshot, and attempts that fail do not shorten it         *)
(* (should_publish_now).                                                   *)
PublishSpaced == \A i \in DOMAIN received : received[i].gap = Interval

(* A publish that failed is not hidden by a later poll that publishes       *)
(* nothing: until an attempt is acknowledged, the summary has PeerWeave     *)
(* degraded or failed (health_check).                                      *)
RefusalShown == refused => summary.statuses[1] \in {"degraded", "failed"}

(* What the connector remembers agrees with what PeerWeave was given: the   *)
(* time since the last acknowledgement, and a snapshot that waits, which is *)
(* the last one given only if the answer to it was lost; and a refused      *)
(* attempt is made again.                                                  *)
Remembered ==
  /\ quiet = IF peerweave.since = NONE THEN Interval ELSE peerweave.since
  /\ refused => ShouldPublish
  /\ peerweave.pending # NONE => peerweave.pending <= cycles
  /\ \A i \in DOMAIN received :
       /\ received[i].n <= cycles
       /\ peerweave.pending # NONE =>
            \/ received[i].n < peerweave.pending
            \/ received[i].n = peerweave.pending /\ received[i].outcome = "unanswered"

(* Every variable is in its type, the status is honest, and the connector   *)
(* remembers what is so.                                                   *)
ConnectorsInv == TypeOK /\ RefusalShown /\ Remembered

(* A snapshot that waits is given to PeerWeave in the end, it or a newer    *)
(* one, whatever failed before: stored, or acknowledged as declined         *)
(* (should_publish_now, publish_snapshot).                                 *)
Delivered ==
  \A n \in 1 .. MaxCycles :
    (publishing = "on" /\ peerweave.pending = n)
      ~> (\E i \in DOMAIN received : received[i].n >= n /\ Acknowledged(received[i].outcome))

=============================================================================
