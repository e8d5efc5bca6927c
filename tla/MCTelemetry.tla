---------------------------- MODULE MCTelemetry ----------------------------
(* Instances of Telemetry for TLC. *)
EXTENDS TelemetryInvariant

(* A debounced rule on a high value, one that fires at once on a low value, *)
(* one on a metric that does not exist, and two that share an id.          *)
MCRules ==
  <<[id |-> "high", known |-> TRUE, holds |-> {1}, forCycles |-> 2],
    [id |-> "low", known |-> TRUE, holds |-> {0}, forCycles |-> 0],
    [id |-> "typo", known |-> FALSE, holds |-> {0, 1}, forCycles |-> 1],
    [id |-> "twin", known |-> TRUE, holds |-> {1}, forCycles |-> 1],
    [id |-> "twin", known |-> TRUE, holds |-> {0}, forCycles |-> 2]>>

=============================================================================
