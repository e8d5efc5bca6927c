------------------------- MODULE EndpointsInvariant -------------------------
(***************************************************************************)
(* The inductive invariant behind PageSound: what the counters of the      *)
(* shared state count, and how far a page of metrics may be behind them.   *)
(***************************************************************************)
EXTENDS Endpoints

(* The collections whose outcome is published. *)
Counted == IF InHand THEN Len(cycles) - 1 ELSE Len(cycles)

(* The counters are those of these collections, and the shared snapshot is  *)
(* the last good one of them.                                              *)
CountersInv ==
  /\ Len(cycles) <= MaxCycles
  /\ InHand => collected \in Snapshot /\ collected.n = Len(cycles) /\ cycles[Len(cycles)] # NoSnapshot
  /\ shared.seq = Good(Counted) /\ shared.errors = Counted - Good(Counted)
  /\ shared.seq > 0 =>
       /\ shared.latest \in Snapshot /\ shared.latest.n <= Counted
       /\ Good(shared.latest.n) = shared.seq

(* Between its two reads, a page of metrics is for somebody let in, and its *)
(* counters are no newer than the shared ones.                             *)
BetweenInv ==
  request.phase = "counters" =>
    /\ request.route = "metrics" /\ LetIn(request.sent.header)
    /\ request.page.cycles <= shared.seq

(* What is on a page of metrics has been collected. *)
ShownInv ==
  /\ request.phase = "done" /\ request.status = 200
  /\ request.route = "metrics" /\ request.page.cycles > 0
  => request.page.latest.n <= Len(cycles)

(* What every step of the worker and of the server keeps. *)
PageInv == PageSound /\ CountersInv /\ BetweenInv /\ ShownInv

=============================================================================
