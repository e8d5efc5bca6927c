------------------------ MODULE CollectionInvariant ------------------------
(***************************************************************************)
(* The inductive invariant behind the properties of Collection: what the   *)
(* last sample of a collector has to do with the first one, and what the   *)
(* next sample could still say.                                            *)
(***************************************************************************)
EXTENDS Collection

IsMeasured(c) == results[c] \notin {RUNNING, FAILED}

(* A name that is not broken is in every sample since its first one, and    *)
(* its counter has only grown since.                                       *)
BaselineInv ==
  \A c \in Collectors :
    /\ IsMeasured(c) => DOMAIN results[c] = DOMAIN previous[c]
    /\ DOMAIN previous[c] \subseteq DOMAIN first
    /\ (DOMAIN first \cap Sources[c]) \ broken \subseteq DOMAIN previous[c]
    /\ \A d \in DOMAIN previous[c] \ broken : d \in DOMAIN host /\ previous[c][d] <= host[d]

(* Nothing was said of a name before its first sample. *)
FirstInv == \A d \in Names \ DOMAIN first : counted[d] = 0 /\ dropped[d] = 0

(* What the collector would measure now, were no counter to move again.     *)
Pending(c, d) ==
  IF d \in DOMAIN host \cap DOMAIN previous[c] THEN Less(host[d], previous[c][d]) ELSE 0

(* What was said of a counter, is about to be said and would be said next   *)
(* is not more than it has grown.                                          *)
BudgetInv ==
  \A c \in Collectors : \A d \in Sources[c] \ misread :
    counted[d] + dropped[d] + InHand(d) + Pending(c, d) <= moved[d]

(* A thread is done only in a collection that is not over. *)
TurnInv == \A c \in Collectors : results[c] # RUNNING => cycles < MaxCycles

(* What every step of the host, the collectors and the engine keeps.        *)
FiguresInv == CollectionInv /\ BaselineInv /\ FirstInv /\ BudgetInv /\ TurnInv

=============================================================================
