------------------------ MODULE CommandGateInvariant ------------------------
(***************************************************************************)
(* The inductive invariant behind the safety properties of CommandGate,    *)
(* one named part per thing a command carries from one step to a later one *)
(* and the code does not look at again.                                    *)
(***************************************************************************)
EXTENDS CommandGate

(* The lock in force is the one the last failure set. *)
LockInv ==
  failures >= 3 =>
    lastFailure # NONE /\ lockedUntil = lastFailure + LockSeconds(failures)

(* What is in the confirmation field was typed for no earlier request. *)
ConfirmInv == typed # NONE => freshTyping

(* The request under way is what policy permitted, and what the helper did  *)
(* is what its capabilities allow.                                          *)
RequestInv ==
  /\ helper = "idle" => Ready
  /\ helper \in {"received", "handled", "answering"} => ~Ready
  /\ ~Ready => request.kind \in {"kill_process", "renice_process"} /\ Permitted(request.kind)
  /\ helper = "received" => ~result
  /\ helper = "handled" => config.peer
  /\ helper \in {"handled", "answering"} /\ result => HelperAllows(request) /\ config.peer

(* A signal the UI has not recorded yet belongs to the request under way;   *)
(* a kill request that has not been carried out yet is past the cooldown.   *)
CooldownInv ==
  /\ lastKill # NONE => lastKill <= now
  /\ lastEffect # NONE => lastEffect <= now
  /\ helper = "received" /\ request.kind = "kill_process" /\ lastEffect # NONE =>
       now - lastEffect >= Cooldown
  /\ \/ lastEffect = NONE
     \/ lastKill # NONE /\ lastEffect <= lastKill
     \/ helper \in {"handled", "answering"} /\ request.kind = "kill_process"
     \/ helper = "dead"

(* The helper writes the event of the command the UI waits for. *)
EventInv ==
  /\ (outcome = "sent") <=> ~Ready
  /\ helper \in {"received", "handled"} => events = 0
  /\ ~AppendMayFail /\ helper = "answering" => events = IF config.peer THEN 1 ELSE 0

(* A kill becomes pending only where nothing can lock the gate, and the     *)
(* cooldown only starts when no kill is pending.                           *)
PendingInv ==
  /\ config.mode # "token" => failures = 0 /\ lockedUntil = 0
  /\ pending # NONE =>
       PolicyAccepts("kill_process") /\ (~Ready => request.kind # "kill_process")

(* Type correctness and the five parts, together inductive: every handler   *)
(* of the dashboard and the helper keeps them, from the lockout counter to  *)
(* the cooldown and the request in flight.                                  *)
GateInv == TypeOK /\ LockInv /\ ConfirmInv /\ RequestInv /\ CooldownInv /\ EventInv
=============================================================================
