------------------------- MODULE CommandGateProofs -------------------------
(***************************************************************************)
(* GateInv is inductive, and the safety properties of CommandGate follow   *)
(* from it, for every set of configurations and pids, every cooldown,      *)
(* lockout and token lifetime, and whether or not the helper may die.      *)
(***************************************************************************)
EXTENDS CommandGateInvariant, TLAPS

(* A lockout lasts for a number of seconds. *)
LEMMA LockSecondsNat ==
  ASSUME NEW count \in Nat, count >= 3
  PROVE  LockSeconds(count) \in Nat
<1>1. count - 2 \in Nat OBVIOUS
<1>2. (count - 2) * LockStep \in Nat BY <1>1, GateConstants
<1> QED BY <1>2, GateConstants DEF LockSeconds

(* An outcome is recorded once, unless the append fails. *)
LEMMA AuditedStep ==
  ASSUME NEW kind, NEW becomes, Audited(kind, becomes)
  PROVE  outcome' = becomes /\ events' \in 0 .. 1 /\ (~AppendMayFail => events' = 1)
<1>1. PICK lost \in {FALSE, AppendMayFail} : events' = IF lost THEN 0 ELSE 0 + 1
  BY DEF Audited, AppendEvent
<1>2. outcome' = becomes BY DEF Audited
<1>3. events' = 0 \/ events' = 1 BY <1>1
<1>4. ~AppendMayFail => ~lost BY <1>1, GateConstants
<1> QED BY <1>1, <1>2, <1>3, <1>4

(* What a refused command leaves behind. *)
LEMMA RefusedStep ==
  ASSUME TypeOK, LockInv, NEW kind \in Kinds, Refused(kind)
  PROVE  /\ failures' \in 0 .. MaxFailures /\ lockedUntil' \in Nat
         /\ lastFailure' \in Nat \cup {NONE}
         /\ LockInv'
         /\ outcome' = "refused" /\ events' \in 0 .. 1
         /\ ~AppendMayFail => events' = 1
<1>1. CASE Refused_Locked(kind)
  BY <1>1, AuditedStep DEF Refused_Locked, authVars, TypeOK, LockInv, LockSeconds
<1>2. CASE Refused_Token(kind)
  <2>1. failures' \in Nat /\ failures' <= MaxFailures
    BY <1>2, GateConstants DEF Refused_Token, TypeOK
  <2>2. failures' >= 3 => LockSeconds(failures') \in Nat BY <2>1, LockSecondsNat
  <2>3. now \in Nat /\ lastFailure' = now BY <1>2, GateConstants DEF Refused_Token, TypeOK
  <2>4. LockInv'
    BY <1>2, <2>3, GateConstants DEF Refused_Token, LockInv, LockSeconds
  <2> QED
    BY <1>2, <2>1, <2>2, <2>3, <2>4, AuditedStep, GateConstants DEF Refused_Token
<1>3. CASE Refused_Policy(kind)
  BY <1>3, AuditedStep, GateConstants DEF Refused_Policy, Authenticated, TypeOK, LockInv
<1> QED BY <1>1, <1>2, <1>3 DEF Refused

(* The event a refused or inline command appends. *)
LEMMA RefusedEvent ==
  ASSUME TypeOK, NEW kind \in Kinds, NEW becomes, Audited(kind, becomes)
  PROVE  lastEvent' \in {NoEvent} \cup
           [kind : Kinds, actor : {"did", "operator"}, hash : {{}} \cup {{p} : p \in EvrusPolicy}]
<1>1. config \in Config BY GateConstants DEF TypeOK
<1>2. Actor \in {"did", "operator"} BY <1>1 DEF Config, Actor
<1>3. config.policy \in {{}} \cup {{p} : p \in EvrusPolicy} BY <1>1 DEF Config
<1>4. [kind |-> kind, actor |-> Actor, hash |-> config.policy] \in
        [kind : Kinds, actor : {"did", "operator"}, hash : {{}} \cup {{p} : p \in EvrusPolicy}]
  BY <1>2, <1>3
<1>5. lastEvent' = lastEvent \/ lastEvent' = [kind |-> kind, actor |-> Actor, hash |-> config.policy]
  BY DEF Audited, AppendEvent
<1> QED BY <1>4, <1>5 DEF TypeOK

(* A refusal is audited as such. *)
LEMMA RefusedAudited ==
  ASSUME NEW kind, Refused(kind)
  PROVE  Audited(kind, "refused")
BY DEF Refused, Refused_Locked, Refused_Token, Refused_Policy

(* A right token takes the failures and the lockout back. *)
LEMMA AuthenticatedStep ==
  ASSUME TypeOK, Authenticated
  PROVE  /\ failures' \in 0 .. MaxFailures /\ lockedUntil' \in Nat
         /\ lastFailure' \in Nat \cup {NONE}
         /\ LockInv'
BY GateConstants DEF Authenticated, TypeOK, LockInv

-----------------------------------------------------------------------------
(* What steps that leave the helper, the prompt or the locks alone keep. *)

(* A step that leaves the helper alone keeps what its request was allowed for. *)
LEMMA RequestFrame ==
  ASSUME RequestInv, UNCHANGED <<config, helperVars>>
  PROVE  RequestInv'
BY DEF RequestInv, helperVars, Permitted, HelperAllows, Ready

(* A step that sends no kill keeps the distance between kills. *)
LEMMA CooldownFrame ==
  ASSUME CooldownInv, UNCHANGED <<clockVars, helperVars, lastKill>>
  PROVE  CooldownInv'
BY DEF CooldownInv, helperVars, clockVars

(* A step that records nothing keeps the events paired with outcomes. *)
LEMMA EventFrame ==
  ASSUME EventInv, UNCHANGED <<config, helperVars, trailVars>>
  PROVE  EventInv'
BY DEF EventInv, helperVars, trailVars, Ready

(* A step that asks for no token keeps the lockout. *)
LEMMA LockFrame ==
  ASSUME LockInv, UNCHANGED authVars
  PROVE  LockInv'
BY DEF LockInv, authVars, LockSeconds

(* While the UI is ready, an answered command's outcome may be replaced. *)
LEMMA EventReady ==
  ASSUME EventInv, RequestInv, Ready, UNCHANGED <<config, helperVars>>,
         outcome' # "sent"
  PROVE  EventInv'
BY DEF EventInv, RequestInv, helperVars, Ready

(* A step of the dashboard that types its own variables keeps all types. *)
LEMMA TypeFrame ==
  ASSUME TypeOK, UNCHANGED <<clockVars, helperVars>>,
         failures' \in 0 .. MaxFailures, lockedUntil' \in Nat,
         lastFailure' \in Nat \cup {NONE},
         pending' \in Pids \cup {NONE}, typed' \in Pids \cup {NONE},
         freshTyping' \in BOOLEAN,
         lastKill' \in Nat \cup {NONE},
         outcome' \in {"none", "shown", "refused", "confirm", "canceled", "mismatch", "sent",
                       "done", "replied", "error"},
         events' \in 0 .. 1,
         lastEvent' \in {NoEvent} \cup
           [kind : Kinds, actor : {"did", "operator"}, hash : {{}} \cup {{p} : p \in EvrusPolicy}]
  PROVE  TypeOK'
BY DEF TypeOK, clockVars, helperVars

(* A request is sent. *)
LEMMA SendFrame ==
  ASSUME TypeOK, UNCHANGED <<clockVars, lastKill, lastEffect, lastEvent>>,
         failures' \in 0 .. MaxFailures, lockedUntil' \in Nat,
         lastFailure' \in Nat \cup {NONE},
         pending' \in Pids \cup {NONE}, typed' \in Pids \cup {NONE},
         freshTyping' \in BOOLEAN,
         request' \in Command, helper' \in {"received", "dead"}, result' \in BOOLEAN,
         outcome' = "sent", events' = 0
  PROVE  TypeOK'
BY DEF TypeOK, clockVars

-----------------------------------------------------------------------------
(* One lemma per group of actions: each keeps GateInv. *)

(* A command is submitted. *)
LEMMA SubmitStep ==
  ASSUME GateInv, NEW command \in Command,
         \/ Submit_Inline(command) \/ Submit_Refused(command) \/ Submit_Kill(command)
         \/ Submit_Renice(command) \/ Submit_ShowCpu(command) \/ Submit_ShowOther(command)
  PROVE  GateInv'
<1> command.kind \in Kinds /\ command.pid \in Pids BY DEF Command
<1>1. CASE Submit_Refused(command)
  <2>1. Refused(command.kind) BY <1>1 DEF Submit_Refused
  <2>2. /\ failures' \in 0 .. MaxFailures /\ lockedUntil' \in Nat
        /\ lastFailure' \in Nat \cup {NONE}
        /\ LockInv' /\ outcome' = "refused" /\ events' \in 0 .. 1
    BY <2>1, RefusedStep DEF GateInv
  <2>3. UNCHANGED <<clockVars, confirmVars, helperVars, lastKill>> /\ Ready
    BY <1>1 DEF Submit_Refused
  <2>4. TypeOK'
    <3>1. lastEvent' \in {NoEvent} \cup
            [kind : Kinds, actor : {"did", "operator"}, hash : {{}} \cup {{p} : p \in EvrusPolicy}]
      BY <2>1, RefusedAudited, RefusedEvent DEF GateInv
    <3>2. /\ pending' \in Pids \cup {NONE} /\ typed' \in Pids \cup {NONE}
          /\ freshTyping' \in BOOLEAN /\ lastKill' \in Nat \cup {NONE}
      BY <2>3 DEF GateInv, TypeOK, confirmVars
    <3> QED BY <2>2, <2>3, <3>1, <3>2, TypeFrame DEF GateInv
  <2>5. ConfirmInv' BY <2>3 DEF GateInv, ConfirmInv, confirmVars
  <2>6. RequestInv' BY <2>3, RequestFrame DEF GateInv, clockVars
  <2>7. CooldownInv' BY <2>3, CooldownFrame DEF GateInv
  <2>8. EventInv' BY <2>2, <2>3, EventReady DEF GateInv, clockVars
  <2> QED BY <2>2, <2>4, <2>5, <2>6, <2>7, <2>8 DEF GateInv
<1>2. CASE Submit_Kill(command)
  <2>1. /\ failures' \in 0 .. MaxFailures /\ lockedUntil' \in Nat
        /\ lastFailure' \in Nat \cup {NONE}
        /\ LockInv'
    BY <1>2, AuthenticatedStep DEF Submit_Kill, Accepted, GateInv
  <2>2. /\ UNCHANGED <<clockVars, typed, freshTyping, helperVars, lastEvent, lastKill>>
        /\ Ready /\ pending' = command.pid /\ outcome' = "confirm" /\ events' = 0
    BY <1>2 DEF Submit_Kill
  <2>3. TypeOK'
    <3>1. /\ typed' \in Pids \cup {NONE} /\ freshTyping' \in BOOLEAN
          /\ lastKill' \in Nat \cup {NONE}
          /\ lastEvent' \in {NoEvent} \cup
            [kind : Kinds, actor : {"did", "operator"}, hash : {{}} \cup {{p} : p \in EvrusPolicy}]
      BY <2>2 DEF GateInv, TypeOK
    <3> QED BY <2>1, <2>2, <3>1, TypeFrame DEF GateInv
  <2>4. ConfirmInv' BY <2>2 DEF GateInv, ConfirmInv
  <2>5. RequestInv' BY <2>2, RequestFrame DEF GateInv, clockVars
  <2>6. CooldownInv' BY <2>2, CooldownFrame DEF GateInv
  <2>7. EventInv' BY <2>2, EventReady DEF GateInv, clockVars
  <2> QED BY <2>1, <2>3, <2>4, <2>5, <2>6, <2>7 DEF GateInv
<1>3. CASE Submit_Renice(command)
  <2>1. /\ failures' \in 0 .. MaxFailures /\ lockedUntil' \in Nat
        /\ lastFailure' \in Nat \cup {NONE}
        /\ LockInv'
    BY <1>3, AuthenticatedStep DEF Submit_Renice, Accepted, GateInv
  <2>2. /\ UNCHANGED <<clockVars, confirmVars, lastKill, lastEffect, lastEvent>>
        /\ Ready /\ request' = command /\ result' = FALSE
        /\ helper' = IF helper = "dead" THEN "dead" ELSE "received"
        /\ outcome' = "sent" /\ events' = 0
        /\ command.kind = "renice_process" /\ Permitted(command.kind)
    BY <1>3 DEF Submit_Renice, Send, Accepted, PolicyAccepts
  <2>3. TypeOK'
    <3>1. helper' \in {"received", "dead"} BY <2>2
    <3>2. /\ pending' \in Pids \cup {NONE} /\ typed' \in Pids \cup {NONE}
          /\ freshTyping' \in BOOLEAN
      BY <2>2 DEF GateInv, TypeOK, confirmVars
    <3> QED BY <2>1, <2>2, <3>1, <3>2, SendFrame DEF GateInv
  <2>4. ConfirmInv' BY <2>2 DEF GateInv, ConfirmInv, confirmVars
  <2>5. RequestInv'
    <3>1. Permitted("renice_process")' BY <2>2 DEF Permitted, clockVars
    <3> QED BY <2>2, <3>1 DEF RequestInv, Ready, NoCommand
  <2>6. CooldownInv' BY <2>2 DEF GateInv, CooldownInv, RequestInv, Ready, clockVars, TypeOK
  <2>7. EventInv' BY <2>2 DEF EventInv, Ready, NoCommand
  <2> QED BY <2>1, <2>3, <2>4, <2>5, <2>6, <2>7 DEF GateInv
<1>4. CASE Submit_ShowCpu(command)
  <2>1. /\ failures' \in 0 .. MaxFailures /\ lockedUntil' \in Nat
        /\ lastFailure' \in Nat \cup {NONE}
        /\ LockInv'
    BY <1>4, AuthenticatedStep DEF Submit_ShowCpu, Accepted, GateInv
  <2>2. /\ UNCHANGED <<clockVars, confirmVars, helperVars, lastKill>> /\ Ready
        /\ Audited(command.kind, "done")
    BY <1>4 DEF Submit_ShowCpu
  <2>3. outcome' = "done" /\ events' \in 0 .. 1 BY <2>2, AuditedStep
  <2>4. TypeOK'
    <3>1. lastEvent' \in {NoEvent} \cup
            [kind : Kinds, actor : {"did", "operator"}, hash : {{}} \cup {{p} : p \in EvrusPolicy}]
      BY <2>2, RefusedEvent DEF GateInv
    <3>2. /\ pending' \in Pids \cup {NONE} /\ typed' \in Pids \cup {NONE}
          /\ freshTyping' \in BOOLEAN /\ lastKill' \in Nat \cup {NONE}
      BY <2>2 DEF GateInv, TypeOK, confirmVars
    <3> QED BY <2>1, <2>2, <2>3, <3>1, <3>2, TypeFrame DEF GateInv
  <2>5. ConfirmInv' BY <2>2 DEF GateInv, ConfirmInv, confirmVars
  <2>6. RequestInv' BY <2>2, RequestFrame DEF GateInv, clockVars
  <2>7. CooldownInv' BY <2>2, CooldownFrame DEF GateInv
  <2>8. EventInv' BY <2>2, <2>3, EventReady DEF GateInv, clockVars
  <2> QED BY <2>1, <2>4, <2>5, <2>6, <2>7, <2>8 DEF GateInv
<1>5. CASE Submit_Inline(command) \/ Submit_ShowOther(command)
  <2>1. /\ failures' \in 0 .. MaxFailures /\ lockedUntil' \in Nat
        /\ lastFailure' \in Nat \cup {NONE}
        /\ LockInv'
    <3>1. CASE Submit_Inline(command)
      BY <3>1, LockFrame DEF Submit_Inline, GateInv, TypeOK, authVars
    <3>2. CASE Submit_ShowOther(command)
      BY <3>2, AuthenticatedStep DEF Submit_ShowOther, Accepted, GateInv
    <3> QED BY <1>5, <3>1, <3>2
  <2>2. /\ UNCHANGED <<clockVars, confirmVars, helperVars, lastEvent, lastKill>> /\ Ready
        /\ outcome' = "shown" /\ events' = 0
    BY <1>5 DEF Submit_Inline, Submit_ShowOther
  <2>3. TypeOK'
    <3>1. /\ pending' \in Pids \cup {NONE} /\ typed' \in Pids \cup {NONE}
          /\ freshTyping' \in BOOLEAN /\ lastKill' \in Nat \cup {NONE}
          /\ lastEvent' \in {NoEvent} \cup
            [kind : Kinds, actor : {"did", "operator"}, hash : {{}} \cup {{p} : p \in EvrusPolicy}]
      BY <2>2 DEF GateInv, TypeOK, confirmVars
    <3> QED BY <2>1, <2>2, <3>1, TypeFrame DEF GateInv
  <2>4. ConfirmInv' BY <2>2 DEF GateInv, ConfirmInv, confirmVars
  <2>5. RequestInv' BY <2>2, RequestFrame DEF GateInv, clockVars
  <2>6. CooldownInv' BY <2>2, CooldownFrame DEF GateInv
  <2>7. EventInv' BY <2>2, EventReady DEF GateInv, clockVars
  <2> QED BY <2>1, <2>3, <2>4, <2>5, <2>6, <2>7 DEF GateInv
<1> QED BY <1>1, <1>2, <1>3, <1>4, <1>5

(* A kill is confirmed. *)
LEMMA ConfirmKillStep ==
  ASSUME GateInv, Confirm_Kill
  PROVE  GateInv'
<1>1. /\ failures' \in 0 .. MaxFailures /\ lockedUntil' \in Nat
      /\ lastFailure' \in Nat \cup {NONE}
      /\ LockInv'
  BY AuthenticatedStep DEF Confirm_Kill, Accepted, GateInv
<1>2. /\ UNCHANGED <<clockVars, lastKill, lastEffect, lastEvent>>
      /\ Ready /\ pending # NONE
      /\ request' = [kind |-> "kill_process", pid |-> pending] /\ result' = FALSE
      /\ helper' = IF helper = "dead" THEN "dead" ELSE "received"
      /\ outcome' = "sent" /\ events' = 0
      /\ Permitted("kill_process") /\ ~InCooldown("kill_process")
      /\ pending' = NONE /\ typed' = NONE /\ freshTyping' = FALSE
  BY DEF Confirm_Kill, Send, Accepted, PolicyAccepts, Forget
<1>3. request' \in Command /\ request' # NoCommand
  BY <1>2 DEF GateInv, TypeOK, Command, Kinds, NoCommand
<1>4. TypeOK'
  <2>1. helper' \in {"received", "dead"} BY <1>2
  <2> QED BY <1>1, <1>2, <1>3, <2>1, SendFrame DEF GateInv
<1>5. ConfirmInv' BY <1>2 DEF ConfirmInv
<1>6. RequestInv'
  <2>1. Permitted("kill_process")' BY <1>2 DEF Permitted, clockVars
  <2> QED BY <1>2, <1>3, <2>1 DEF RequestInv, Ready
<1>7. CooldownInv'
  <2>1. lastKill = NONE \/ now - lastKill >= Cooldown
    BY <1>2, GateConstants DEF InCooldown, GateInv, TypeOK
  <2>2. helper = "idle" \/ helper = "dead"
    BY <1>2 DEF GateInv, RequestInv, TypeOK
  <2>3. helper = "idle" => lastEffect = NONE \/ (lastKill # NONE /\ lastEffect <= lastKill)
    BY DEF GateInv, CooldownInv
  <2> QED
    BY <1>2, <2>1, <2>2, <2>3, GateConstants DEF GateInv, CooldownInv, TypeOK, clockVars
<1>8. EventInv' BY <1>2, <1>3 DEF EventInv, Ready
<1> QED BY <1>1, <1>4, <1>5, <1>6, <1>7, <1>8 DEF GateInv

(* The prompt is typed into, left, answered wrongly or refused. *)
LEMMA PromptStep ==
  ASSUME GateInv,
         (\E pid \in Pids : Type(pid)) \/ Cancel \/ Confirm_Mismatch \/ Confirm_Refused
  PROVE  GateInv'
<1>1. CASE \E pid \in Pids : Type(pid)
  <2>1. PICK pid \in Pids : Type(pid) BY <1>1
  <2>2. /\ UNCHANGED <<clockVars, authVars, pending, helperVars, trailVars, lastKill>>
        /\ typed' = pid /\ freshTyping' = TRUE
    BY <2>1 DEF Type
  <2>3. TypeOK' BY <2>2, TypeFrame DEF GateInv, TypeOK, authVars, trailVars
  <2>4. ConfirmInv' BY <2>2 DEF ConfirmInv
  <2>5. LockInv' BY <2>2, LockFrame DEF GateInv
  <2>6. RequestInv' BY <2>2, RequestFrame DEF GateInv, clockVars
  <2>7. CooldownInv' BY <2>2, CooldownFrame DEF GateInv
  <2>8. EventInv' BY <2>2, EventFrame DEF GateInv, clockVars
  <2> QED BY <2>3, <2>4, <2>5, <2>6, <2>7, <2>8 DEF GateInv
<1>2. CASE Cancel \/ Confirm_Mismatch
  <2>1. /\ UNCHANGED <<clockVars, authVars, helperVars, lastEvent, lastKill>>
        /\ Ready /\ outcome' \in {"canceled", "mismatch"} /\ events' = 0
        /\ \/ pending' = NONE /\ typed' = NONE /\ freshTyping' = FALSE
           \/ UNCHANGED confirmVars
    BY <1>2 DEF Cancel, Confirm_Mismatch, Forget
  <2>2. TypeOK'
    <3>1. /\ failures' \in 0 .. MaxFailures /\ lockedUntil' \in Nat
          /\ lastFailure' \in Nat \cup {NONE} /\ lastKill' \in Nat \cup {NONE}
          /\ lastEvent' \in {NoEvent} \cup
            [kind : Kinds, actor : {"did", "operator"}, hash : {{}} \cup {{p} : p \in EvrusPolicy}]
      BY <2>1 DEF GateInv, TypeOK, authVars
    <3>2. /\ pending' \in Pids \cup {NONE} /\ typed' \in Pids \cup {NONE}
          /\ freshTyping' \in BOOLEAN
      BY <2>1 DEF GateInv, TypeOK, confirmVars
    <3> QED BY <2>1, <3>1, <3>2, TypeFrame DEF GateInv
  <2>3. ConfirmInv' BY <2>1 DEF GateInv, ConfirmInv, confirmVars
  <2>4. LockInv' BY <2>1, LockFrame DEF GateInv
  <2>5. RequestInv' BY <2>1, RequestFrame DEF GateInv, clockVars
  <2>6. CooldownInv' BY <2>1, CooldownFrame DEF GateInv
  <2>7. EventInv' BY <2>1, EventReady DEF GateInv, clockVars
  <2> QED BY <2>2, <2>3, <2>4, <2>5, <2>6, <2>7 DEF GateInv
<1>3. CASE Confirm_Refused
  <2>1. /\ Refused("kill_process") /\ Ready
        /\ UNCHANGED <<clockVars, helperVars, lastKill>>
        /\ pending' = NONE /\ typed' = NONE /\ freshTyping' = FALSE
    BY <1>3 DEF Confirm_Refused, Forget
  <2>2. "kill_process" \in Kinds BY DEF Kinds
  <2>3. /\ failures' \in 0 .. MaxFailures /\ lockedUntil' \in Nat
        /\ lastFailure' \in Nat \cup {NONE}
        /\ LockInv' /\ outcome' = "refused" /\ events' \in 0 .. 1
    BY <2>1, <2>2, RefusedStep DEF GateInv
  <2>4. TypeOK'
    <3>1. lastEvent' \in {NoEvent} \cup
            [kind : Kinds, actor : {"did", "operator"}, hash : {{}} \cup {{p} : p \in EvrusPolicy}]
      BY <2>1, <2>2, RefusedAudited, RefusedEvent DEF GateInv
    <3>2. lastKill' \in Nat \cup {NONE} BY <2>1 DEF GateInv, TypeOK
    <3> QED BY <2>1, <2>3, <3>1, <3>2, TypeFrame DEF GateInv
  <2>5. ConfirmInv' BY <2>1 DEF ConfirmInv
  <2>6. RequestInv' BY <2>1, RequestFrame DEF GateInv, clockVars
  <2>7. CooldownInv' BY <2>1, CooldownFrame DEF GateInv
  <2>8. EventInv' BY <2>1, <2>3, EventReady DEF GateInv, clockVars
  <2> QED BY <2>3, <2>4, <2>5, <2>6, <2>7, <2>8 DEF GateInv
<1> QED BY <1>1, <1>2, <1>3

(* The helper acts, writes its event, dies. *)
LEMMA HelperStep ==
  ASSUME GateInv,
         Helper_RejectPeer \/ Helper_Handle \/ Helper_Audit \/ Helper_Dies
  PROVE  GateInv'
<1>1. /\ UNCHANGED <<clockVars, authVars, confirmVars, request, outcome, lastKill>>
      /\ helper' \in {"handled", "answering", "dead"}
  BY DEF Helper_RejectPeer, Helper_Handle, Helper_Audit, Helper_Dies, trailVars
<1>2. LockInv' BY <1>1, LockFrame DEF GateInv
<1>3. ConfirmInv' BY <1>1 DEF GateInv, ConfirmInv, confirmVars
<1>4. /\ result' \in BOOLEAN /\ lastEffect' \in Nat \cup {NONE}
      /\ lastEvent' \in {NoEvent} \cup
            [kind : Kinds, actor : {"did", "operator"}, hash : {{}} \cup {{p} : p \in EvrusPolicy}]
      /\ events' \in 0 .. 1
  <2>1. CASE Helper_Audit
    <3>1. request.kind \in Kinds
      BY <2>1 DEF Helper_Audit, GateInv, RequestInv, Kinds
    <3>2. PICK lost \in {FALSE, AppendMayFail} :
            /\ lastEvent' = IF lost THEN lastEvent
                            ELSE [kind |-> request.kind, actor |-> "operator", hash |-> {}]
            /\ events' = IF lost THEN events ELSE events + 1
      BY <2>1 DEF Helper_Audit, AppendEvent
    <3>3. events = 0 BY <2>1 DEF Helper_Audit, GateInv, EventInv
    <3>4. [kind |-> request.kind, actor |-> "operator", hash |-> {}] \in
            [kind : Kinds, actor : {"did", "operator"}, hash : {{}} \cup {{p} : p \in EvrusPolicy}]
      BY <3>1
    <3>5. UNCHANGED <<result, lastEffect>> BY <2>1 DEF Helper_Audit
    <3> QED BY <3>2, <3>3, <3>4, <3>5 DEF GateInv, TypeOK
  <2>2. CASE Helper_RejectPeer \/ Helper_Dies
    BY <2>2 DEF Helper_RejectPeer, Helper_Dies, trailVars, GateInv, TypeOK
  <2>3. CASE Helper_Handle
    BY <2>3 DEF Helper_Handle, trailVars, GateInv, TypeOK, RequestInv, HelperAllows
  <2> QED BY <2>1, <2>2, <2>3
<1>5. TypeOK'
  BY <1>1, <1>4 DEF GateInv, TypeOK, clockVars, authVars, confirmVars
<1>6. RequestInv'
  <2>1. UNCHANGED <<config, request>> BY <1>1 DEF clockVars
  <2>2. CASE Helper_RejectPeer
    <3>1. result = FALSE BY <2>2 DEF GateInv, Helper_RejectPeer, RequestInv
    <3> QED BY <2>1, <2>2, <3>1 DEF Helper_RejectPeer, GateInv, RequestInv, Permitted, Ready
  <2>3. CASE Helper_Handle
    BY <2>1, <2>3 DEF Helper_Handle, GateInv, RequestInv, Permitted, Ready, HelperAllows
  <2>4. CASE Helper_Audit
    BY <2>1, <2>4 DEF Helper_Audit, GateInv, RequestInv, Permitted, Ready, HelperAllows
  <2>5. CASE Helper_Dies
    BY <2>1, <2>5 DEF Helper_Dies, GateInv, RequestInv, Permitted, Ready
  <2> QED BY <2>2, <2>3, <2>4, <2>5
<1>7. CooldownInv'
  <2>1. UNCHANGED <<now, request, lastKill>> /\ now \in Nat
    BY <1>1, GateConstants DEF clockVars, GateInv, TypeOK
  <2>2. CASE Helper_Handle
    BY <2>1, <2>2 DEF Helper_Handle, GateInv, CooldownInv
  <2>3. CASE Helper_RejectPeer \/ Helper_Audit \/ Helper_Dies
    BY <2>1, <2>3 DEF Helper_RejectPeer, Helper_Audit, Helper_Dies, GateInv, CooldownInv
  <2> QED BY <2>2, <2>3
<1>8. EventInv'
  <2>1. UNCHANGED <<config, request, outcome>> BY <1>1 DEF clockVars
  <2>2. CASE Helper_RejectPeer
    BY <2>1, <2>2 DEF Helper_RejectPeer, trailVars, GateInv, EventInv, Ready
  <2>3. CASE Helper_Handle
    BY <2>1, <2>3 DEF Helper_Handle, trailVars, GateInv, EventInv, Ready
  <2>4. CASE Helper_Audit
    <3>1. events = 0 /\ config.peer /\ helper' = "answering"
      BY <2>4 DEF Helper_Audit, GateInv, EventInv, RequestInv
    <3>2. ~AppendMayFail => events' = 1
      <4>1. PICK lost \in {FALSE, AppendMayFail} : events' = IF lost THEN events ELSE events + 1
        BY <2>4 DEF Helper_Audit, AppendEvent
      <4>2. ~AppendMayFail => ~lost BY <4>1, GateConstants
      <4> QED BY <3>1, <4>1, <4>2
    <3> QED BY <2>1, <3>1, <3>2 DEF GateInv, EventInv, Ready
  <2>5. CASE Helper_Dies
    BY <2>1, <2>5 DEF Helper_Dies, trailVars, GateInv, EventInv, Ready
  <2> QED BY <2>2, <2>3, <2>4, <2>5
<1> QED BY <1>2, <1>3, <1>5, <1>6, <1>7, <1>8 DEF GateInv

(* The UI gets its answer, or an error. *)
LEMMA AnswerStep ==
  ASSUME GateInv, Reply \/ HelperError
  PROVE  GateInv'
<1>1. /\ UNCHANGED <<clockVars, authVars, confirmVars, result, lastEffect, lastEvent, events>>
      /\ helper' \in {"idle", "dead"} /\ request' = NoCommand
      /\ outcome' \in {"replied", "error"}
      /\ lastKill' = IF request.kind = "kill_process" THEN now ELSE lastKill
  BY DEF Reply, HelperError, StartCooldown
<1>2. now \in Nat BY GateConstants DEF GateInv, TypeOK
<1>3. TypeOK' BY <1>1, <1>2 DEF GateInv, TypeOK, clockVars, authVars, confirmVars
<1>4. LockInv' BY <1>1, LockFrame DEF GateInv
<1>5. ConfirmInv' BY <1>1 DEF GateInv, ConfirmInv, confirmVars
<1>6. RequestInv' BY <1>1 DEF RequestInv, Ready
<1>7. CooldownInv'
  <2>1. helper' = "idle" => helper = "answering" BY DEF Reply, HelperError
  <2>2. UNCHANGED <<now, lastEffect>> BY <1>1 DEF clockVars
  <2>3. lastKill # NONE => lastKill <= now BY DEF GateInv, CooldownInv
  <2>4. lastEffect # NONE => lastEffect <= now BY DEF GateInv, CooldownInv
  <2>5. now # NONE BY <1>2, GateConstants
  <2>6. lastKill' # NONE => lastKill' <= now' BY <1>1, <1>2, <2>2, <2>3
  <2>7. CASE request.kind = "kill_process"
    <3>1. lastKill' = now BY <1>1, <2>7
    <3> QED BY <1>1, <2>2, <2>4, <2>5, <2>6, <3>1 DEF CooldownInv
  <2>8. CASE request.kind # "kill_process"
    <3>1. lastKill' = lastKill BY <1>1, <2>8
    <3>2. \/ lastEffect = NONE
          \/ lastKill # NONE /\ lastEffect <= lastKill
          \/ helper = "dead"
      BY <2>8 DEF GateInv, CooldownInv
    <3>3. helper = "dead" => helper' = "dead" BY DEF Reply, HelperError
    <3> QED BY <1>1, <2>2, <2>4, <2>6, <3>1, <3>2, <3>3 DEF CooldownInv
  <2> QED BY <2>7, <2>8
<1>8. EventInv' BY <1>1 DEF EventInv, Ready
<1> QED BY <1>3, <1>4, <1>5, <1>6, <1>7, <1>8 DEF GateInv

(* Time passes. *)
LEMMA ClockStep ==
  ASSUME GateInv, Tick \/ FirstSnapshot
  PROVE  GateInv'
<1>1. /\ UNCHANGED <<config, authVars, confirmVars, helperVars, trailVars, lastKill>>
      /\ now' = now \/ (now' = now + 1 /\ now < MaxTime)
      /\ sampled' \in BOOLEAN
  <2>1. sampled \in BOOLEAN BY DEF GateInv, TypeOK
  <2>2. CASE Tick BY <2>1, <2>2 DEF Tick
  <2>3. CASE FirstSnapshot BY <2>3 DEF FirstSnapshot
  <2> QED BY <2>2, <2>3
<1>2. now \in Nat BY GateConstants DEF GateInv, TypeOK
<1>3. TypeOK'
  BY <1>1, <1>2, GateConstants
     DEF GateInv, TypeOK, authVars, confirmVars, helperVars, trailVars
<1>4. LockInv' BY <1>1, LockFrame DEF GateInv
<1>5. ConfirmInv' BY <1>1 DEF GateInv, ConfirmInv, confirmVars
<1>6. RequestInv' BY <1>1, RequestFrame DEF GateInv
<1>7. CooldownInv'
  BY <1>1, <1>2, GateConstants DEF GateInv, CooldownInv, helperVars, TypeOK
<1>8. EventInv' BY <1>1, EventFrame DEF GateInv
<1> QED BY <1>3, <1>4, <1>5, <1>6, <1>7, <1>8 DEF GateInv

(* Nothing happens. *)
LEMMA StutterStep ==
  ASSUME GateInv, UNCHANGED vars
  PROVE  GateInv'
<1>1. /\ UNCHANGED <<clockVars, authVars, confirmVars, helperVars, trailVars, lastKill>>
      /\ UNCHANGED config
  BY DEF vars, clockVars
<1>2. TypeOK'
  BY <1>1 DEF GateInv, TypeOK, clockVars, authVars, confirmVars, helperVars, trailVars
<1>3. LockInv' BY <1>1, LockFrame DEF GateInv
<1>4. ConfirmInv' BY <1>1 DEF GateInv, ConfirmInv, confirmVars
<1>5. RequestInv' BY <1>1, RequestFrame DEF GateInv
<1>6. CooldownInv' BY <1>1, CooldownFrame DEF GateInv
<1>7. EventInv' BY <1>1, EventFrame DEF GateInv
<1> QED BY <1>2, <1>3, <1>4, <1>5, <1>6, <1>7 DEF GateInv

(* Every step keeps the invariant. *)
LEMMA GateStep ==
  ASSUME GateInv, [Next]_vars
  PROVE  GateInv'
BY SubmitStep, PromptStep, ConfirmKillStep, HelperStep, AnswerStep, ClockStep, StutterStep
   DEF Next, Submit, Prompt, Confirm, Answer

(* The invariant holds at the start. *)
LEMMA GateInit ==
  ASSUME Init
  PROVE  GateInv
<1>1. TypeOK
  <2>1. now \in 0 .. MaxTime /\ failures \in 0 .. MaxFailures /\ lockedUntil \in Nat
    BY GateConstants DEF Init
  <2>2. /\ pending \in Pids \cup {NONE} /\ typed \in Pids \cup {NONE}
        /\ lastKill \in Nat \cup {NONE} /\ lastFailure \in Nat \cup {NONE}
        /\ lastEffect \in Nat \cup {NONE}
    BY DEF Init
  <2>3. request \in Command \cup {NoCommand} BY DEF Init
  <2>4. lastEvent \in {NoEvent} \cup
          [kind : Kinds, actor : {"did", "operator"}, hash : {{}} \cup {{p} : p \in EvrusPolicy}]
    BY DEF Init
  <2>5. config \in Configs /\ sampled \in BOOLEAN /\ freshTyping \in BOOLEAN BY DEF Init
  <2>6. /\ helper \in {"idle", "received", "handled", "answering", "dead"}
        /\ outcome \in {"none", "refused", "confirm", "canceled", "mismatch", "sent",
                        "done", "replied", "error"}
    BY DEF Init
  <2>7. result \in BOOLEAN BY DEF Init
  <2>8. events \in 0 .. 1 BY DEF Init
  <2> QED BY <2>1, <2>2, <2>3, <2>4, <2>5, <2>6, <2>7, <2>8 DEF TypeOK
<1>2. LockInv /\ ConfirmInv BY DEF Init, LockInv, ConfirmInv
<1>3. RequestInv BY DEF Init, RequestInv, Ready
<1>4. CooldownInv BY DEF Init, CooldownInv
<1>5. EventInv BY DEF Init, EventInv, Ready
<1> QED BY <1>1, <1>2, <1>3, <1>4, <1>5 DEF GateInv

(* Every reachable state of the dashboard and its helper satisfies GateInv: *)
(* the lock is the last failure's, the confirmation is fresh, the request   *)
(* under way is the permitted one, and no signal is forgotten.              *)
THEOREM GateInductive == Spec => []GateInv
<1>1. Init => GateInv BY GateInit
<1>2. GateInv /\ [Next]_vars => GateInv' BY GateStep
<1> QED BY <1>1, <1>2, PTL DEF Spec

-----------------------------------------------------------------------------
(* The properties *)

(* What the helper carries out is permitted by the role and mode, by the    *)
(* EVRUS policy and by the helper's own capabilities and peer check,        *)
(* whatever the configuration.                                              *)
THEOREM EffectsAuthorisedHolds == Spec => []EffectsAuthorised
<1>1. GateInv => EffectsAuthorised
  <2> SUFFICES ASSUME GateInv, helper \in {"handled", "answering"}, result
               PROVE  /\ config.privileged /\ config.peer /\ request.pid > 1
                      /\ request.kind = "kill_process" => config.role = "admin"
                      /\ config.role # "viewer" /\ ~(config.role = "admin" /\ config.mode = "token")
                      /\ \A p \in config.policy :
                           p.action \in {request.kind, "*"} =>
                             ~p.hostDenied /\ (p.roles # {} => config.role \in p.roles)
    BY DEF EffectsAuthorised
  <2>1. /\ request.kind \in {"kill_process", "renice_process"}
        /\ Permitted(request.kind) /\ HelperAllows(request) /\ config.peer
    BY DEF GateInv, RequestInv
  <2>2. Allows(config.mode, config.role, Permission(request.kind)) BY <2>1 DEF Permitted
  <2>3. /\ request.kind = "kill_process" => config.role = "admin"
        /\ config.role # "viewer" /\ ~(config.role = "admin" /\ config.mode = "token")
    BY <2>1, <2>2 DEF Allows, Permission
  <2>4. ASSUME NEW p \in config.policy, p.action \in {request.kind, "*"}
        PROVE  ~p.hostDenied /\ (p.roles # {} => config.role \in p.roles)
    <3>1. EvrusAccepts(config.role, request.kind, p) BY <2>1 DEF Permitted
    <3>2. PolicyAction(request.kind) = request.kind BY <2>1 DEF PolicyAction
    <3> QED BY <2>4, <3>1, <3>2 DEF EvrusAccepts
  <2> QED BY <2>1, <2>3, <2>4 DEF HelperAllows
<1> QED BY <1>1, GateInductive, PTL

(* Signals are at least the cooldown apart where the helper sends them,     *)
(* although the UI takes the time before and after the request, and even    *)
(* if the helper dies.                                                      *)
THEOREM SignalsSpacedHolds == Spec => SignalsSpaced
<1>1. GateInv /\ [Next]_vars =>
        [KillSignalled /\ lastEffect # NONE => now - lastEffect >= Cooldown]_vars
  BY DEF GateInv, CooldownInv, KillSignalled
<1> QED BY <1>1, GateInductive, PTL DEF Spec, SignalsSpaced

(* A kill request needs a confirmation typed after the last kill request    *)
(* and the last cancellation.                                               *)
THEOREM KillsConfirmedHolds == Spec => KillsConfirmed
<1>1. ASSUME GateInv, Next, request' # request, request'.kind = "kill_process"
      PROVE  freshTyping
  <2>1. CASE Submit
    <3>1. PICK command \in Command :
            \/ Submit_Inline(command) \/ Submit_Refused(command) \/ Submit_Kill(command)
            \/ Submit_Renice(command) \/ Submit_ShowCpu(command) \/ Submit_ShowOther(command)
      BY <2>1 DEF Submit
    <3> QED
      BY <1>1, <3>1
         DEF Submit_Inline, Submit_Refused, Submit_Kill, Submit_Renice, Submit_ShowCpu,
             Submit_ShowOther, Send, helperVars
  <2>2. CASE Prompt
    BY <1>1, <2>2
       DEF Prompt, Type, Cancel, Confirm_Mismatch, Confirm, Confirm_Refused, Confirm_Kill,
           helperVars, GateInv, ConfirmInv
  <2>3. CASE Answer \/ Helper_Dies
    BY <1>1, <2>3
       DEF Answer, Helper_RejectPeer, Helper_Handle, Helper_Audit, Reply, HelperError,
           Helper_Dies, NoCommand
  <2>4. CASE Tick \/ FirstSnapshot
    BY <1>1, <2>4 DEF Tick, FirstSnapshot, helperVars
  <2> QED BY <1>1, <2>1, <2>2, <2>3, <2>4 DEF Next
<1>2. GateInv /\ [Next]_vars =>
        [request' # request /\ request'.kind = "kill_process" => freshTyping]_vars
  BY <1>1
<1> QED BY <1>2, GateInductive, PTL DEF Spec, KillsConfirmed

(* After three or more failures in a row the next token check comes no      *)
(* earlier than the backoff the failures call for.                          *)
THEOREM LockoutBacksOffHolds == Spec => LockoutBacksOff
<1> DEFINE Backed == \/ now - lastFailure >= LockMax
                     \/ now - lastFailure >= (failures - 2) * LockStep
<1>1. ASSUME GateInv, Next, failures' # failures, failures >= 3
      PROVE  Backed
  <2>1. ~Locked
    <3>1. CASE Submit
      BY <1>1, <3>1
         DEF Submit, Submit_Inline, Submit_Refused, Submit_Kill, Submit_Renice, Submit_ShowCpu,
             Submit_ShowOther, Refused,
             Refused_Locked, Refused_Token, Refused_Policy, Accepted, Authenticated, authVars
    <3>2. CASE Prompt
      BY <1>1, <3>2
         DEF Prompt, Type, Cancel, Confirm_Mismatch, Confirm, Confirm_Refused, Confirm_Kill, Refused,
             Refused_Locked, Refused_Token, Refused_Policy, Accepted, Authenticated, authVars
    <3>3. CASE Answer \/ Helper_Dies \/ Tick \/ FirstSnapshot
      BY <1>1, <3>3
         DEF Answer, Helper_RejectPeer, Helper_Handle, Helper_Audit, Reply, HelperError,
             Helper_Dies, Tick, FirstSnapshot, authVars
    <3> QED BY <1>1, <3>1, <3>2, <3>3 DEF Next
  <2>2. /\ now \in Nat /\ lastFailure \in Nat
        /\ lockedUntil = lastFailure + LockSeconds(failures)
    BY <1>1, GateConstants DEF GateInv, TypeOK, LockInv
  <2>3. LockSeconds(failures) \in Nat
    BY <1>1, LockSecondsNat, GateConstants DEF GateInv, TypeOK
  <2>4. now - lastFailure >= LockSeconds(failures)
    BY <2>1, <2>2, <2>3 DEF Locked, GateInv, TypeOK
  <2> QED BY <2>4 DEF LockSeconds
<1>2. GateInv /\ [Next]_vars => [failures' # failures /\ failures >= 3 => Backed]_vars
  BY <1>1
<1> QED BY <1>2, GateInductive, PTL DEF Spec, LockoutBacksOff

-----------------------------------------------------------------------------
(* The second check *)

(* A command of the palette makes a kill pending only when the gate accepts *)
(* it, and only the token mode counts failures.                            *)
LEMMA GateKeepsPending ==
  ASSUME TypeOK, PendingInv, NEW kind, Refused(kind) \/ Accepted(kind), UNCHANGED config
  PROVE  config'.mode # "token" => failures' = 0 /\ lockedUntil' = 0
<1>1. config.mode # "token" => \A typedRight \in BOOLEAN : Authenticates(typedRight)
  BY DEF Authenticates, TokenAccepted
<1> QED
  BY <1>1 DEF PendingInv, Refused, Refused_Locked, Refused_Token, Refused_Policy, Accepted,
              Authenticated, authVars

(* A kill that waits for its confirmation was allowed when it was asked for. *)
LEMMA PendingStep ==
  ASSUME GateInv, PendingInv, [Next]_vars
  PROVE  PendingInv'
<1> DEFINE Kept == pending' # NONE =>
             PolicyAccepts("kill_process")' /\ (~Ready' => request'.kind # "kill_process")
           Unlocked == config'.mode # "token" => failures' = 0 /\ lockedUntil' = 0
<1>1. ASSUME UNCHANGED <<config, now, lastKill>>
      PROVE  PolicyAccepts("kill_process")' = PolicyAccepts("kill_process")
  BY <1>1 DEF PolicyAccepts, Permitted, InCooldown
<1>2. CASE Submit
  <2>1. PICK command \in Command :
          \/ Submit_Inline(command) \/ Submit_Refused(command) \/ Submit_Kill(command)
          \/ Submit_Renice(command) \/ Submit_ShowCpu(command) \/ Submit_ShowOther(command)
    BY <1>2 DEF Submit
  <2>2. /\ UNCHANGED <<clockVars, lastKill>>
        /\ UNCHANGED authVars \/ Refused(command.kind) \/ Accepted(command.kind)
    BY <2>1 DEF Submit_Inline, Submit_Refused, Submit_Kill, Submit_Renice, Submit_ShowCpu,
                Submit_ShowOther
  <2>3. Unlocked
    <3>1. CASE UNCHANGED authVars BY <2>2, <3>1 DEF PendingInv, authVars, clockVars
    <3>2. CASE Refused(command.kind) \/ Accepted(command.kind)
      BY <2>2, <3>2, GateKeepsPending DEF GateInv, clockVars
    <3> QED BY <2>2, <3>1, <3>2
  <2>4. Kept
    <3>1. CASE Submit_Kill(command)
      BY <1>1, <2>2, <3>1 DEF Submit_Kill, Accepted, clockVars, helperVars, Ready
    <3>2. CASE Submit_Renice(command)
      BY <1>1, <2>2, <3>2 DEF Submit_Renice, Send, PendingInv, clockVars, confirmVars
    <3>3. CASE Submit_Inline(command) \/ Submit_Refused(command)
               \/ Submit_ShowCpu(command) \/ Submit_ShowOther(command)
      BY <1>1, <2>2, <3>3
         DEF Submit_Inline, Submit_Refused, Submit_ShowCpu, Submit_ShowOther, PendingInv,
             clockVars, confirmVars, helperVars, Ready
    <3> QED BY <2>1, <3>1, <3>2, <3>3
  <2> QED BY <2>3, <2>4 DEF PendingInv
<1>3. CASE Prompt
  <2>1. UNCHANGED <<clockVars, lastKill>>
    BY <1>3 DEF Prompt, Type, Cancel, Confirm_Mismatch, Confirm, Confirm_Refused, Confirm_Kill
  <2>2. CASE Confirm
    <3>1. pending' = NONE /\ (Refused("kill_process") \/ Accepted("kill_process"))
      BY <2>2 DEF Confirm, Confirm_Refused, Confirm_Kill, Forget
    <3>2. Unlocked BY <2>1, <3>1, GateKeepsPending DEF GateInv, clockVars
    <3> QED BY <3>1, <3>2 DEF PendingInv
  <2>3. CASE ~Confirm
    <3>1. UNCHANGED <<authVars, helperVars>> /\ pending' \in {pending, NONE}
      BY <1>3, <2>3 DEF Prompt, Type, Cancel, Confirm_Mismatch, Forget, confirmVars
    <3> QED BY <1>1, <2>1, <3>1 DEF PendingInv, clockVars, authVars, helperVars, Ready
  <2> QED BY <2>2, <2>3
<1>4. CASE Answer \/ Helper_Dies
  <2>1. /\ UNCHANGED <<clockVars, authVars, pending>>
        /\ \/ UNCHANGED <<request, lastKill>>
           \/ request' = NoCommand /\ (request.kind # "kill_process" => UNCHANGED lastKill)
    BY <1>4 DEF Answer, Helper_RejectPeer, Helper_Handle, Helper_Audit, Reply, HelperError,
                Helper_Dies, StartCooldown, confirmVars
  <2>2. CASE UNCHANGED <<request, lastKill>>
    BY <1>1, <2>1, <2>2 DEF PendingInv, clockVars, authVars, Ready
  <2>3. CASE request' = NoCommand /\ ~Ready /\ (request.kind # "kill_process" => UNCHANGED lastKill)
    BY <1>1, <2>1, <2>3 DEF PendingInv, clockVars, authVars, Ready
  <2>4. CASE request' = NoCommand /\ Ready /\ ~UNCHANGED <<request, lastKill>>
    BY <1>4, <2>4 DEF Answer, Helper_RejectPeer, Helper_Handle, Helper_Audit, Reply, HelperError,
                      Helper_Dies, Ready, GateInv, RequestInv
  <2> QED BY <2>1, <2>2, <2>3, <2>4
<1>5. CASE Tick
  <2>1. UNCHANGED <<config, authVars, confirmVars, helperVars, lastKill>> /\ now' = now + 1
    BY <1>5 DEF Tick
  <2>2. now \in Nat /\ lastKill \in Nat \cup {NONE} BY GateConstants DEF GateInv, TypeOK
  <2>3. ~InCooldown("kill_process") => ~InCooldown("kill_process")'
    BY <2>1, <2>2, GateConstants DEF InCooldown
  <2>4. Permitted("kill_process")' = Permitted("kill_process") BY <2>1 DEF Permitted
  <2> QED
    BY <2>1, <2>3, <2>4 DEF PendingInv, PolicyAccepts, authVars, confirmVars, helperVars, Ready
<1>6. CASE FirstSnapshot \/ UNCHANGED vars
  <2>1. UNCHANGED <<config, now, authVars, confirmVars, helperVars, lastKill>>
    BY <1>6 DEF FirstSnapshot, vars, clockVars
  <2> QED BY <1>1, <2>1 DEF PendingInv, authVars, confirmVars, helperVars, Ready
<1> QED BY <1>2, <1>3, <1>4, <1>5, <1>6 DEF Next

(* A kill that awaits its confirmation passes the second check, whatever    *)
(* came in between: token, lock, policy and cooldown accept it still.       *)
THEOREM ConfirmationStandsHolds == Spec => []ConfirmationStands
<1>1. Init => PendingInv BY DEF Init, PendingInv
<1>2. GateInv /\ PendingInv /\ [Next]_vars => PendingInv' BY PendingStep
<1>3. ASSUME GateInv, PendingInv PROVE ConfirmationStands
  <2> SUFFICES ASSUME pending # NONE
               PROVE  /\ ~Locked /\ PolicyAccepts("kill_process")
                      /\ \A typedRight \in BOOLEAN : Authenticates(typedRight)
    BY DEF ConfirmationStands
  <2>1. PolicyAccepts("kill_process") BY <1>3 DEF PendingInv
  <2>2. config.mode # "token"
    BY <2>1 DEF PolicyAccepts, Permitted, Allows, Permission
  <2>3. lockedUntil = 0 /\ now \in Nat BY <1>3, <2>2, GateConstants DEF PendingInv, GateInv, TypeOK
  <2> QED BY <2>1, <2>2, <2>3 DEF Locked, Authenticates, TokenAccepted
<1> QED BY <1>1, <1>2, <1>3, GateInductive, PTL DEF Spec

(* Where appends succeed, the dashboard's event carries identity and policy. *)
LEMMA AuditedAttributed ==
  ASSUME ~AppendMayFail, NEW kind, NEW becomes, Audited(kind, becomes), UNCHANGED config
  PROVE  Attributed'
<1>1. PICK lost \in {FALSE, AppendMayFail} :
        lastEvent' = IF lost THEN lastEvent
                     ELSE [kind |-> kind, actor |-> Actor, hash |-> config.policy]
  BY DEF Audited, AppendEvent
<1>2. ~lost BY <1>1
<1>3. lastEvent' = [kind |-> kind, actor |-> Actor, hash |-> config.policy] BY <1>1, <1>2
<1>4. Actor' = Actor BY DEF Actor
<1> QED BY <1>3, <1>4 DEF Attributed

(* Another event, or none, and the same configuration. *)
LEMMA AttributedFrame ==
  ASSUME Attributed, UNCHANGED <<config, lastEvent>>
  PROVE  Attributed'
BY DEF Attributed, Actor

(* If appends succeed, a refused, inline or answered command leaves exactly *)
(* one event, and a command that awaits confirmation none.                  *)
THEOREM OneEventPerOutcomeHolds ==
  ASSUME ~AppendMayFail
  PROVE  Spec => []OneEventPerOutcome
<1>1. Init => OneEventPerOutcome BY DEF Init, OneEventPerOutcome
<1>2. ASSUME GateInv, OneEventPerOutcome, [Next]_vars
      PROVE  OneEventPerOutcome'
  <2>1. CASE Submit
    <3>1. PICK command \in Command :
            \/ Submit_Inline(command) \/ Submit_Refused(command) \/ Submit_Kill(command)
            \/ Submit_Renice(command) \/ Submit_ShowCpu(command) \/ Submit_ShowOther(command)
      BY <2>1 DEF Submit
    <3>2. CASE Submit_Refused(command)
      <4>1. Audited(command.kind, "refused") /\ UNCHANGED config
        BY <3>2, RefusedAudited DEF Submit_Refused, clockVars
      <4> QED BY <4>1, AuditedStep, AuditedAttributed DEF OneEventPerOutcome
    <3>3. CASE Submit_Kill(command) BY <3>3 DEF Submit_Kill, OneEventPerOutcome
    <3>4. CASE Submit_Renice(command) BY <3>4 DEF Submit_Renice, Send, OneEventPerOutcome
    <3>5. CASE Submit_ShowCpu(command)
      <4>1. Audited(command.kind, "done") /\ UNCHANGED config BY <3>5 DEF Submit_ShowCpu, clockVars
      <4> QED BY <4>1, AuditedStep, AuditedAttributed DEF OneEventPerOutcome
    <3>6. CASE Submit_Inline(command) \/ Submit_ShowOther(command)
      BY <3>6 DEF Submit_Inline, Submit_ShowOther, OneEventPerOutcome
    <3> QED BY <3>1, <3>2, <3>3, <3>4, <3>5, <3>6
  <2>2. CASE Prompt
    <3>1. CASE \E pid \in Pids : Type(pid)
      BY <1>2, <3>1, AttributedFrame DEF Type, OneEventPerOutcome, trailVars, clockVars
    <3>2. CASE Cancel \/ Confirm_Mismatch
      BY <3>2 DEF Cancel, Confirm_Mismatch, OneEventPerOutcome
    <3>3. CASE Confirm_Refused
      <4>1. Audited("kill_process", "refused") /\ UNCHANGED config
        BY <3>3, RefusedAudited DEF Confirm_Refused, clockVars
      <4> QED BY <4>1, AuditedStep, AuditedAttributed DEF OneEventPerOutcome
    <3>4. CASE Confirm_Kill BY <3>4 DEF Confirm_Kill, Send, OneEventPerOutcome
    <3> QED BY <2>2, <3>1, <3>2, <3>3, <3>4 DEF Prompt, Confirm
  <2>3. CASE Helper_RejectPeer \/ Helper_Handle \/ Helper_Audit \/ Helper_Dies
    <3>1. helper # "dead" /\ UNCHANGED <<config, outcome>>
      BY <2>3 DEF Helper_RejectPeer, Helper_Handle, Helper_Audit, Helper_Dies, trailVars, clockVars
    <3>2. CASE Helper_Audit
      <4>1. outcome' = "sent" BY <1>2, <3>1, <3>2 DEF GateInv, RequestInv, EventInv, Helper_Audit
      <4> QED BY <4>1 DEF OneEventPerOutcome
    <3>3. CASE ~Helper_Audit
      <4>1. UNCHANGED <<events, lastEvent>>
        BY <2>3, <3>3 DEF Helper_RejectPeer, Helper_Handle, Helper_Dies, trailVars
      <4> QED BY <1>2, <3>1, <4>1, AttributedFrame DEF OneEventPerOutcome
    <3> QED BY <3>2, <3>3
  <2>4. CASE Reply
    BY <1>2, <2>4 DEF Reply, GateInv, EventInv, OneEventPerOutcome, clockVars
  <2>5. CASE HelperError BY <2>5 DEF HelperError, OneEventPerOutcome
  <2>6. CASE Tick \/ FirstSnapshot \/ UNCHANGED vars
    BY <1>2, <2>6, AttributedFrame
       DEF Tick, FirstSnapshot, vars, clockVars, trailVars, OneEventPerOutcome
  <2> QED BY <1>2, <2>1, <2>2, <2>3, <2>4, <2>5, <2>6 DEF Next, Answer
<1> QED BY <1>1, <1>2, GateInductive, PTL DEF Spec
=============================================================================
