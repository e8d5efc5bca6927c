---------------------------- MODULE CommandGate ----------------------------
(***************************************************************************)
(* The way of an operator command from the palette to its effect: token    *)
(* check with lockout, policy, typed confirmation, the request to the      *)
(* privileged helper, the helper's own checks, its audit event, its reply. *)
(* src/app/dashboard.rs, src/security/helper.rs; decisions in Policy.      *)
(*                                                                         *)
(* The UI thread handles one command at a time and waits in send_request   *)
(* without a timeout; meanwhile the clock and the helper go on.            *)
(***************************************************************************)
EXTENDS Policy

CONSTANTS
  Configs,        \* configurations the dashboard may be started with
  Pids,           \* process ids the operator names
  PidBits,        \* width of a process id (32)
  Group,          \* the process group of each running process
  Cooldown,       \* kill_cooldown (2 s)
  LockStep,       \* seconds of lockout added per failure (10)
  LockMax,        \* longest lockout (60)
  IssuedAt,       \* MANTICORE_AUTH_TOKEN_ISSUED_AT
  MaxAge,         \* token ttl plus grace
  MaxTime,        \* bound: the clock stops there
  MaxFailures,    \* bound: consecutive failed token checks
  HelperMayDie,   \* may the helper process die?
  AppendMayFail,  \* may the append to the audit trail fail (disk full)?
  NONE            \* no process, no time, no identity

Config ==
  [mode : Modes, role : Roles,
   privileged : BOOLEAN,    \* both helper capabilities, or none
   peer : BOOLEAN,          \* is the dashboard's uid the helper's allowed uid?
   policy : {{}} \cup {{p} : p \in EvrusPolicy},   \* at most one EVRUS policy
   did : {NONE, "did"}]                              \* identity in the JWT

ASSUME GateConstants ==
  /\ Configs \subseteq Config
  /\ Pids \subseteq Nat /\ PidBits \in Nat \ {0}
  /\ Cooldown \in Nat /\ LockStep \in Nat /\ LockMax \in Nat
  /\ IssuedAt \in Nat /\ MaxAge \in Nat /\ MaxTime \in Nat /\ MaxFailures \in Nat
  /\ HelperMayDie \in BOOLEAN /\ AppendMayFail \in BOOLEAN
  /\ NONE \notin Nat /\ NONE # "did"

VARIABLES
  config,       \* auth context, EVRUS policy, helper capabilities; never changes
  now,          \* seconds
  sampled,      \* has a first snapshot arrived (latest is Some)?
  failures,     \* auth_failures
  lockedUntil,  \* auth_locked_until; 0 for None
  pending,      \* pending_action: the pid to be killed, or NONE
  typed,        \* confirm_input: the pid after "KILL ", or NONE
  lastKill,     \* last_kill_at, or NONE
  request,      \* the command sent to the helper, while the UI waits
  helper,       \* what the helper does with it
  result,       \* did the helper's action succeed?
  lastEvent     \* the newest event of the audit trail

(* History, for the properties. *)
VARIABLES
  outcome,      \* what became of the last command
  events,       \* audit events appended since it was submitted
  freshTyping,  \* typed since the last kill request or cancellation?
  lastFailure,  \* time of the last failed token check
  lastEffect    \* time of the last signal the helper sent

clockVars == <<config, now, sampled>>
authVars == <<failures, lockedUntil, lastFailure>>
confirmVars == <<pending, typed, freshTyping>>
helperVars == <<request, helper, result, lastEffect>>
trailVars == <<lastEvent, outcome, events>>
vars == <<clockVars, authVars, confirmVars, helperVars, trailVars, lastKill>>

Command == [kind : Kinds, pid : Pids]
NoCommand == [kind |-> "none", pid |-> NONE]
NoEvent == [kind |-> "none", actor |-> NONE, hash |-> {}]

TypeOK ==
  /\ config \in Configs /\ now \in 0 .. MaxTime /\ sampled \in BOOLEAN
  /\ failures \in 0 .. MaxFailures /\ lockedUntil \in Nat
  /\ pending \in Pids \cup {NONE} /\ typed \in Pids \cup {NONE}
  /\ lastKill \in Nat \cup {NONE}
  /\ request \in Command \cup {NoCommand}
  /\ helper \in {"idle", "received", "handled", "answering", "dead"}
  /\ result \in BOOLEAN
  /\ lastEvent \in {NoEvent} \cup
       [kind : Kinds, actor : {"did", "operator"}, hash : {{}} \cup {{p} : p \in EvrusPolicy}]
  /\ outcome \in {"none", "shown", "refused", "confirm", "canceled", "mismatch", "sent",
                  "done", "replied", "error"}
  /\ events \in 0 .. 1 /\ freshTyping \in BOOLEAN
  /\ lastFailure \in Nat \cup {NONE} /\ lastEffect \in Nat \cup {NONE}

Init ==
  /\ config \in Configs /\ now = 0 /\ sampled = FALSE
  /\ failures = 0 /\ lockedUntil = 0 /\ lastFailure = NONE
  /\ pending = NONE /\ typed = NONE /\ freshTyping = FALSE
  /\ request = NoCommand /\ helper = "idle" /\ result = FALSE /\ lastEffect = NONE
  /\ lastEvent = NoEvent /\ outcome = "none" /\ events = 0
  /\ lastKill = NONE

Ready == request = NoCommand

-----------------------------------------------------------------------------
(* Token check and policy: verify_auth_submission, ExecutionPolicy::evaluate *)

Locked == now < lockedUntil

(* Mutant: the third failure does not lock yet. *)
LockSeconds_OneLate(count) ==
  IF (count - 3) * LockStep <= LockMax THEN (count - 3) * LockStep ELSE LockMax

LockSeconds(count) ==
  IF (count - 2) * LockStep <= LockMax THEN (count - 2) * LockStep ELSE LockMax

Authenticates(typedRight) ==
  TokenAccepted(config.mode, typedRight, IssuedAt, MaxAge, now)

(* Mutant: the window is a second too short. *)
InCooldown_OneShort(kind) ==
  kind = "kill_process" /\ lastKill # NONE /\ now - lastKill + 1 < Cooldown

InCooldown(kind) ==
  kind = "kill_process" /\ lastKill # NONE /\ now - lastKill < Cooldown

Permitted(kind) ==
  /\ Allows(config.mode, config.role, Permission(kind))
  /\ \A p \in config.policy : EvrusAccepts(config.role, kind, p)

PolicyAccepts(kind) == Permitted(kind) /\ ~InCooldown(kind)

Actor == IF config.did = NONE THEN "operator" ELSE config.did

(* append_event: an error is ignored by every caller. *)
AppendEvent(event, before) ==
  \E lost \in {FALSE, AppendMayFail} :
    /\ lastEvent' = IF lost THEN lastEvent ELSE event
    /\ events' = IF lost THEN before ELSE before + 1

(* The dashboard's own audit event: audit_auth_failure, audit_policy_denial *)
(* and the ShowCpu branch of execute_action.                                *)
Audited(kind, becomes) ==
  /\ AppendEvent([kind |-> kind, actor |-> Actor, hash |-> config.policy], 0)
  /\ outcome' = becomes

(* A command that does not get past the gate. *)
Refused_Locked(kind) ==
  /\ Locked
  /\ Audited(kind, "refused")
  /\ UNCHANGED authVars

(* Mutant: every failure locks; (count - 2) goes below zero. *)
Refused_Token_AlwaysLocks(kind) ==
  /\ ~Locked
  /\ \E typedRight \in BOOLEAN : ~Authenticates(typedRight)
  /\ failures < MaxFailures
  /\ failures' = failures + 1
  /\ lockedUntil' = now + LockSeconds(failures')
  /\ lastFailure' = now
  /\ Audited(kind, "refused")

Refused_Token(kind) ==
  /\ ~Locked
  /\ \E typedRight \in BOOLEAN : ~Authenticates(typedRight)
  /\ failures < MaxFailures
  /\ failures' = failures + 1
  /\ lockedUntil' = IF failures' >= 3 THEN now + LockSeconds(failures') ELSE 0
  /\ lastFailure' = now
  /\ Audited(kind, "refused")

(* The token check succeeds: the failures are forgotten. *)
Authenticated ==
  /\ ~Locked
  /\ \E typedRight \in BOOLEAN : Authenticates(typedRight)
  /\ failures' = 0 /\ lockedUntil' = 0
  /\ UNCHANGED lastFailure

Refused_Policy(kind) ==
  /\ Authenticated
  /\ ~PolicyAccepts(kind)
  /\ Audited(kind, "refused")

Refused(kind) == Refused_Locked(kind) \/ Refused_Token(kind) \/ Refused_Policy(kind)

Accepted(kind) == Authenticated /\ PolicyAccepts(kind)

(* send_request: the UI waits from here on. *)
Send(command) ==
  /\ request' = command
  /\ helper' = IF helper = "dead" THEN "dead" ELSE "received"
  /\ result' = FALSE
  /\ outcome' = "sent" /\ events' = 0
  /\ UNCHANGED <<lastEffect, lastEvent>>

-----------------------------------------------------------------------------
(* run_command_palette_action *)

(* execute_read_only_command answers: the show commands need a snapshot.    *)
Inline(kind) == kind = "help" \/ (kind \in {"show_cpu", "show_other"} /\ sampled)

(* Answered on the spot: no token, no policy and no event. *)
Submit_Inline(command) ==
  /\ Ready /\ Inline(command.kind)
  /\ outcome' = "shown" /\ events' = 0
  /\ UNCHANGED <<clockVars, authVars, confirmVars, helperVars, lastEvent, lastKill>>

Submit_Refused(command) ==
  /\ Ready /\ ~Inline(command.kind)
  /\ Refused(command.kind)
  /\ UNCHANGED <<clockVars, confirmVars, helperVars, lastKill>>

(* A kill only becomes pending; what the operator typed to confirm an       *)
(* earlier one stays in the field.                                          *)
Submit_Kill(command) ==
  /\ Ready /\ command.kind = "kill_process"
  /\ Accepted(command.kind)
  /\ pending' = command.pid
  /\ outcome' = "confirm" /\ events' = 0
  /\ UNCHANGED <<clockVars, typed, freshTyping, helperVars, lastEvent, lastKill>>

Submit_Renice(command) ==
  /\ Ready /\ command.kind = "renice_process"
  /\ Accepted(command.kind)
  /\ Send(command)
  /\ UNCHANGED <<clockVars, confirmVars, lastKill>>

(* Before the first snapshot the show commands pass the gate; of them only *)
(* `show cpu` is audited.                                                  *)
Submit_ShowCpu(command) ==
  /\ Ready /\ command.kind = "show_cpu" /\ ~Inline(command.kind)
  /\ Accepted(command.kind)
  /\ Audited(command.kind, "done")
  /\ UNCHANGED <<clockVars, confirmVars, helperVars, lastKill>>

Submit_ShowOther(command) ==
  /\ Ready /\ command.kind = "show_other" /\ ~Inline(command.kind)
  /\ Accepted(command.kind)
  /\ outcome' = "shown" /\ events' = 0
  /\ UNCHANGED <<clockVars, confirmVars, helperVars, lastEvent, lastKill>>

Submit ==
  \E command \in Command :
    \/ Submit_Inline(command) \/ Submit_Refused(command) \/ Submit_Kill(command)
    \/ Submit_Renice(command) \/ Submit_ShowCpu(command) \/ Submit_ShowOther(command)

-----------------------------------------------------------------------------
(* The confirmation prompt *)

Type(pid) ==
  /\ Ready /\ pending # NONE
  /\ typed' = pid /\ freshTyping' = TRUE
  /\ UNCHANGED <<clockVars, authVars, pending, helperVars, trailVars, lastKill>>

(* Mutant: the command stays pending. *)
Forget_KeepsPending == pending' = pending /\ typed' = NONE /\ freshTyping' = FALSE

Forget == pending' = NONE /\ typed' = NONE /\ freshTyping' = FALSE

(* Mutant: the field is left as it is. *)
Cancel_KeepsTyping ==
  /\ Ready /\ pending # NONE
  /\ pending' = NONE /\ freshTyping' = FALSE
  /\ outcome' = "canceled" /\ events' = 0
  /\ UNCHANGED <<clockVars, authVars, typed, helperVars, lastEvent, lastKill>>

(* Escape, or the Cancel button. *)
Cancel ==
  /\ Ready /\ pending # NONE
  /\ Forget
  /\ outcome' = "canceled" /\ events' = 0
  /\ UNCHANGED <<clockVars, authVars, helperVars, lastEvent, lastKill>>

Confirm_Mismatch ==
  /\ Ready /\ pending # NONE /\ typed # pending
  /\ outcome' = "mismatch" /\ events' = 0
  /\ UNCHANGED <<clockVars, authVars, confirmVars, helperVars, lastEvent, lastKill>>

(* The right text: token and policy are asked again, and the command is no  *)
(* longer pending, whatever they say.                                      *)
Confirm_Refused ==
  /\ Ready /\ pending # NONE
  /\ Refused("kill_process")
  /\ Forget
  /\ UNCHANGED <<clockVars, helperVars, lastKill>>

Confirm_Kill ==
  /\ Ready /\ pending # NONE
  /\ Accepted("kill_process")
  /\ Send([kind |-> "kill_process", pid |-> pending])
  /\ Forget
  /\ UNCHANGED <<clockVars, lastKill>>

Confirm == typed = pending /\ (Confirm_Refused \/ Confirm_Kill)

-----------------------------------------------------------------------------
(* The helper: serve and handle_request *)

(* Pids 0 and 1 are protected, from a kill as from a renice. *)
HelperAllows(command) == config.privileged /\ command.pid > 1

(* req.pid as i32: the upper half of the u32 becomes negative. *)
Raw(pid) == IF pid < 2 ^ (PidBits - 1) THEN pid ELSE pid - 2 ^ PidBits

(* kill(2): one process, a whole group, or everything but init. *)
Signalled(raw) ==
  {p \in DOMAIN Group : p = raw \/ (p > 1 /\ raw \in {-1, -Group[p]})}

(* verify_peer_identity fails: the request is not even read. *)
Helper_RejectPeer ==
  /\ helper = "received" /\ ~config.peer
  /\ helper' = "answering"
  /\ UNCHANGED <<clockVars, authVars, confirmVars, request, result, lastEffect, trailVars, lastKill>>

(* kill or setpriority; the system call may fail. *)
Helper_Handle ==
  /\ helper = "received" /\ config.peer
  /\ helper' = "handled"
  /\ \E ok \in BOOLEAN : result' = (ok /\ HelperAllows(request))
  /\ lastEffect' = IF result' /\ request.kind = "kill_process" THEN now ELSE lastEffect
  /\ UNCHANGED <<clockVars, authVars, confirmVars, request, trailVars, lastKill>>

(* Mutant: denied requests are not audited. *)
Helper_Audit_OkOnly ==
  /\ helper = "handled"
  /\ helper' = "answering"
  /\ IF result
     THEN AppendEvent([kind |-> request.kind, actor |-> "operator", hash |-> {}], events)
     ELSE UNCHANGED <<lastEvent, events>>
  /\ UNCHANGED <<clockVars, authVars, confirmVars, request, result, lastEffect, outcome, lastKill>>

(* Its event names no identity and no policy. *)
Helper_Audit ==
  /\ helper = "handled"
  /\ helper' = "answering"
  /\ AppendEvent([kind |-> request.kind, actor |-> "operator", hash |-> {}], events)
  /\ UNCHANGED <<clockVars, authVars, confirmVars, request, result, lastEffect, outcome, lastKill>>

(* ExecutionPolicy::record, whatever the helper answered. *)
StartCooldown ==
  lastKill' = IF request.kind = "kill_process" THEN now ELSE lastKill

(* The reply reaches the UI, which records the kill. *)
Reply ==
  /\ helper = "answering"
  /\ helper' = "idle" /\ request' = NoCommand
  /\ outcome' = "replied"
  /\ StartCooldown
  /\ UNCHANGED <<clockVars, authVars, confirmVars, result, lastEffect, lastEvent, events>>

(* The helper process is gone: before it saw the request, or after it acted. *)
Helper_Dies ==
  /\ HelperMayDie /\ helper # "dead"
  /\ helper' = "dead"
  /\ UNCHANGED <<clockVars, authVars, confirmVars, request, result, lastEffect, trailVars, lastKill>>

(* Mutant: the UI connects again, and again. *)
HelperError_Reconnects ==
  /\ helper = "dead" /\ ~Ready
  /\ UNCHANGED vars

HelperError ==
  /\ helper = "dead" /\ ~Ready
  /\ request' = NoCommand
  /\ outcome' = "error"
  /\ StartCooldown
  /\ UNCHANGED <<clockVars, authVars, confirmVars, helper, result, lastEffect, lastEvent, events>>

-----------------------------------------------------------------------------
(* Time, and the collectors' first snapshot (taken over in poll, by the UI). *)

Tick ==
  /\ now < MaxTime
  /\ now' = now + 1
  /\ UNCHANGED <<config, sampled, authVars, confirmVars, helperVars, trailVars, lastKill>>

FirstSnapshot ==
  /\ Ready /\ ~sampled
  /\ sampled' = TRUE
  /\ UNCHANGED <<config, now, authVars, confirmVars, helperVars, trailVars, lastKill>>

Prompt == (\E pid \in Pids : Type(pid)) \/ Cancel \/ Confirm_Mismatch \/ Confirm

Answer == Helper_RejectPeer \/ Helper_Handle \/ Helper_Audit \/ Reply \/ HelperError

Next == Submit \/ Prompt \/ Answer \/ Helper_Dies \/ Tick \/ FirstSnapshot

Spec == Init /\ [][Next]_vars

(* The helper's thread and the UI's read of the socket are scheduled.       *)
FairSpec == Spec /\ WF_vars(Answer)
-----------------------------------------------------------------------------
(* Properties *)

KillSignalled ==
  helper = "received" /\ helper' = "handled" /\ request.kind = "kill_process" /\ result'

(* Two signals are at least the cooldown apart, measured where they happen, *)
(* in the helper; the code measures from the reply to the next check of the *)
(* policy, in the UI.                                                       *)
SignalsSpaced ==
  [][KillSignalled /\ lastEffect # NONE => now - lastEffect >= Cooldown]_vars

(* A kill request is sent only if the operator has typed a confirmation     *)
(* since the last kill request and the last cancellation: neither a reused  *)
(* nor a cancelled confirmation kills.                                      *)
KillsConfirmed ==
  [][request' # request /\ request'.kind = "kill_process" => freshTyping]_vars

(* What has an effect is permitted by every layer: role and mode, EVRUS     *)
(* policy, the helper's capabilities (docs/auth-rbac-model.md) and its      *)
(* protected pids (docs/security-threat-model.md:56), although the helper   *)
(* knows nothing of roles and the dashboard nothing of capabilities.        *)
EffectsAuthorised ==
  helper \in {"handled", "answering"} /\ result =>
    /\ config.privileged /\ config.peer /\ request.pid > 1
    /\ request.kind = "kill_process" => config.role = "admin"
    /\ config.role # "viewer" /\ ~(config.role = "admin" /\ config.mode = "token")
    /\ \A p \in config.policy :
         p.action \in {request.kind, "*"} =>
           ~p.hostDenied /\ (p.roles # {} => config.role \in p.roles)

(* After n >= 3 failures in a row the next token check comes min((n - 2) *  *)
(* LockStep, LockMax) seconds later at the earliest, whether it fails or    *)
(* succeeds, for kills, renices and confirmations alike                     *)
(* (docs/auth-rbac-model.md:38).                                            *)
LockoutBacksOff ==
  [][failures' # failures /\ failures >= 3 =>
       \/ now - lastFailure >= LockMax
       \/ now - lastFailure >= (failures - 2) * LockStep]_vars

(* Every command the gate refused, every `show cpu` it let through and      *)
(* every command the helper answered has left exactly one event, whether    *)
(* the dashboard or the helper wrote it (docs/auth-rbac-model.md:36); one   *)
(* that awaits confirmation, was cancelled or was merely shown has left     *)
(* none.  A peer the helper does not admit gets an answer and leaves no     *)
(* event.  The dashboard's event names the identity and the policy of its   *)
(* operator; the helper's cannot.                                          *)
Attributed == lastEvent.actor = Actor /\ lastEvent.hash = config.policy

OneEventPerOutcome ==
  /\ outcome \in {"refused", "done"} => events = 1 /\ Attributed
  /\ outcome = "replied" => events = IF config.peer THEN 1 ELSE 0
  /\ outcome \in {"none", "shown", "confirm", "canceled", "mismatch"} => events = 0

(* A kill that awaits its confirmation will not be refused when it is       *)
(* confirmed: whatever failures, renices and kills come in between, token,  *)
(* lock, policy and cooldown say the same at both checks.                  *)
ConfirmationStands ==
  Ready /\ pending # NONE =>
    /\ ~Locked /\ PolicyAccepts("kill_process")
    /\ \A typedRight \in BOOLEAN : Authenticates(typedRight)

(* The UI does not wait for the helper forever, even if it dies.            *)
AlwaysAnswered == ~Ready ~> Ready

(* A kill signals the process the operator named and confirmed, and no      *)
(* other (the help text of src/core/command.rs:287), whatever the number.   *)
KillHitsItsTarget ==
  [][KillSignalled => Signalled(Raw(request.pid)) \subseteq {request.pid}]_vars

(* Every command that had an effect is recorded (the help text of           *)
(* src/core/command.rs:468).                                                *)
EffectsRecorded ==
  outcome \in {"replied", "error"} /\ result => events > 0
=============================================================================
