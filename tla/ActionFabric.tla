---------------------------- MODULE ActionFabric ----------------------------
(***************************************************************************)
(* The action fabric of ntd-runtime (crates/ntd-runtime/src/               *)
(* action_fabric.rs): the journal of action plans that the assistant       *)
(* prepares, executes through capability adapters, verifies, suspends,     *)
(* retries, rolls back and carries over a process death in a TAF97         *)
(* checkpoint (action_checkpoint.rs).                                      *)
(*                                                                         *)
(* Every method of ActionFabric takes &mut self, so one call is one step.  *)
(* What the adapters and the verifier answer is chosen by the step.        *)
(* Payloads, outputs, tokens and error texts are abstracted: an output or  *)
(* a resume token is present or absent, and a rollback token names the     *)
(* attempt whose effect it undoes (NoToken when there is none).            *)
(***************************************************************************)
EXTENDS Integers, Sequences, FiniteSets

CONSTANTS
    Capabilities,          \* the registered capability ids
    SideEffect,            \* descriptor.side_effect of each capability
    VerificationRequired,  \* descriptor.verification_required
    RollbackSupported,     \* descriptor.rollback_supported
    Resumable,             \* descriptor.resumable
    RequiredScopes,        \* descriptor.required_scopes
    Grants,                \* the authority grants a caller may present
    Graphs,                \* the task graphs a caller may prepare
    MaxId,                 \* u64::MAX of the id counters
    MaxAttempts,           \* bound on the attempts of one action
    NoCheckpoint

SideEffectClass == {"ReadOnly", "Reversible", "ExternalWrite", "Irreversible"}

ActionStatus == {"Prepared", "Running", "Suspended", "Retryable",
                 "Committed", "RolledBack", "Failed"}

ActionPlanStatus == {"Ready", "Suspended", "Completed", "Failed", "RolledBack"}

TerminalPlan == {"Completed", "Failed", "RolledBack"}

NoToken == 0

(* A node of a TaskGraph, as the planner declares it.  A node without      *)
(* exactly one valid payload is `malformed`.                               *)
Node == [capability : Capabilities, side_effect : SideEffectClass,
         verification_required : BOOLEAN, malformed : BOOLEAN]

PlannedAction ==
    [id : Nat \ {0}, capability : Capabilities, side_effect : SideEffectClass,
     verification_required : BOOLEAN, status : ActionStatus, attempts : Nat,
     output : BOOLEAN, resume_token : BOOLEAN, rollback_token : Nat]

ActionPlanState ==
    [cursor : Nat, status : ActionPlanStatus, actions : Seq(PlannedAction)]

(* A side effect an adapter reported to this journal: attempt `serial` of  *)
(* action `id` completed, and its verdict was to accept it or not.         *)
Effect == [id : Nat \ {0}, serial : Nat, accepted : BOOLEAN]

Grant == [scopes : SUBSET UNION {RequiredScopes[c] : c \in Capabilities},
          allow_external_write : BOOLEAN, allow_irreversible : BOOLEAN]

ASSUME DescriptorAssumption ==
    /\ SideEffect \in [Capabilities -> SideEffectClass]
    /\ VerificationRequired \in [Capabilities -> BOOLEAN]
    /\ RollbackSupported \in [Capabilities -> BOOLEAN]
    /\ Resumable \in [Capabilities -> BOOLEAN]
    /\ \A c \in Capabilities :      \* CapabilityDescriptor::normalize
          SideEffect[c] = "Irreversible" => ~RollbackSupported[c]

ASSUME InputAssumption ==
    /\ Graphs \subseteq Seq(Node)
    /\ Grants \subseteq Grant
    /\ MaxId \in Nat \ {0}
    /\ MaxAttempts \in Nat

VARIABLES
    plans,           \* state.plans; a plan's id is its position
    next_action_id,  \* state.next_action_id
    adapters,        \* the capabilities with a registered adapter
    reported,        \* the effects adapters reported and nothing undid yet
    saved,           \* the last TAF97 checkpoint, or NoCheckpoint
    result           \* what the last call returned

vars == <<plans, next_action_id, adapters, reported, saved, result>>

next_plan_id == Len(plans) + 1

Checkpoint ==
    [plans : Seq(ActionPlanState), next_action_id : Nat, reported : SUBSET Effect]

Results == {"Ok", "AdapterError", "Refused", "NonResumable", "MissingAdapter",
            "RollbackFailure", "RollbackUnavailable"}

TypeOK ==
    /\ plans \in Seq(ActionPlanState)
    /\ next_action_id \in Nat \ {0}
    /\ adapters \subseteq Capabilities
    /\ reported \subseteq Effect
    /\ saved \in Checkpoint \cup {NoCheckpoint}
    /\ result \in Results

(* Mutant: the derived Default, whose counter starts at 0.                 *)
InitDerived ==
    /\ plans = <<>>
    /\ next_action_id = 0
    /\ adapters = {}
    /\ reported = {}
    /\ saved = NoCheckpoint
    /\ result = "Ok"

Init ==
    /\ plans = <<>>
    /\ next_action_id = 1
    /\ adapters = {}
    /\ reported = {}
    /\ saved = NoCheckpoint
    /\ result = "Ok"

-----------------------------------------------------------------------------
(* The validator every checkpoint and every restored journal must pass.    *)

ValidAction(a) ==
    /\ a.side_effect = SideEffect[a.capability]
    /\ VerificationRequired[a.capability] => a.verification_required
    /\ a.resume_token => Resumable[a.capability]
    /\ a.rollback_token # NoToken => RollbackSupported[a.capability]

ValidPlan(p) ==
    LET n == Len(p.actions) IN
    /\ p.cursor <= n
    /\ \A i \in 1..n :
        /\ ValidAction(p.actions[i])
        /\ i <= p.cursor /\ p.status # "RolledBack" => p.actions[i].status = "Committed"
        /\ i > p.cursor + 1 => p.actions[i].status = "Prepared"
    /\ p.status = "Completed" =>
        /\ p.cursor = n
        /\ \A i \in 1..n : p.actions[i].status = "Committed"
    /\ p.cursor < n =>
        LET current == p.actions[p.cursor + 1] IN
        /\ p.status = "Suspended" => current.status = "Suspended" /\ current.resume_token
        /\ p.status = "Ready" => current.status \in {"Prepared", "Retryable", "Running"}
        /\ p.status = "Failed" => current.status \in {"Failed", "RolledBack"}

(* Action ids are below the counter and name one action each.              *)
ValidIds(ps, next) ==
    /\ next # 0
    /\ \A p \in DOMAIN ps : \A i \in DOMAIN ps[p].actions :
        /\ ps[p].actions[i].id < next
        /\ \A q \in DOMAIN ps : \A j \in DOMAIN ps[q].actions :
             ps[p].actions[i].id = ps[q].actions[j].id => p = q /\ i = j

validate_fabric_state(ps, next) ==
    /\ ValidIds(ps, next)
    /\ \A p \in DOMAIN ps : ValidPlan(ps[p])

-----------------------------------------------------------------------------
(* Registration and preparation.                                           *)

register_adapter(c) ==
    /\ result' = IF c \in adapters THEN "Refused" ELSE "Ok"
    /\ adapters' = adapters \cup {c}
    /\ UNCHANGED <<plans, next_action_id, reported, saved>>

(* The checks prepare_plan makes before it touches the state.              *)
Preparable(g) ==
    /\ g # <<>>
    /\ \A i \in DOMAIN g :
        /\ ~g[i].malformed
        /\ g[i].side_effect = SideEffect[g[i].capability]
        /\ VerificationRequired[g[i].capability] => g[i].verification_required
    /\ next_plan_id + 1 <= MaxId
    /\ next_action_id + Len(g) <= MaxId

NewAction(node, id) ==
    [id |-> id, capability |-> node.capability, side_effect |-> node.side_effect,
     verification_required |-> node.verification_required,
     status |-> "Prepared", attempts |-> 0, output |-> FALSE,
     resume_token |-> FALSE, rollback_token |-> NoToken]

prepare_plan(g) ==
    /\ Preparable(g)
    /\ plans' = Append(plans,
         [cursor |-> 0, status |-> "Ready",
          actions |-> [i \in 1..Len(g) |-> NewAction(g[i], next_action_id + i - 1)]])
    /\ next_action_id' = next_action_id + Len(g)
    /\ result' = "Ok"
    /\ UNCHANGED <<adapters, reported, saved>>

prepare_plan_refused(g) ==
    /\ ~Preparable(g)
    /\ result' = "Refused"
    /\ UNCHANGED <<plans, next_action_id, adapters, reported, saved>>

-----------------------------------------------------------------------------
(* execute_next: one call for the action under the cursor.                 *)

Exhausted(p) == plans[p].cursor >= Len(plans[p].actions)
Index(p) == plans[p].cursor + 1
Current(p) == plans[p].actions[Index(p)]

permits(grant, c) ==
    /\ RequiredScopes[c] \subseteq grant.scopes
    /\ SideEffect[c] = "ExternalWrite" => grant.allow_external_write
    /\ SideEffect[c] = "Irreversible" => grant.allow_irreversible

UseResume(a) == a.status \in {"Suspended", "Retryable"} /\ a.resume_token

(* Mutant: RolledBack is forgotten among the terminal statuses.            *)
AdmittedAfterRollback(p, grant) ==
    /\ plans[p].status \notin {"Completed", "Failed"}
    /\ ~Exhausted(p)
    /\ permits(grant, Current(p).capability)
    /\ UseResume(Current(p)) => Resumable[Current(p).capability]
    /\ Current(p).status \notin {"Committed", "RolledBack", "Failed"}

(* The call gets past its early returns: the action is marked Running and  *)
(* its attempt counted before the adapter is looked up.                    *)
Admitted(p, grant) ==
    /\ plans[p].status \notin TerminalPlan
    /\ ~Exhausted(p)
    /\ permits(grant, Current(p).capability)
    /\ UseResume(Current(p)) => Resumable[Current(p).capability]
    /\ Current(p).status \notin {"Committed", "RolledBack", "Failed"}

Started(p, grant) == Admitted(p, grant) /\ Current(p).attempts < MaxAttempts

(* The current action once its attempt is counted and its outcome entered. *)
Entry(p, status, output, resume_token, rollback_token) ==
    [Current(p) EXCEPT !.status = status, !.attempts = @ + 1, !.output = output,
                       !.resume_token = resume_token, !.rollback_token = rollback_token]

(* An outcome that keeps output and rollback token as they were.           *)
EntryKeeping(p, status, resume_token) ==
    Entry(p, status, Current(p).output, resume_token, Current(p).rollback_token)

Running(p) == EntryKeeping(p, "Running", Current(p).resume_token)

(* The journal after a call on plan p: its current action, status, cursor. *)
Journal(p, action, status, cursor) ==
    plans' = [plans EXCEPT ![p] =
        [cursor |-> cursor, status |-> status,
         actions |-> [@.actions EXCEPT ![Index(p)] = action]]]

execute_early_return(p, grant) ==
    /\ ~Admitted(p, grant)
    /\ IF plans[p].status \notin TerminalPlan /\ Exhausted(p)
         THEN /\ plans' = [plans EXCEPT ![p].status = "Completed"]
              /\ result' = "Ok"
         ELSE /\ result' = "Refused"
              /\ UNCHANGED plans
    /\ UNCHANGED <<next_action_id, adapters, reported, saved>>

execute_missing_adapter(p, grant) ==
    /\ Started(p, grant)
    /\ Current(p).capability \notin adapters
    /\ Journal(p, Running(p), "Ready", plans[p].cursor)
    /\ result' = "MissingAdapter"
    /\ UNCHANGED <<next_action_id, adapters, reported, saved>>

(* The adapter is called: execute, or resume with the stored token.        *)
Called(p, grant) == Started(p, grant) /\ Current(p).capability \in adapters

execute_adapter_error(p, grant) ==
    /\ Called(p, grant)
    /\ Journal(p, EntryKeeping(p, "Retryable", FALSE), "Ready", plans[p].cursor)
    /\ result' = "AdapterError"
    /\ UNCHANGED <<next_action_id, adapters, reported, saved>>

(* Mutant: the plan's status does not follow the action's.                 *)
execute_suspended_plan_ready(p, grant) ==
    /\ Called(p, grant)
    /\ Journal(p, EntryKeeping(p, "Suspended", TRUE), "Ready", plans[p].cursor)
    /\ result' = "Ok"
    /\ UNCHANGED <<next_action_id, adapters, reported, saved>>

(* AdapterResult::Suspended.                                               *)
execute_suspended(p, grant) ==
    /\ Called(p, grant)
    /\ IF Resumable[Current(p).capability]
         THEN /\ Journal(p, EntryKeeping(p, "Suspended", TRUE), "Suspended", plans[p].cursor)
              /\ result' = "Ok"
         ELSE /\ Journal(p, EntryKeeping(p, "Failed", Current(p).resume_token),
                         "Failed", plans[p].cursor)
              /\ result' = "NonResumable"
    /\ UNCHANGED <<next_action_id, adapters, reported, saved>>

(* AdapterResult::Retryable, with or without a resume token.               *)
execute_retryable(p, grant, resume_token) ==
    /\ Called(p, grant)
    /\ IF resume_token => Resumable[Current(p).capability]
         THEN /\ Journal(p, EntryKeeping(p, "Retryable", resume_token), "Ready", plans[p].cursor)
              /\ result' = "Ok"
         ELSE /\ Journal(p, EntryKeeping(p, "Failed", Current(p).resume_token),
                         "Failed", plans[p].cursor)
              /\ result' = "NonResumable"
    /\ UNCHANGED <<next_action_id, adapters, reported, saved>>

(* AdapterResult::Completed: a write took effect.  The rollback token, if  *)
(* the adapter returned one, names this attempt.                           *)
Attempt(p) == Current(p).attempts + 1

NewEffects(p, accepted) ==
    IF Current(p).side_effect = "ReadOnly" THEN {}
    ELSE {[id |-> Current(p).id, serial |-> Attempt(p), accepted |-> accepted]}

KeptToken(p, returned) ==
    IF RollbackSupported[Current(p).capability] /\ returned THEN Attempt(p) ELSE NoToken

(* Mutant: the last action is taken for done one step early.               *)
advance_cursor_early(p) ==
    IF plans[p].cursor + 2 >= Len(plans[p].actions) THEN "Completed" ELSE "Ready"

advance_cursor(p) ==
    IF plans[p].cursor + 1 >= Len(plans[p].actions) THEN "Completed" ELSE "Ready"

execute_accepted(p, grant, returned) ==
    /\ Called(p, grant)
    /\ Journal(p, Entry(p, "Committed", TRUE, FALSE, KeptToken(p, returned)),
               advance_cursor(p), plans[p].cursor + 1)
    /\ reported' = reported \cup NewEffects(p, TRUE)
    /\ result' = "Ok"
    /\ UNCHANGED <<next_action_id, adapters, saved>>

execute_verifier_retry(p, grant, returned) ==
    /\ Called(p, grant)
    /\ Current(p).verification_required
    /\ Journal(p, Entry(p, "Retryable", TRUE, FALSE, KeptToken(p, returned)),
               "Ready", plans[p].cursor)
    /\ reported' = reported \cup NewEffects(p, FALSE)
    /\ result' = "Ok"
    /\ UNCHANGED <<next_action_id, adapters, saved>>

(* A rejected output is undone where rollback_current_if_possible can.     *)
Revocable(p, returned) == RollbackSupported[Current(p).capability] /\ returned

execute_rejected_undone(p, grant) ==
    /\ Called(p, grant)
    /\ Current(p).verification_required
    /\ Revocable(p, TRUE)
    /\ Journal(p, Entry(p, "RolledBack", TRUE, Current(p).resume_token, Attempt(p)),
               "Failed", plans[p].cursor)
    /\ result' = "Ok"
    /\ UNCHANGED <<next_action_id, adapters, reported, saved>>

execute_rejected_failed(p, grant, returned) ==
    /\ Called(p, grant)
    /\ Current(p).verification_required
    /\ ~Revocable(p, returned)
    /\ Journal(p, Entry(p, "Failed", TRUE, Current(p).resume_token, Current(p).rollback_token),
               "Failed", plans[p].cursor)
    /\ reported' = reported \cup NewEffects(p, FALSE)
    /\ result' = "Ok"
    /\ UNCHANGED <<next_action_id, adapters, saved>>

(* The adapter's own rollback fails: `?` returns before the verdict is     *)
(* written to the journal.                                                 *)
execute_rejected_rollback_failure(p, grant) ==
    /\ Called(p, grant)
    /\ Current(p).verification_required
    /\ Revocable(p, TRUE)
    /\ Journal(p, Running(p), "Ready", plans[p].cursor)
    /\ reported' = reported \cup NewEffects(p, FALSE)
    /\ result' = "RollbackFailure"
    /\ UNCHANGED <<next_action_id, adapters, saved>>

execute_next(p, grant) ==
    \/ execute_early_return(p, grant)
    \/ execute_missing_adapter(p, grant)
    \/ execute_adapter_error(p, grant)
    \/ execute_suspended(p, grant)
    \/ \E token \in BOOLEAN : execute_retryable(p, grant, token)
    \/ \E token \in BOOLEAN : execute_accepted(p, grant, token)
    \/ \E token \in BOOLEAN : execute_verifier_retry(p, grant, token)
    \/ execute_rejected_undone(p, grant)
    \/ \E token \in BOOLEAN : execute_rejected_failed(p, grant, token)
    \/ execute_rejected_rollback_failure(p, grant)

-----------------------------------------------------------------------------
(* rollback_plan: undo the plan's writes, last action first.               *)

(* The actions the loop does not skip.                                     *)
ToUndo(p) ==
    {i \in DOMAIN plans[p].actions :
        /\ plans[p].actions[i].side_effect # "ReadOnly"
        /\ plans[p].actions[i].status \notin {"Prepared", "RolledBack"}}

(* Mutant: a capability that supports rollback is enough.                  *)
HasTokenUnchecked(a) == RollbackSupported[a.capability]

HasToken(a) == RollbackSupported[a.capability] /\ a.rollback_token # NoToken

Undoable(a) == HasToken(a) /\ a.capability \in adapters

(* The actions in U become RolledBack and their tokens are consumed.       *)
Undo(p, U, status) ==
    /\ plans' = [plans EXCEPT ![p] =
         [cursor |-> @.cursor, status |-> status,
          actions |-> [i \in 1..Len(@.actions) |->
             IF i \in U THEN [@.actions[i] EXCEPT !.status = "RolledBack"]
                        ELSE @.actions[i]]]]
    /\ reported' = {e \in reported :
         \A i \in U : ~(/\ e.id = plans[p].actions[i].id
                        /\ e.serial = plans[p].actions[i].rollback_token)}

rollback_plan(p) ==
    /\ \A i \in ToUndo(p) : Undoable(plans[p].actions[i])
    /\ Undo(p, ToUndo(p), "RolledBack")
    /\ result' = "Ok"
    /\ UNCHANGED <<next_action_id, adapters, saved>>

(* Mutant: the loop walks forwards.                                        *)
rollback_plan_forwards(p, k) ==
    LET earlier == {i \in ToUndo(p) : i < k} IN
    /\ k \in ToUndo(p)
    /\ \A i \in earlier : Undoable(plans[p].actions[i])
    /\ Undo(p, earlier, plans[p].status)
    /\ result' = "RollbackUnavailable"
    /\ UNCHANGED <<next_action_id, adapters, saved>>

(* The loop returns at action k: it cannot be undone, or its adapter's     *)
(* rollback fails.  The later actions are undone already.                  *)
rollback_plan_breaks_off(p, k) ==
    LET later == {i \in ToUndo(p) : i > k} IN
    /\ k \in ToUndo(p)
    /\ \A i \in later : Undoable(plans[p].actions[i])
    /\ Undo(p, later, plans[p].status)
    /\ result' = CASE Undoable(plans[p].actions[k]) -> "RollbackFailure"
                   [] HasToken(plans[p].actions[k]) -> "MissingAdapter"
                   [] OTHER -> "RollbackUnavailable"
    /\ UNCHANGED <<next_action_id, adapters, saved>>

-----------------------------------------------------------------------------
(* TAF97 checkpoints.                                                      *)

encode_action_fabric_checkpoint ==
    /\ IF validate_fabric_state(plans, next_action_id)
         THEN /\ saved' = [plans |-> plans, next_action_id |-> next_action_id,
                           reported |-> reported]
              /\ result' = "Ok"
         ELSE /\ result' = "Refused"
              /\ UNCHANGED saved
    /\ UNCHANGED <<plans, next_action_id, adapters, reported>>

(* A new process decodes the checkpoint; adapters are registered anew.     *)
from_state ==
    /\ saved # NoCheckpoint
    /\ validate_fabric_state(saved.plans, saved.next_action_id)
    /\ plans' = saved.plans
    /\ next_action_id' = saved.next_action_id
    /\ reported' = saved.reported
    /\ adapters' = {}
    /\ result' = "Ok"
    /\ UNCHANGED saved

Next ==
    \/ \E c \in Capabilities : register_adapter(c)
    \/ \E g \in Graphs : prepare_plan(g) \/ prepare_plan_refused(g)
    \/ \E p \in DOMAIN plans :
        \/ \E grant \in Grants : execute_next(p, grant)
        \/ rollback_plan(p)
        \/ \E k \in DOMAIN plans[p].actions : rollback_plan_breaks_off(p, k)
    \/ encode_action_fabric_checkpoint
    \/ from_state

Spec == Init /\ [][Next]_vars

-----------------------------------------------------------------------------
(* Properties.                                                             *)

(* A rollback of the plan broke off: an action is undone and the plan is   *)
(* neither RolledBack nor failed by the rejection of that very action.     *)
Torn(p) ==
    /\ p.status # "RolledBack"
    /\ \E i \in DOMAIN p.actions :
        /\ p.actions[i].status = "RolledBack"
        /\ ~(p.status = "Failed" /\ i = p.cursor + 1)

(* Whatever adapters and verifier answered, the journal passes its own     *)
(* validator, so that it can be checkpointed and restored; the only        *)
(* exception is a plan whose rollback_plan broke off half way.             *)
JournalRestorable ==
    /\ ValidIds(plans, next_action_id)
    /\ \A p \in DOMAIN plans : Torn(plans[p]) \/ ValidPlan(plans[p])

(* A plan that claims RolledBack has no accepted side effect left: every   *)
(* effect a verifier accepted for one of its actions was undone, by the    *)
(* token of that very attempt.                                             *)
RolledBackIsUndone ==
    \A p \in DOMAIN plans : plans[p].status = "RolledBack" =>
        ~\E e \in reported : \E i \in DOMAIN plans[p].actions :
            e.accepted /\ e.id = plans[p].actions[i].id

(* A Completed plan has a verified output for every action, which is what  *)
(* collect_verified_action_evidence needs; again unless a rollback of it   *)
(* broke off.                                                              *)
CompletedHasEvidence ==
    \A p \in DOMAIN plans :
        plans[p].status = "Completed" /\ ~Torn(plans[p]) =>
            \A i \in DOMAIN plans[p].actions :
                plans[p].actions[i].status = "Committed" /\ plans[p].actions[i].output

(* Undo runs backwards: whenever an action becomes RolledBack, by          *)
(* rollback_plan or by a rejection, no write after it in the plan stands.  *)
Restored == saved # NoCheckpoint /\ plans' = saved.plans

UndoStep(p, q) ==
    \A i \in DOMAIN p.actions :
        p.actions[i].status # "RolledBack" /\ q.actions[i].status = "RolledBack" =>
            \A j \in DOMAIN q.actions : j > i =>
                \/ q.actions[j].side_effect = "ReadOnly"
                \/ q.actions[j].status \in {"Prepared", "RolledBack"}

UndoInReverse ==
    [][Restored \/ \A p \in DOMAIN plans : UndoStep(plans[p], plans'[p])]_vars

(* A finished plan is never executed again: its status changes only to     *)
(* RolledBack and its actions gain no attempt, except that a new process   *)
(* starts over from the checkpoint.                                        *)
FinishedStep(p, q) ==
    p.status \in TerminalPlan =>
        /\ q.status \in {p.status, "RolledBack"}
        /\ q.cursor = p.cursor
        /\ \A i \in DOMAIN p.actions : q.actions[i].attempts = p.actions[i].attempts

FinishedStaysFinished ==
    [][Restored \/ \A p \in DOMAIN plans : FinishedStep(plans[p], plans'[p])]_vars

(* What docs/TOOL_INTERNET_DEVICE_ACTION_FABRIC.md says of adapter errors: *)
(* they become Retryable action state rather than leaving the journal      *)
(* stuck in Running.                                                       *)
AdapterErrorsBecomeRetryable ==
    result \in {"AdapterError", "RollbackFailure"} =>
        \A p \in DOMAIN plans : \A i \in DOMAIN plans[p].actions :
            plans[p].actions[i].status # "Running"

(* What rollback_plan's report says: "all known side effects rolled back". *)
AllKnownEffectsRolledBack ==
    \A p \in DOMAIN plans : plans[p].status = "RolledBack" =>
        ~\E e \in reported : \E i \in DOMAIN plans[p].actions :
            e.id = plans[p].actions[i].id
=============================================================================
