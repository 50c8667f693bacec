---------------------------- MODULE Conversation ----------------------------
(***************************************************************************)
(* SovereignConversationState (assistant.rs): the turns of the assistant   *)
(* on top of the cognitive runtime, as the native bridge (lib.rs of        *)
(* ntd-android-bridge) drives it.  A submitted message is worked on in a   *)
(* copy (memory recall, prompt, reasoning cycle, action planning) that     *)
(* replaces the conversation only when all of it succeeded; afterwards     *)
(* every event runs pending actions, or generates one token, or commits    *)
(* the turn.                                                               *)
(*                                                                         *)
(* Module ChatSession has the threads that call the bridge and the file;   *)
(* here one call follows another, and the state has what ChatSession       *)
(* leaves out: tasks, steps, memories, facts and the answered turns.       *)
(* A plan is its number of actions; a TAF97 checkpoint is how many of      *)
(* them are committed.                                                     *)
(***************************************************************************)
EXTENDS Cognition

CONSTANTS
    Messages,      \* the messages a user may send
    PlanLengths,   \* the numbers of actions a plan may have
    MaxNewTokens,  \* max_new_tokens of a request
    MAX_TURNS,     \* limit of the history, in messages
    MaxChatTasks,  \* bound on the submitted messages
    MaxApprovals   \* bound on the revisions of an approval

ASSUME ConversationAssumption ==
    /\ PlanLengths \subseteq Nat \ {0}
    /\ {MaxNewTokens, MAX_TURNS, MaxChatTasks, MaxApprovals} \subseteq Nat \ {0}

VARIABLES
    conv,     \* guard.conversation: [cog, turns, active]
    draft,    \* {}, or the copy a submit works on, its task and iterations left
    session   \* guard.chat_session: whether and how the active turn is served

convVars == <<conv, draft, session>>

SessionStatus == {"None", "Running", "WaitingApproval", "Failed"}

MaxSteps == 32      \* Intent::new

ConversationInit ==
    /\ conv = [cog |-> CognitiveState, turns |-> <<>>, active |-> {}]
    /\ draft = {}
    /\ session = "None"

-----------------------------------------------------------------------------
(* SovereignConversationState.                                             *)

begin_turn(v, m) ==
    LET c == submit_task(v.cog, {}, m, MaxSteps)
        t == Len(c.tasks)
    IN  [v EXCEPT
            !.cog = start_external_task(c, t),
            !.active = {[task |-> t, message |-> m, tokens |-> 0,
                         text |-> FALSE, synthesis |-> FALSE, fabric |-> {}]}]

append_generated(v, a, text) ==
    [v EXCEPT !.active = {[a EXCEPT !.tokens = @ + 1, !.text = @ \/ text]}]

validate_turns(turns) ==
    /\ Len(turns) <= MAX_TURNS
    /\ Len(turns) % 2 = 0
    /\ \A n \in DOMAIN turns :
          turns[n].role = IF n % 2 = 1 THEN "User" ELSE "Assistant"

Exchange(m) ==
    <<[role |-> "User", about |-> m], [role |-> "Assistant", about |-> m]>>

CanComplete(v, a) == a.text /\ validate_turns(v.turns \o Exchange(a.message))

(* Mutant: the dialogue memory is left out.                                *)
complete_turn_forgotten(v, a) ==
    [cog    |-> complete_external_task(v.cog, a.task),
     turns  |-> v.turns \o Exchange(a.message),
     active |-> {}]

complete_turn(v, a) ==
    [cog    |-> store(complete_external_task(v.cog, a.task),
                      "dialogue", a.message),
     turns  |-> v.turns \o Exchange(a.message),
     active |-> {}]

(* Mutant: the turn is kept open.                                          *)
cancel_turn_open(v, a) ==
    [v EXCEPT !.cog = pause_external_task(v.cog, a.task)]

cancel_turn(v, a) ==
    [v EXCEPT !.cog = pause_external_task(v.cog, a.task), !.active = {}]

prior_conversation_failure(v) ==
    /\ v.cog.tasks # <<>>
    /\ v.cog.tasks[Len(v.cog.tasks)].status \in {"Paused", "Failed"}

(* World facts about a task; the keys keep their names.                    *)
record(v, t, name, value) ==
    [v EXCEPT !.cog = set_world_fact(@, <<t, name>>, value)]

fact(v, t, name, default) ==
    IF <<t, name>> \in DOMAIN v.cog.world
    THEN v.cog.world[<<t, name>>].value ELSE default

install_action_plan(v, t, n) ==
    record(record(v, t, "action_count", n), t, "action_protocol", n)

record_chat_approval(v, t, status) == record(v, t, "approval", status)

approval(v, t) == fact(v, t, "approval", "none")

record_action_planner(v, t, status, verified) ==
    record(record(v, t, "action_planner_status", status),
           t, "verified_action_count", verified)

install_action_fabric_checkpoint(v, a, done) ==
    [v EXCEPT !.active = {[a EXCEPT !.fabric = {done}]}]

clear_action_fabric_checkpoint(v, a) ==
    [v EXCEPT !.active = {[a EXCEPT !.fabric = {}]}]

recall_conversation_context(v, m, limit) ==
    [v EXCEPT !.cog = retrieve(@, m, limit)]

memory_recall_limit_for_budget ==
    [Reflex |-> 1, Standard |-> 2, Deep |-> 4, Recovery |-> 6]

record_reasoning_profile(v, t, budget, items) ==
    record(record(v, t, "reasoning_budget", budget),
           t, "recalled_memory_items", items)

record_reasoning_cycle_report(v, t, iterations) ==
    record(v, t, "reasoning_iterations", iterations)

validate_active(v) ==
    \A a \in v.active :
        /\ a.tokens <= MaxNewTokens
        /\ a.task \in DOMAIN v.cog.tasks
        /\ v.cog.tasks[a.task].objective = a.message
        /\ ~Terminal(v.cog, a.task)

(* The NCS97 checkpoint: the cognitive image, the turns with their role    *)
(* codes, and the active turn with its optional TAF97 journal.             *)
RoleCode == [User |-> 1, Assistant |-> 2]

encode_conversation_checkpoint(v) ==
    [cognitive |-> encode_cognitive_checkpoint(v.cog),
     turns |-> [n \in DOMAIN v.turns |->
                    <<RoleCode[v.turns[n].role], v.turns[n].about>>],
     active |-> v.active]

decode_conversation_checkpoint(b) ==
    [cog |-> decode_cognitive_checkpoint(b.cognitive),
     turns |-> [n \in DOMAIN b.turns |->
                  [role |-> CHOOSE r \in DOMAIN RoleCode :
                                RoleCode[r] = b.turns[n][1],
                   about |-> b.turns[n][2]]],
     active |-> b.active]

Restorable(v) ==
    /\ validate_turns(v.turns)
    /\ validate_active(v)
    /\ Decodable(encode_cognitive_checkpoint(v.cog))

-----------------------------------------------------------------------------
(* submit_chat and submit_chat_reserved.                                   *)

(* choose_reasoning_budget: any budget, but Recovery exactly after a turn  *)
(* that was paused or failed.                                              *)
Budgets(v) ==
    IF prior_conversation_failure(v) THEN {"Recovery"}
                                     ELSE ReasoningBudget \ {"Recovery"}

recover_orphaned_chat_turn(v) ==
    IF v.active = {} THEN v
    ELSE cancel_turn(v, CHOOSE a \in v.active : TRUE)

(* compile_with_memory keeps as many of the recalled memories as fit.      *)
submit_chat ==
    /\ draft = {}
    /\ session \in {"None", "Failed"}
    /\ Len(conv.cog.tasks) < MaxChatTasks
    /\ LET base == recover_orphaned_chat_turn(conv) IN
       \E m \in Messages, budget \in Budgets(base) :
          LET limit == memory_recall_limit_for_budget[budget]
              begun == begin_turn(recall_conversation_context(base, m, limit), m)
              t == Len(begun.cog.tasks)
              hits == Cardinality(Hits(base.cog, m, limit))
          IN  \E kept \in 0..hits :
              /\ conv' = base
              /\ session' = IF conv.active = {} THEN session ELSE "None"
              /\ draft' =
                   {[state |-> record_reasoning_profile(begun, t, budget, kept),
                     task |-> t, done |-> 0, left |-> iterations_for_budget[budget]]}

(* An iteration of the reasoning cycle in the copy: a Work directive, a    *)
(* probe of the model that may fail, and a verifier that accepts it or     *)
(* rejects it.  A cycle that does not leave the task Running ends the call.*)
reasoning_iteration ==
    \E d \in draft :
        /\ d.left > 0
        /\ \E o \in Iteration(d.state.cog, d.task, {[op |-> "Work"]},
                              {"Accept", "Reject"}) :
              draft' = IF o.on
                       THEN {[d EXCEPT !.state.cog = o.state,
                                       !.done = @ + 1, !.left = @ - 1]}
                       ELSE {}
        /\ UNCHANGED <<conv, session>>

(* What execute_android_verified_actions leaves of a plan of n actions     *)
(* with `done` of them committed: suspended or retryable at a later one,   *)
(* or completed, and then the prompt is the verified synthesis.            *)
Suspended(v, a, n, done) ==
    {install_action_fabric_checkpoint(v, a, k) : k \in done .. n - 1}

(* Mutant: the journal is cleared, the prompt is not replaced.             *)
CompletedUngrounded(v, a, n) ==
    record_action_planner(clear_action_fabric_checkpoint(v, a),
                          a.task, "actions", n)

Completed(v, a, n) ==
    LET grounded == [v EXCEPT !.active =
                        {[a EXCEPT !.fabric = {}, !.synthesis = TRUE]}]
    IN  record_action_planner(
            record(grounded, a.task, "verified_synthesis", "ready"),
            a.task, "actions", n)

Planned(d) ==
    LET v == record_reasoning_cycle_report(d.state, d.task, d.done)
        a == CHOOSE a \in v.active : TRUE
        Plan(n) == install_action_plan(v, d.task, n)
    IN  {[state |-> record_action_planner(v, d.task, s, 0), status |-> "Running"]
            : s \in {"direct", "invalid"}}
        \cup {[state |-> record_action_planner(
                    record_chat_approval(Plan(n), d.task, "pending"),
                    d.task, "actions", 0),
               status |-> "WaitingApproval"] : n \in PlanLengths}
        \cup UNION {{[state |-> x, status |-> "Running"] :
                x \in {Completed(Plan(n), a, n)}
                      \cup Suspended(Plan(n), a, n, 0)} : n \in PlanLengths}

submit_chat_commit ==
    \E d \in draft :
        /\ d.left = 0
        /\ \E p \in Planned(d) : conv' = p.state /\ session' = p.status
        /\ draft' = {}

(* Planning, an adapter or a limit fails the call: the copy is dropped.    *)
submit_chat_fails ==
    /\ draft # {}
    /\ draft' = {}
    /\ UNCHANGED <<conv, session>>

-----------------------------------------------------------------------------
(* resolve_chat_approval, next_chat_event, cancel_chat and restore.        *)

Step(v, s) == conv' = v /\ session' = s /\ UNCHANGED draft

Pending == {"pending", "reconfirm", "approved-executing"}

resolve_chat_approval ==
    /\ session = "WaitingApproval"
    /\ \E a \in conv.active :
          /\ approval(conv, a.task) \in Pending
          /\ \/ Step(cancel_turn(record_chat_approval(conv, a.task, "denied"), a),
                     "None")
             \/ /\ conv.cog.world[<<a.task, "approval">>].revision < MaxApprovals
                /\ Step(install_action_fabric_checkpoint(
                        record_chat_approval(conv, a.task, "approved-executing"),
                        a, IF a.fabric = {} THEN 0
                           ELSE CHOOSE k \in a.fabric : TRUE),
                     "Running")

advance_pending_chat_actions ==
    /\ session = "Running"
    /\ \E a \in conv.active : \E done \in a.fabric :
       LET n == fact(conv, a.task, "action_protocol", 0)
           external == approval(conv, a.task) # "none"
           finished == Completed(conv, a, n)
       IN  /\ external => approval(conv, a.task) = "approved-executing"
           /\ \/ Step(IF external
                      THEN record_chat_approval(finished, a.task, "approved")
                      ELSE finished, "Running")
              \/ \E v \in Suspended(conv, a, n, done) :
                    \/ Step(v, "Running")
                    \/ external /\ Step(record_chat_approval(v, a.task, "reconfirm"),
                                        "WaitingApproval")

(* next_chat_event generates only when no journal is pending.              *)
Ready(v, a) == a.fabric = {}

next_chat_event ==
    /\ session = "Running"
    /\ \E a \in conv.active :
       /\ Ready(conv, a)
       /\ a.tokens < MaxNewTokens
       /\ \E text, eos \in BOOLEAN :
          LET v == append_generated(conv, a, text)
              b == CHOOSE b \in v.active : TRUE
              full == eos \/ b.tokens = MaxNewTokens
          IN  CASE ~full -> Step(v, "Running")
                [] full /\ CanComplete(v, b) -> Step(complete_turn(v, b), "None")
                [] OTHER -> Step(v, "Failed")

(* A turn restored with every token it may have: committed, or refused.    *)
next_chat_event_full ==
    /\ session = "Running"
    /\ \E a \in conv.active :
       /\ Ready(conv, a)
       /\ a.tokens = MaxNewTokens
       /\ IF CanComplete(conv, a) THEN Step(complete_turn(conv, a), "None")
                                  ELSE Step(conv, "Failed")

(* The model, an adapter or the codec refuses: the turn stays.             *)
next_chat_event_error ==
    /\ session = "Running"
    /\ Step(conv, "Failed")

cancel_chat ==
    /\ session \in {"Running", "WaitingApproval"}
    /\ \E a \in conv.active : Step(cancel_turn(conv, a), "None")

(* The conversation is saved, the process ends and another restores it; a  *)
(* submit under way is lost.                                               *)
restore_chat_checkpoint ==
    /\ Restorable(conv)
    /\ LET v == decode_conversation_checkpoint(encode_conversation_checkpoint(conv))
           Approval(a) == approval(v, a.task)
       IN  \/ /\ v.active = {}
              /\ conv' = v /\ session' = "None"
           \/ \E a \in v.active :
              /\ conv' = IF Approval(a) = "approved-executing"
                         THEN record_chat_approval(v, a.task, "reconfirm") ELSE v
              /\ session' = IF Approval(a) \in Pending THEN "WaitingApproval"
                                                       ELSE "Running"
    /\ draft' = {}

ConversationNext ==
    \/ submit_chat \/ reasoning_iteration
    \/ submit_chat_commit \/ submit_chat_fails
    \/ resolve_chat_approval \/ advance_pending_chat_actions
    \/ next_chat_event \/ next_chat_event_full \/ next_chat_event_error
    \/ cancel_chat \/ restore_chat_checkpoint

ConversationSpec == ConversationInit /\ [][ConversationNext]_convVars

-----------------------------------------------------------------------------
(* Every state of the conversation, and of a copy a submit works on, can   *)
(* be checkpointed, and the checkpoint decodes to the same state.          *)
Checkpointable ==
    \A v \in {conv} \cup {d.state : d \in draft} :
        /\ Restorable(v)
        /\ decode_conversation_checkpoint(encode_conversation_checkpoint(v)) = v

(* Turns, tasks and memory agree: every completed task is an exchange of   *)
(* the history and a dialogue memory, in the same number and order, and a  *)
(* task that is neither finished nor paused is that of the active turn.    *)
TurnsMatchTasks ==
    LET tasks == conv.cog.tasks
        recs == conv.cog.memory.records
        answered == {t \in DOMAIN tasks : tasks[t].status = "Completed"}
        Place(t) == Cardinality({u \in answered : u <= t})
    IN  /\ Len(conv.turns) = 2 * Cardinality(answered)
        /\ \A t \in answered : conv.turns[2 * Place(t)].about = tasks[t].objective
        /\ Cardinality({i \in DOMAIN recs : Tagged(recs[i])}) = Cardinality(answered)
        /\ {t \in DOMAIN tasks : tasks[t].status \in {"Planned", "Running"}}
              = {a.task : a \in conv.active}

(* An answer rests on verified results: once a turn with a plan has a      *)
(* token, all actions of the plan were verified and its prompt is the      *)
(* verified synthesis; an external plan was approved.                      *)
AnswerIsGrounded ==
    \A a \in conv.active :
        LET n == fact(conv, a.task, "action_count", 0) IN
        a.tokens > 0 /\ n > 0 =>
            /\ a.synthesis
            /\ fact(conv, a.task, "verified_action_count", 0) = n
            /\ approval(conv, a.task) \in {"none", "approved"}

(* The conversation implements the dialogue its user sees.                 *)
D == INSTANCE Dialogue WITH
        Questions <- Messages,
        history <- [n \in 1 .. Len(conv.turns) \div 2 |-> conv.turns[2 * n].about],
        open <- {a.message : a \in conv.active}

ImplementsDialogue == D!DialogueSpec
=============================================================================
