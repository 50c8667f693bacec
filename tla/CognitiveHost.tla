--------------------------- MODULE CognitiveHost ----------------------------
(***************************************************************************)
(* A host at work on one CognitiveRuntime (cognition.rs): it adds goals    *)
(* and tasks, lets the runtime advance a task, and restarts from a         *)
(* checkpoint.  `advance` calls the host's planner, executor and verifier  *)
(* between its steps, so one iteration of its loop is one step here.       *)
(***************************************************************************)
EXTENDS Cognition

CONSTANTS
    StepBudgets,   \* the max_steps that intents may carry
    Topics,        \* the terms that queries and contents are about
    WorldKeys,     \* the keys of world facts
    MaxGoals, MaxTasks, MaxDeltas, MaxMemory, MaxRevision   \* bounds

ASSUME CognitiveHostAssumption ==
    /\ StepBudgets \subseteq Nat \ {0}
    /\ {MaxGoals, MaxTasks, MaxDeltas, MaxMemory, MaxRevision} \subseteq Nat

VARIABLES
    cog,     \* CognitiveRuntime.state
    cycle    \* {}, or the call of advance under way: its task, iterations left

cogVars == <<cog, cycle>>

(* The directives a planner may choose; a note is about a topic.           *)
Directive ==
    [op : {"Recall", "RecordMemory"}, topic : Topics]
        \cup [op : {"UpdateWorld"}, key : WorldKeys]
        \cup [op : {"Work", "Complete"}]

CognitionInit ==
    /\ cog = CognitiveState
    /\ cycle = {}

(* A call by which the host changes the state between two cycles.          *)
HostCall(next) ==
    /\ cycle = {}
    /\ cog' = next
    /\ UNCHANGED cycle

HostAddGoal == Len(cog.goals) < MaxGoals /\ HostCall(add_goal(cog))

HostSubmitTask ==
    /\ Len(cog.tasks) < MaxTasks
    /\ \E g \in {{}} \cup {{g} : g \in DOMAIN cog.goals},
          o \in Topics, m \in StepBudgets :
          HostCall(submit_task(cog, g, o, m))

HostForget == \E i \in DOMAIN cog.memory.records : HostCall(forget(cog, i))

HostInstallDelta == Len(cog.deltas) < MaxDeltas /\ HostCall(install_delta(cog))

(* activate_delta: the hook may refuse, and then nothing changes.          *)
HostActivateDelta ==
    \E d \in DOMAIN cog.deltas : HostCall(activate_delta(cog, d))

(* start_external_task, pause_external_task, complete_external_task: the   *)
(* host works on a task itself.  The completion looks neither at the       *)
(* task's status nor at its budget.  Bound: the latter two store a memory. *)
HostStartTask == \E t \in DOMAIN cog.tasks : HostCall(start_external_task(cog, t))

HostPauseTask ==
    /\ cog.memory.next_id <= MaxMemory
    /\ \E t \in DOMAIN cog.tasks : HostCall(pause_external_task(cog, t))

HostCompleteTask ==
    /\ cog.memory.next_id <= MaxMemory
    /\ \E t \in DOMAIN cog.tasks : HostCall(complete_external_task(cog, t))

advance ==
    /\ cycle = {}
    /\ \E t \in DOMAIN cog.tasks, b \in ReasoningBudget :
          /\ ~Terminal(cog, t)
          /\ cog' = [cog EXCEPT !.tasks[t].status = "Running"]
          /\ cycle' = {[task |-> t, left |-> iterations_for_budget[b]]}

(* Bounds: every iteration stores at most one memory.                      *)
advance_iteration ==
    /\ cog.memory.next_id <= MaxMemory
    /\ \E y \in cycle :
       \E o \in Iteration(cog, y.task, Directive, {"Accept", "Retry", "Reject"}) :
          /\ \A k \in DOMAIN o.state.world :
                o.state.world[k].revision <= MaxRevision
          /\ cog' = o.state
          /\ cycle' = IF o.on /\ y.left > 1 THEN {[y EXCEPT !.left = @ - 1]}
                                            ELSE {}

(* The runtime is saved, the process ends, and a new one starts from the   *)
(* checkpoint.  A death that loses unsaved work leads back to such a state.*)
(* A state the validator refuses is not encoded, so it cannot be saved.    *)
HostRestart ==
    /\ cycle = {}
    /\ validate_state(cog)
    /\ LET b == encode_cognitive_checkpoint(cog) IN
          /\ Decodable(b)
          /\ cog' = decode_cognitive_checkpoint(b)
    /\ UNCHANGED cycle

CognitionNext ==
    \/ HostAddGoal \/ HostSubmitTask \/ HostForget
    \/ HostInstallDelta \/ HostActivateDelta
    \/ HostStartTask \/ HostPauseTask \/ HostCompleteTask
    \/ advance \/ advance_iteration
    \/ HostRestart

CognitionSpec == CognitionInit /\ [][CognitionNext]_cogVars

-----------------------------------------------------------------------------
OverBudget(c, t) == c.tasks[t].steps_taken > c.tasks[t].max_steps

(* Nothing is lost in the SIK97 image of a state a host reaches, at any    *)
(* point of a cycle, and only one thing makes encode_cognitive_checkpoint  *)
(* refuse a state: a completed task with more steps than its budget.  No   *)
(* task that is still open, and no failed one, ever has.                   *)
CognitionRestorable ==
    LET image == encode_cognitive_checkpoint(cog)
        over == {t \in DOMAIN cog.tasks : OverBudget(cog, t)}
    IN  /\ decode_cognitive_checkpoint(image) = cog
        /\ \A t \in over : cog.tasks[t].status = "Completed"
        /\ over = {} => validate_state(cog) /\ Decodable(image)

(* A goal is finished exactly when one of its tasks is, in the way of a    *)
(* task of it: commit_directive and fail_task carry the outcome over,      *)
(* whatever tasks share the goal.                                          *)
GoalReflectsTask ==
    \A g \in DOMAIN cog.goals :
        LET ends == {cog.tasks[t].status : t \in
                        {t \in DOMAIN cog.tasks : g \in cog.tasks[t].goal_id}}
                    \cap TerminalTask
        IN  IF ends = {} THEN cog.goals[g] = "Active" ELSE cog.goals[g] \in ends

(* advance, a restart and the other calls never touch a finished task and  *)
(* never take a task over its budget: only complete_external_task of the   *)
(* very task does.  The id of a forgotten memory is never given out again, *)
(* not after a restart either.                                             *)
FinishedTaskStays ==
    [][/\ \A t \in DOMAIN cog.tasks :
             \/ cog' = complete_external_task(cog, t)
             \/ /\ Terminal(cog, t) => cog'.tasks[t] = cog.tasks[t]
                /\ OverBudget(cog', t) => OverBudget(cog, t)
       /\ \A i \in DOMAIN cog'.memory.records \ DOMAIN cog.memory.records :
             i >= cog.memory.next_id]_cogVars
=============================================================================
