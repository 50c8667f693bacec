----------------------------- MODULE Cognition ------------------------------
(***************************************************************************)
(* The cognitive runtime of ntd-runtime (cognition.rs), its sovereign      *)
(* memory (memory.rs) and its SIK97 checkpoint (checkpoint.rs).            *)
(*                                                                         *)
(* A cognitive state is a record; every method that changes one is an      *)
(* operator from a state to the next.  Module CognitiveHost runs one state *)
(* on its own; module Conversation works on copies of one, as the          *)
(* assistant does.                                                         *)
(*                                                                         *)
(* Ids of goals, tasks and deltas are positions: nothing is ever removed.  *)
(* Memories can be forgotten, so their ids are kept.  An Option is a set   *)
(* of at most one element.  The logical tick and the texts are left out;   *)
(* of a memory's content the topic (its normalized terms) remains.         *)
(***************************************************************************)
EXTENDS Integers, Sequences, FiniteSets

TaskStatus == {"Planned", "Running", "Completed", "Failed", "Paused"}

TerminalTask == {"Completed", "Failed"}

(* What a memory records, and how much it weighs.  The runtime writes all  *)
(* but "note", which a RecordMemory directive writes, and "dialogue", the  *)
(* conversation's.                                                         *)
Importance ==
    [pause |-> 400, retry |-> 600, completion |-> 700, failure |-> 800,
     dialogue |-> 650, note |-> 500]

(* The topic of the memories the runtime words itself: "task 3 failed: ..."*)
OwnWords == "task"

EmptyMemory == [next_id |-> 1, records |-> <<>>]

CognitiveState ==
    [goals |-> <<>>, tasks |-> <<>>, world |-> <<>>, memory |-> EmptyMemory,
     deltas |-> <<>>]

(* BTreeMap::insert.                                                       *)
Inserted(map, key, item) ==
    [k \in DOMAIN map \cup {key} |-> IF k = key THEN item ELSE map[k]]

-----------------------------------------------------------------------------
(* SovereignMemory.                                                        *)

(* Mutant: ids taken from the number of records.                           *)
store_by_count(c, about, topic) ==
    LET n == Cardinality(DOMAIN c.memory.records) + 1 IN
    [c EXCEPT !.memory =
        [next_id |-> n + 1,
         records |-> Inserted(@.records, n,
                            [about |-> about, topic |-> topic, recalls |-> 0])]]

store(c, about, topic) ==
    [c EXCEPT !.memory =
        [next_id |-> @.next_id + 1,
         records |-> Inserted(@.records, @.next_id,
                            [about |-> about, topic |-> topic, recalls |-> 0])]]

forget(c, id) ==
    [c EXCEPT !.memory.records =
        [i \in DOMAIN @ \ {id} |-> @[i]]]

Least(a, b) == IF a < b THEN a ELSE b

Match(b) == IF b THEN 1 ELSE 0

Tagged(r) == r.about = "dialogue"     \* carries the tag "conversation"

(* score_record of a query for one topic and the tag "conversation".       *)
score_record(r, topic) ==
    1000 * Match(r.topic = topic) + 500 * Match(Tagged(r))
        + Importance[r.about] + Least(r.recalls, 100)

(* retrieve: the `limit` best of the records that match in a term or in a  *)
(* tag, equal scores by id; each of them is counted as recalled.           *)
Hits(c, topic, limit) ==
    LET recs == c.memory.records
        found == {i \in DOMAIN recs :
                    recs[i].topic = topic \/ Tagged(recs[i])}
        Before(j, i) ==
            \/ score_record(recs[j], topic) > score_record(recs[i], topic)
            \/ /\ score_record(recs[j], topic) = score_record(recs[i], topic)
               /\ j < i
    IN  {i \in found : Cardinality({j \in found : Before(j, i)}) < limit}

retrieve(c, topic, limit) ==
    LET recs == c.memory.records
        hits == Hits(c, topic, limit)
    IN  [c EXCEPT !.memory.records =
            [i \in DOMAIN recs |->
                [recs[i] EXCEPT !.recalls = @ + Match(i \in hits)]]]

-----------------------------------------------------------------------------
(* CognitiveState and CognitiveRuntime.                                    *)

add_goal(c) == [c EXCEPT !.goals = Append(@, "Active")]

submit_task(c, goal_id, objective, max_steps) ==
    [c EXCEPT !.tasks = Append(@,
        [goal_id |-> goal_id, objective |-> objective,
         max_steps |-> max_steps, status |-> "Planned", steps_taken |-> 0])]

set_world_fact(c, key, value) ==
    LET revision == IF key \in DOMAIN c.world THEN c.world[key].revision + 1
                                              ELSE 1
    IN  [c EXCEPT !.world =
            Inserted(@, key, [value |-> value, revision |-> revision])]

install_delta(c) == [c EXCEPT !.deltas = Append(@, FALSE)]

activate_delta(c, d) == [c EXCEPT !.deltas[d] = TRUE]

Terminal(c, t) == c.tasks[t].status \in TerminalTask

start_external_task(c, t) ==
    IF Terminal(c, t) THEN c ELSE [c EXCEPT !.tasks[t].status = "Running"]

pause_external_task(c, t) ==
    IF Terminal(c, t) THEN c
    ELSE store([c EXCEPT !.tasks[t].status = "Paused"],
               "pause", OwnWords)

Settle(c, t, status) ==
    [c EXCEPT !.goals = [g \in DOMAIN @ |->
        IF g \in c.tasks[t].goal_id THEN status ELSE @[g]]]

(* Mutant: the linked goal is left as it was.                              *)
fail_task_only(c, t) ==
    store([c EXCEPT !.tasks[t].status = "Failed"],
          "failure", OwnWords)

fail_task(c, t) ==
    store(Settle([c EXCEPT !.tasks[t].status = "Failed"], t, "Failed"),
          "failure", OwnWords)

(* A directive is a record: its op, and the topic or the key it is about.  *)
execute_directive(c, d) ==
    IF d.op = "Recall" THEN retrieve(c, d.topic, 1) ELSE c

commit_directive(c, t, d) ==
    LET done ==
          CASE d.op = "RecordMemory" -> store(c, "note", d.topic)
            [] d.op = "UpdateWorld"  -> set_world_fact(c, d.key, "fact")
            [] d.op = "Complete"     ->
                 store(Settle(c, t, "Completed"),
                       "completion", OwnWords)
            [] OTHER                 -> c
    IN  [done EXCEPT !.tasks[t] =
            [done.tasks[t] EXCEPT
                !.steps_taken = @ + 1,
                !.status = IF d.op = "Complete" THEN "Completed" ELSE @]]

complete_external_task(c, t) == commit_directive(c, t, [op |-> "Complete"])

iterations_for_budget ==
    [Reflex |-> 1, Standard |-> 2, Deep |-> 4, Recovery |-> 3]

ReasoningBudget == DOMAIN iterations_for_budget

(* Mutant: the step budget is not looked at.                               *)
IterationUnbounded(c, t, directives, decisions) ==
    UNION { { [state |-> commit_directive(execute_directive(c, d), t, d),
               on |-> d.op # "Complete"] : d \in directives },
            {[state |-> c, on |-> FALSE], [state |-> fail_task(c, t), on |-> FALSE]} }

(* One iteration of advance: the states it may leave, and whether the loop *)
(* goes on.  A planner, an executor or the memory may refuse; the verifier *)
(* accepts, asks for a retry or rejects.                                   *)
Iteration(c, t, directives, decisions) ==
    IF c.tasks[t].steps_taken >= c.tasks[t].max_steps
    THEN {[state |-> fail_task(c, t), on |-> FALSE]}
    ELSE {[state |-> c, on |-> FALSE]} \cup
         { LET e == execute_directive(c, v[1]) IN
           CASE v[2] = "Accept" -> [state |-> commit_directive(e, t, v[1]),
                                    on |-> v[1].op # "Complete"]
             [] v[2] = "Retry"  -> [state |-> store(e, "retry", OwnWords),
                                    on |-> TRUE]
             [] v[2] = "Reject" -> [state |-> fail_task(e, t), on |-> FALSE]
           : v \in directives \X decisions }

validate_state(c) ==
    /\ \A t \in DOMAIN c.tasks :
          /\ c.tasks[t].max_steps > 0
          /\ c.tasks[t].steps_taken <= c.tasks[t].max_steps
          /\ c.tasks[t].goal_id \subseteq DOMAIN c.goals
    /\ \A k \in DOMAIN c.world : c.world[k].revision > 0
    /\ \A i \in DOMAIN c.memory.records :      \* SovereignMemory::from_parts
          i > 0 /\ i < c.memory.next_id

-----------------------------------------------------------------------------
(* The SIK97 codec: cursors, then every section in the order of its ids.   *)

StatusCode ==
    [Planned |-> 1, Running |-> 2, Completed |-> 3, Failed |-> 4, Paused |-> 5]

encode_task(t, task) ==
    <<t, IF task.goal_id = {} THEN 0 ELSE CHOOSE g \in task.goal_id : TRUE,
      StatusCode[task.status], task.steps_taken, task.objective, task.max_steps>>

(* Mutant: the fields after the status come in another order.              *)
decode_task_swapped(b) ==
    [goal_id |-> IF b[2] = 0 THEN {} ELSE {b[2]},
     status |-> CHOOSE s \in TaskStatus : StatusCode[s] = b[3],
     steps_taken |-> b[6], objective |-> b[5], max_steps |-> b[4]]

decode_task(b) ==
    [goal_id |-> IF b[2] = 0 THEN {} ELSE {b[2]},
     status |-> CHOOSE s \in TaskStatus : StatusCode[s] = b[3],
     steps_taken |-> b[4], objective |-> b[5], max_steps |-> b[6]]

(* The ids of the records, in increasing order.                            *)
Ascending(S) ==
    [n \in 1..Cardinality(S) |->
        CHOOSE i \in S : Cardinality({j \in S : j < i}) = n - 1]

encode_memory_record(c, i) == <<i, c.memory.records[i]>>

encode_cognitive_checkpoint(c) ==
    [next_memory_id |-> c.memory.next_id,
     goals   |-> [g \in DOMAIN c.goals |-> <<g, c.goals[g]>>],
     tasks   |-> [t \in DOMAIN c.tasks |-> encode_task(t, c.tasks[t])],
     world   |-> {<<k, c.world[k]>> : k \in DOMAIN c.world},
     records |-> LET ids == Ascending(DOMAIN c.memory.records)
                 IN  [n \in DOMAIN ids |-> encode_memory_record(c, ids[n])],
     deltas  |-> [d \in DOMAIN c.deltas |-> <<d, c.deltas[d]>>]]

(* ensure_increasing, on the first field of every item of a section.       *)
Increasing(items) ==
    \A n \in DOMAIN items :
        items[n][1] > (IF n = 1 THEN 0 ELSE items[n - 1][1])

decode_cognitive_checkpoint(b) ==
    [goals  |-> [g \in DOMAIN b.goals |-> b.goals[g][2]],
     tasks  |-> [t \in DOMAIN b.tasks |-> decode_task(b.tasks[t])],
     world  |-> [k \in {w[1] : w \in b.world} |->
                    (CHOOSE w \in b.world : w[1] = k)[2]],
     memory |-> [next_id |-> b.next_memory_id,
                 records |->
                    [i \in {b.records[n][1] : n \in DOMAIN b.records} |->
                        LET n == CHOOSE m \in DOMAIN b.records :
                                    b.records[m][1] = i
                        IN  b.records[n][2]]],
     deltas |-> [d \in DOMAIN b.deltas |-> b.deltas[d][2]]]

Decodable(b) ==
    /\ Increasing(b.goals) /\ Increasing(b.tasks)
    /\ Increasing(b.records) /\ Increasing(b.deltas)
    /\ validate_state(decode_cognitive_checkpoint(b))
=============================================================================
