-------------------------- MODULE CognitionProofs ---------------------------
(***************************************************************************)
(* Theorems about the cognitive runtime on its own (CognitiveHost) and     *)
(* under the assistant's conversation (Conversation): what each method of  *)
(* the runtime does to a state, that the SIK97 and NCS97 checkpoints give  *)
(* back the state they were made of, and that the conversation implements  *)
(* the dialogue its user sees.                                             *)
(***************************************************************************)
EXTENDS CognitiveHost, Conversation, FiniteSetTheorems, SequenceTheorems, TLAPS

-----------------------------------------------------------------------------
(* A cognitive state.  K says what is known of its tasks: their objectives, *)
(* and the statuses in which one may have more steps than its budget.       *)

GoalStatus == {"Active", "Completed", "Failed"}

TaskRecord(K) ==
    [goal_id : {{}} \cup {{g} : g \in Nat \ {0}}, objective : K.objectives,
     max_steps : Nat \ {0}, status : TaskStatus, steps_taken : Nat]

TaskOK(c, task, K) ==
    /\ task.steps_taken <= task.max_steps \/ task.status \in K.overrun
    /\ task.goal_id \subseteq DOMAIN c.goals

(* A host may complete a task beyond its budget; the conversation never    *)
(* does.                                                                   *)
HostTasks == [objectives |-> Topics, overrun |-> {"Completed"}]
ChatTasks == [objectives |-> Messages, overrun |-> {}]

LEMMA KindsOfTasks ==
    /\ HostTasks.objectives = Topics /\ HostTasks.overrun = {"Completed"}
    /\ ChatTasks.objectives = Messages /\ ChatTasks.overrun = {}
  BY DEF HostTasks, ChatTasks

WorldOK(w) ==
    /\ w = [k \in DOMAIN w |-> w[k]]
    /\ \A k \in DOMAIN w :
          /\ w[k] = [value |-> w[k].value, revision |-> w[k].revision]
          /\ w[k].revision \in Nat \ {0}

MemoryOK(m) ==
    /\ m = [next_id |-> m.next_id, records |-> m.records]
    /\ m.next_id \in Nat \ {0}
    /\ m.records = [i \in DOMAIN m.records |-> m.records[i]]
    /\ DOMAIN m.records \subseteq 1 .. m.next_id - 1
    /\ \A i \in DOMAIN m.records :
          m.records[i] = [about |-> m.records[i].about, topic |-> m.records[i].topic,
                          recalls |-> m.records[i].recalls]

CogOK(c, K) ==
    /\ c = [goals |-> c.goals, tasks |-> c.tasks, world |-> c.world, memory |-> c.memory,
            deltas |-> c.deltas]
    /\ c.goals \in Seq(GoalStatus) /\ c.deltas \in Seq(BOOLEAN)
    /\ c.tasks \in Seq(TaskRecord(K))
    /\ \A t \in 1..Len(c.tasks) : TaskOK(c, c.tasks[t], K)
    /\ WorldOK(c.world)
    /\ MemoryOK(c.memory)

LEMMA FreshState == ASSUME NEW K PROVE CogOK(CognitiveState, K)
  <1>1. WorldOK(<<>>)
    BY DEF WorldOK
  <1>2. MemoryOK(EmptyMemory)
    BY DEF MemoryOK, EmptyMemory
  <1> QED BY <1>1, <1>2 DEF CogOK, CognitiveState

(* A state with another memory, with another task, with other facts.       *)
LEMMA MemoryChanges ==
    ASSUME NEW K, NEW c, CogOK(c, K), NEW m, MemoryOK(m)
    PROVE  LET s == [c EXCEPT !.memory = m] IN
           /\ CogOK(s, K) /\ s.memory = m
           /\ s.goals = c.goals /\ s.tasks = c.tasks /\ s.world = c.world /\ s.deltas = c.deltas
  <1> DEFINE s == [c EXCEPT !.memory = m]
  <1>1. c = [goals |-> c.goals, tasks |-> c.tasks, world |-> c.world, memory |-> c.memory,
             deltas |-> c.deltas]
    BY DEF CogOK
  <1>2. s = [goals |-> c.goals, tasks |-> c.tasks, world |-> c.world, memory |-> m,
             deltas |-> c.deltas]
    BY <1>1
  <1> HIDE DEF s
  <1>3. CogOK(s, K)
    BY <1>2 DEF CogOK, TaskOK
  <1> QED BY <1>2, <1>3 DEF s

SetTask(c, t, task) == [c EXCEPT !.tasks[t] = task]

LEMMA TaskChanges ==
    ASSUME NEW K, NEW c, CogOK(c, K), NEW t \in 1..Len(c.tasks),
           NEW task \in TaskRecord(K), TaskOK(c, task, K)
    PROVE  LET s == SetTask(c, t, task) IN
           /\ CogOK(s, K) /\ Len(s.tasks) = Len(c.tasks) /\ s.tasks[t] = task
           /\ \A u \in 1..Len(c.tasks) : u # t => s.tasks[u] = c.tasks[u]
           /\ s.goals = c.goals /\ s.world = c.world /\ s.memory = c.memory /\ s.deltas = c.deltas
  <1> DEFINE s == SetTask(c, t, task)
             ts == [c.tasks EXCEPT ![t] = task]
  <1>1. /\ ts \in Seq(TaskRecord(K)) /\ Len(ts) = Len(c.tasks) /\ ts[t] = task
        /\ \A u \in 1..Len(c.tasks) : u # t => ts[u] = c.tasks[u]
    BY ExceptSeq, LenProperties DEF CogOK
  <1>2. s = [goals |-> c.goals, tasks |-> ts, world |-> c.world, memory |-> c.memory,
             deltas |-> c.deltas]
    <2>1. c = [goals |-> c.goals, tasks |-> c.tasks, world |-> c.world, memory |-> c.memory,
               deltas |-> c.deltas]
      BY DEF CogOK
    <2>2. s = [c EXCEPT !.tasks = ts]
      BY DEF SetTask
    <2> HIDE DEF s, ts
    <2> QED BY <2>1, <2>2
  <1> HIDE DEF s, ts
  <1>3. \A u \in 1..Len(ts) : TaskOK(s, ts[u], K)
    BY <1>1, <1>2 DEF CogOK, TaskOK
  <1>4. CogOK(s, K)
    BY <1>1, <1>2, <1>3 DEF CogOK
  <1> QED BY <1>1, <1>2, <1>4 DEF s

LEMMA FactFields ==
    ASSUME NEW K, NEW c, CogOK(c, K), NEW key, NEW value
    PROVE  LET s == set_world_fact(c, key, value) IN
           /\ CogOK(s, K)
           /\ s.goals = c.goals /\ s.tasks = c.tasks /\ s.memory = c.memory /\ s.deltas = c.deltas
           /\ DOMAIN s.world = DOMAIN c.world \cup {key}
           /\ s.world[key].value = value
           /\ \A k \in DOMAIN c.world : k # key => s.world[k] = c.world[k]
  <1> DEFINE s == set_world_fact(c, key, value)
             n == IF key \in DOMAIN c.world THEN c.world[key].revision + 1 ELSE 1
             w == Inserted(c.world, key, [value |-> value, revision |-> n])
  <1>1. n \in Nat \ {0}
    BY DEF CogOK, WorldOK
  <1>2. s = [goals |-> c.goals, tasks |-> c.tasks, world |-> w, memory |-> c.memory,
             deltas |-> c.deltas]
    BY DEF CogOK, set_world_fact
  <1> HIDE DEF n, s
  <1>3. /\ DOMAIN w = DOMAIN c.world \cup {key} /\ w = [k \in DOMAIN w |-> w[k]]
        /\ w[key] = [value |-> value, revision |-> n]
        /\ \A k \in DOMAIN c.world : k # key => w[k] = c.world[k]
    BY DEF Inserted
  <1> HIDE DEF w
  <1>4. WorldOK(w)
    BY <1>1, <1>3 DEF CogOK, WorldOK
  <1>5. CogOK(s, K)
    BY <1>2, <1>4 DEF CogOK, TaskOK
  <1> QED BY <1>2, <1>3, <1>5 DEF s

(* A memory is stored.                                                     *)
LEMMA StoreFields ==
    ASSUME NEW K, NEW c, CogOK(c, K), NEW about, NEW topic
    PROVE  LET s == store(c, about, topic) IN
           /\ CogOK(s, K)
           /\ s.goals = c.goals /\ s.tasks = c.tasks /\ s.world = c.world /\ s.deltas = c.deltas
           /\ s.memory.next_id = c.memory.next_id + 1
           /\ DOMAIN s.memory.records = DOMAIN c.memory.records \cup {c.memory.next_id}
           /\ \A i \in DOMAIN c.memory.records : s.memory.records[i] = c.memory.records[i]
           /\ s.memory.records[c.memory.next_id].about = about
  <1> DEFINE s == store(c, about, topic)
             n == c.memory.next_id
             r == c.memory.records
             new == Inserted(r, n, [about |-> about, topic |-> topic, recalls |-> 0])
             m == [next_id |-> n + 1, records |-> new]
  <1>1. s = [c EXCEPT !.memory = m] /\ MemoryOK(c.memory)
    BY DEF CogOK, store
  <1>2. n \in Nat \ {0} /\ DOMAIN r \subseteq 1 .. n - 1
        /\ \A i \in DOMAIN r : r[i] = [about |-> r[i].about, topic |-> r[i].topic,
                                       recalls |-> r[i].recalls]
    BY <1>1 DEF MemoryOK
  <1>3. n \notin DOMAIN r
    BY <1>2
  <1>4. /\ DOMAIN new = DOMAIN r \cup {n}
        /\ new = [i \in DOMAIN new |-> new[i]]
        /\ \A i \in DOMAIN r : new[i] = r[i]
        /\ new[n] = [about |-> about, topic |-> topic, recalls |-> 0]
    BY <1>3 DEF Inserted
  <1> HIDE DEF new, s, n, r
  <1>5. DOMAIN new \subseteq 1 .. (n + 1) - 1 /\ n + 1 \in Nat \ {0}
    BY <1>2, <1>4
  <1>6. \A i \in DOMAIN new :
             new[i] = [about |-> new[i].about, topic |-> new[i].topic, recalls |-> new[i].recalls]
    BY <1>2, <1>4
  <1>7. MemoryOK(m) /\ m.next_id = n + 1 /\ m.records = new
    BY <1>4, <1>5, <1>6 DEF MemoryOK
  <1> HIDE DEF m
  <1>8. /\ CogOK(s, K) /\ s.memory = m
        /\ s.goals = c.goals /\ s.tasks = c.tasks /\ s.world = c.world /\ s.deltas = c.deltas
    BY <1>1, <1>7, MemoryChanges
  <1> QED BY <1>4, <1>7, <1>8 DEF s, n, r

(* A memory is forgotten, and its id is not given out again.               *)
LEMMA ForgetFields ==
    ASSUME NEW K, NEW c, CogOK(c, K), NEW id
    PROVE  LET s == forget(c, id) IN
           /\ CogOK(s, K)
           /\ s.goals = c.goals /\ s.tasks = c.tasks /\ s.world = c.world /\ s.deltas = c.deltas
           /\ DOMAIN s.memory.records \subseteq DOMAIN c.memory.records
  <1> DEFINE s == forget(c, id)
             r == c.memory.records
             new == [i \in DOMAIN r \ {id} |-> r[i]]
             m == [next_id |-> c.memory.next_id, records |-> new]
  <1>1. MemoryOK(c.memory) /\ c.memory = [next_id |-> c.memory.next_id, records |-> r]
    BY DEF CogOK, MemoryOK
  <1>2. [c.memory EXCEPT !.records = new] = m
    <2> HIDE DEF new
    <2> QED BY <1>1
  <1>3. s = [c EXCEPT !.memory = m]
    BY <1>2 DEF forget
  <1>4. MemoryOK(m) /\ m.records = new /\ DOMAIN new = DOMAIN r \ {id}
    BY <1>1 DEF MemoryOK
  <1> HIDE DEF m, s
  <1>5. /\ CogOK(s, K) /\ s.memory = m
        /\ s.goals = c.goals /\ s.tasks = c.tasks /\ s.world = c.world /\ s.deltas = c.deltas
    BY <1>3, <1>4, MemoryChanges
  <1> QED BY <1>4, <1>5 DEF s

(* Memories are recalled: the same records, counted.                       *)
LEMMA RetrieveFields ==
    ASSUME NEW K, NEW c, CogOK(c, K), NEW topic, NEW limit
    PROVE  LET s == retrieve(c, topic, limit) IN
           /\ CogOK(s, K)
           /\ s.goals = c.goals /\ s.tasks = c.tasks /\ s.world = c.world /\ s.deltas = c.deltas
           /\ s.memory.next_id = c.memory.next_id
           /\ DOMAIN s.memory.records = DOMAIN c.memory.records
           /\ \A i \in DOMAIN c.memory.records :
                 s.memory.records[i].about = c.memory.records[i].about
  <1> DEFINE s == retrieve(c, topic, limit)
             r == c.memory.records
             H == Hits(c, topic, limit)
             new == [i \in DOMAIN r |-> [r[i] EXCEPT !.recalls = @ + Match(i \in H)]]
             m == [next_id |-> c.memory.next_id, records |-> new]
  <1>1. MemoryOK(c.memory) /\ c.memory = [next_id |-> c.memory.next_id, records |-> r]
    BY DEF CogOK, MemoryOK
  <1>2. [c.memory EXCEPT !.records = new] = m
    <2> HIDE DEF new
    <2> QED BY <1>1
  <1>3. s = [c EXCEPT !.memory = m]
    <2>1. s = [c EXCEPT !.memory = [c.memory EXCEPT !.records = new]]
      BY DEF retrieve
    <2> HIDE DEF new, m, s
    <2> QED BY <1>2, <2>1
  <1> HIDE DEF H
  <1>4. ASSUME NEW i \in DOMAIN r
        PROVE  /\ new[i].about = r[i].about
               /\ new[i] = [about |-> new[i].about, topic |-> new[i].topic, recalls |-> new[i].recalls]
    <2> DEFINE x == r[i]
               y == new[i]
               n == x.recalls + Match(i \in H)
    <2>1. y = [x EXCEPT !.recalls = n]
      OBVIOUS
    <2>2. x = [about |-> x.about, topic |-> x.topic, recalls |-> x.recalls]
      BY <1>1 DEF MemoryOK
    <2> HIDE DEF x, y, n
    <2>3. y.about = x.about /\ y = [about |-> y.about, topic |-> y.topic, recalls |-> y.recalls]
      BY <2>1, <2>2
    <2> QED BY <2>3 DEF x, y
  <1>5. DOMAIN new = DOMAIN r /\ new = [i \in DOMAIN new |-> new[i]]
    OBVIOUS
  <1> HIDE DEF new
  <1>6. MemoryOK(m) /\ m.records = new /\ m.next_id = c.memory.next_id
    BY <1>1, <1>4, <1>5 DEF MemoryOK
  <1> HIDE DEF m, s
  <1>7. /\ CogOK(s, K) /\ s.memory = m
        /\ s.goals = c.goals /\ s.tasks = c.tasks /\ s.world = c.world /\ s.deltas = c.deltas
    BY <1>3, <1>6, MemoryChanges
  <1> QED BY <1>4, <1>5, <1>6, <1>7 DEF s

(* A task is added.                                                        *)
LEMMA SubmitFields ==
    ASSUME NEW K, NEW c, CogOK(c, K), NEW goal, NEW objective, NEW limit,
           goal \in {{}} \cup {{g} : g \in DOMAIN c.goals}, objective \in K.objectives, limit \in Nat \ {0}
    PROVE  LET s == submit_task(c, goal, objective, limit)
               n == Len(c.tasks) + 1
           IN  /\ CogOK(s, K) /\ Len(s.tasks) = n /\ n \in Nat \ {0}
               /\ \A u \in 1..Len(c.tasks) : s.tasks[u] = c.tasks[u]
               /\ s.tasks[n].goal_id = goal /\ s.tasks[n].objective = objective
               /\ s.tasks[n].max_steps = limit
               /\ s.tasks[n].status = "Planned" /\ s.tasks[n].steps_taken = 0
               /\ s.goals = c.goals /\ s.world = c.world /\ s.memory = c.memory
               /\ s.deltas = c.deltas
  <1> DEFINE s == submit_task(c, goal, objective, limit)
             n == Len(c.tasks) + 1
             task == [goal_id |-> goal, objective |-> objective, max_steps |-> limit,
                      status |-> "Planned", steps_taken |-> 0]
             ts == Append(c.tasks, task)
  <1>1. c = [goals |-> c.goals, tasks |-> c.tasks, world |-> c.world, memory |-> c.memory,
             deltas |-> c.deltas]
        /\ c.tasks \in Seq(TaskRecord(K)) /\ c.goals \in Seq(GoalStatus)
    BY DEF CogOK
  <1>2. s = [c EXCEPT !.tasks = ts]
    BY DEF submit_task
  <1>3. goal \in {{}} \cup {{g} : g \in Nat \ {0}} /\ goal \subseteq DOMAIN c.goals
    <2>1. \A g \in DOMAIN c.goals : g \in Nat \ {0}
      BY <1>1, LenProperties
    <2> QED BY <2>1
  <1>4. task \in TaskRecord(K) /\ TaskOK(c, task, K)
    BY <1>3 DEF TaskRecord, TaskOK, TaskStatus
  <1> HIDE DEF task
  <1>5. /\ ts \in Seq(TaskRecord(K)) /\ Len(ts) = n /\ n \in Nat \ {0} /\ ts[n] = task
        /\ \A u \in 1..Len(c.tasks) : ts[u] = c.tasks[u]
    BY <1>1, <1>4, LenProperties
  <1> HIDE DEF s, ts
  <1>6. s = [goals |-> c.goals, tasks |-> ts, world |-> c.world, memory |-> c.memory,
             deltas |-> c.deltas]
    BY <1>1, <1>2
  <1>7. \A u \in 1..Len(ts) : TaskOK(s, ts[u], K)
    <2> SUFFICES ASSUME NEW u \in 1..Len(ts) PROVE TaskOK(s, ts[u], K)
      OBVIOUS
    <2>1. u \in 1..Len(c.tasks) \/ u = n
      BY <1>1, <1>5, LenProperties
    <2>2. s.goals = c.goals
      BY <1>6
    <2> QED BY <1>4, <1>5, <2>1, <2>2 DEF CogOK, TaskOK
  <1>8. CogOK(s, K)
    BY <1>5, <1>6, <1>7 DEF CogOK
  <1> QED BY <1>5, <1>6, <1>8 DEF s, task

(* The goals a task is for take its outcome.                               *)
LEMMA SettleFields ==
    ASSUME NEW K, NEW c, CogOK(c, K), NEW t \in 1..Len(c.tasks), NEW status \in GoalStatus
    PROVE  LET s == Settle(c, t, status) IN
           /\ CogOK(s, K) /\ DOMAIN s.goals = DOMAIN c.goals
           /\ \A g \in DOMAIN c.goals :
                 s.goals[g] = IF g \in c.tasks[t].goal_id THEN status ELSE c.goals[g]
           /\ s.tasks = c.tasks /\ s.world = c.world /\ s.memory = c.memory /\ s.deltas = c.deltas
  <1> DEFINE s == Settle(c, t, status)
             gs == [g \in DOMAIN c.goals |-> IF g \in c.tasks[t].goal_id THEN status ELSE c.goals[g]]
  <1>1. c = [goals |-> c.goals, tasks |-> c.tasks, world |-> c.world, memory |-> c.memory,
             deltas |-> c.deltas]
        /\ c.goals \in Seq(GoalStatus)
    BY DEF CogOK
  <1>2. s = [c EXCEPT !.goals = gs]
    BY DEF Settle
  <1>3. Len(c.goals) \in Nat /\ DOMAIN c.goals = 1..Len(c.goals)
    BY <1>1, LenProperties
  <1>4. DOMAIN gs = DOMAIN c.goals /\ \A g \in DOMAIN c.goals : gs[g] \in GoalStatus
    <2>1. \A g \in 1..Len(c.goals) : c.goals[g] \in GoalStatus
      BY <1>1
    <2> QED BY <1>3, <2>1
  <1>5. gs \in Seq(GoalStatus)
    <2>1. gs \in [1..Len(c.goals) -> GoalStatus]
      BY <1>3, <1>4
    <2> QED BY <1>3, <2>1
  <1>6. \A g \in DOMAIN c.goals :
           gs[g] = IF g \in c.tasks[t].goal_id THEN status ELSE c.goals[g]
    OBVIOUS
  <1> HIDE DEF s, gs
  <1>7. s = [goals |-> gs, tasks |-> c.tasks, world |-> c.world, memory |-> c.memory,
             deltas |-> c.deltas]
    BY <1>1, <1>2
  <1>8. CogOK(s, K)
    BY <1>4, <1>5, <1>7 DEF CogOK, TaskOK
  <1> QED BY <1>4, <1>6, <1>7, <1>8 DEF s

(* The same task, but for its status and its steps.                        *)
SameTask(old, new) ==
    new.goal_id = old.goal_id /\ new.objective = old.objective /\ new.max_steps = old.max_steps

LEMMA TaskFields ==
    ASSUME NEW K, NEW c, CogOK(c, K), NEW t \in 1..Len(c.tasks)
    PROVE  /\ c.tasks[t] \in TaskRecord(K) /\ TaskOK(c, c.tasks[t], K)
           /\ c.tasks[t].goal_id \in {{}} \cup {{g} : g \in Nat \ {0}}
           /\ c.tasks[t].objective \in K.objectives /\ c.tasks[t].max_steps \in Nat \ {0}
           /\ c.tasks[t].status \in TaskStatus /\ c.tasks[t].steps_taken \in Nat
           /\ Len(c.tasks) \in Nat /\ DOMAIN c.tasks = 1..Len(c.tasks)
  <1>1. c.tasks \in Seq(TaskRecord(K)) /\ TaskOK(c, c.tasks[t], K)
    BY DEF CogOK
  <1>2. c.tasks[t] \in TaskRecord(K) /\ Len(c.tasks) \in Nat /\ DOMAIN c.tasks = 1..Len(c.tasks)
    BY <1>1, LenProperties, ElementOfSeq
  <1> QED BY <1>1, <1>2 DEF TaskRecord

(* A task within its budget gets another status.                           *)
LEMMA StatusFields ==
    ASSUME NEW K, NEW c, CogOK(c, K), NEW t \in 1..Len(c.tasks), NEW x \in TaskStatus,
           c.tasks[t].status \notin K.overrun
    PROVE  LET s == [c EXCEPT !.tasks[t].status = x] IN
           /\ CogOK(s, K) /\ Len(s.tasks) = Len(c.tasks)
           /\ s.tasks[t].status = x /\ s.tasks[t].steps_taken = c.tasks[t].steps_taken
           /\ SameTask(c.tasks[t], s.tasks[t])
           /\ \A u \in 1..Len(c.tasks) : u # t => s.tasks[u] = c.tasks[u]
           /\ s.goals = c.goals /\ s.world = c.world /\ s.memory = c.memory /\ s.deltas = c.deltas
  <1> DEFINE s == [c EXCEPT !.tasks[t].status = x]
             old == c.tasks[t]
             task == [old EXCEPT !.status = x]
  <1>1. s = SetTask(c, t, task)
    BY DEF SetTask
  <1>2. old \in TaskRecord(K) /\ TaskOK(c, old, K) /\ old.status \notin K.overrun
    BY TaskFields
  <1> HIDE DEF s, old
  <1>3. /\ task \in TaskRecord(K) /\ task.status = x /\ task.steps_taken = old.steps_taken
        /\ SameTask(old, task)
    BY <1>2 DEF TaskRecord, SameTask
  <1> HIDE DEF task
  <1>4. TaskOK(c, task, K)
    BY <1>2, <1>3 DEF TaskOK, SameTask
  <1>5. /\ CogOK(s, K) /\ Len(s.tasks) = Len(c.tasks) /\ s.tasks[t] = task
        /\ \A u \in 1..Len(c.tasks) : u # t => s.tasks[u] = c.tasks[u]
        /\ s.goals = c.goals /\ s.world = c.world /\ s.memory = c.memory /\ s.deltas = c.deltas
    BY <1>1, <1>3, <1>4, TaskChanges
  <1> QED BY <1>3, <1>5 DEF s, old

(* What a step of the runtime leaves of the state when it works on task t: *)
(* the other tasks as they are, the goals of t settled if it ended, and at *)
(* most one more memory.                                                   *)
Worked(K, c, s, t) ==
    /\ CogOK(s, K) /\ Len(s.tasks) = Len(c.tasks)
    /\ SameTask(c.tasks[t], s.tasks[t])
    /\ \A u \in 1..Len(c.tasks) : u # t => s.tasks[u] = c.tasks[u]
    /\ DOMAIN s.goals = DOMAIN c.goals
    /\ \/ s.tasks[t].status = c.tasks[t].status /\ s.goals = c.goals
       \/ /\ s.tasks[t].status \in TerminalTask
          /\ \A g \in DOMAIN c.goals :
                s.goals[g] = IF g \in c.tasks[t].goal_id THEN s.tasks[t].status ELSE c.goals[g]
    /\ s.deltas = c.deltas
    /\ DOMAIN s.memory.records \subseteq DOMAIN c.memory.records \cup {c.memory.next_id}

LEMMA FailFields ==
    ASSUME NEW K, NEW c, CogOK(c, K), NEW t \in 1..Len(c.tasks),
           c.tasks[t].status \notin K.overrun
    PROVE  /\ Worked(K, c, fail_task(c, t), t) /\ fail_task(c, t).tasks[t].status = "Failed"
           /\ fail_task(c, t).tasks[t].steps_taken = c.tasks[t].steps_taken
  <1> DEFINE a == [c EXCEPT !.tasks[t].status = "Failed"]
             b == Settle(a, t, "Failed")
             s == fail_task(c, t)
  <1>1. s = store(b, "failure", OwnWords)
    BY DEF fail_task
  <1>2. /\ CogOK(a, K) /\ Len(a.tasks) = Len(c.tasks) /\ a.tasks[t].status = "Failed"
        /\ a.tasks[t].steps_taken = c.tasks[t].steps_taken
        /\ SameTask(c.tasks[t], a.tasks[t])
        /\ \A u \in 1..Len(c.tasks) : u # t => a.tasks[u] = c.tasks[u]
        /\ a.goals = c.goals /\ a.world = c.world /\ a.memory = c.memory /\ a.deltas = c.deltas
    <2>1. "Failed" \in TaskStatus
      BY DEF TaskStatus
    <2> QED BY <2>1, StatusFields
  <1> HIDE DEF a
  <1>3. /\ CogOK(b, K) /\ DOMAIN b.goals = DOMAIN a.goals
        /\ \A g \in DOMAIN a.goals :
              b.goals[g] = IF g \in a.tasks[t].goal_id THEN "Failed" ELSE a.goals[g]
        /\ b.tasks = a.tasks /\ b.world = a.world /\ b.memory = a.memory /\ b.deltas = a.deltas
    BY <1>2, SettleFields DEF GoalStatus
  <1> HIDE DEF b
  <1>4. /\ CogOK(s, K) /\ s.goals = b.goals /\ s.tasks = b.tasks /\ s.deltas = b.deltas
        /\ DOMAIN s.memory.records = DOMAIN b.memory.records \cup {b.memory.next_id}
    BY <1>1, <1>3, StoreFields
  <1> HIDE DEF s
  <1>5. a.tasks[t].goal_id = c.tasks[t].goal_id
    BY <1>2 DEF SameTask
  <1>6. Worked(K, c, s, t)
    BY <1>2, <1>3, <1>4, <1>5 DEF Worked, TerminalTask
  <1> QED BY <1>2, <1>3, <1>4, <1>6 DEF s

(* commit_directive, before the step is counted.                           *)
Effect(c, t, d) ==
    CASE d.op = "RecordMemory" -> store(c, "note", d.topic)
      [] d.op = "UpdateWorld"  -> set_world_fact(c, d.key, "fact")
      [] d.op = "Complete"     -> store(Settle(c, t, "Completed"), "completion", OwnWords)
      [] OTHER                 -> c

DirectiveOps == {"Recall", "RecordMemory", "UpdateWorld", "Work", "Complete"}

LEMMA EffectFields ==
    ASSUME NEW K, NEW c, CogOK(c, K), NEW t \in 1..Len(c.tasks), NEW d, d.op \in DirectiveOps
    PROVE  LET s == Effect(c, t, d) IN
           /\ CogOK(s, K) /\ s.tasks = c.tasks /\ s.deltas = c.deltas
           /\ DOMAIN s.goals = DOMAIN c.goals
           /\ d.op # "Complete" => s.goals = c.goals
           /\ d.op = "Complete" =>
                 \A g \in DOMAIN c.goals :
                    s.goals[g] = IF g \in c.tasks[t].goal_id THEN "Completed" ELSE c.goals[g]
           /\ DOMAIN s.memory.records \subseteq DOMAIN c.memory.records \cup {c.memory.next_id}
  <1> DEFINE s == Effect(c, t, d)
  <1>1. CASE d.op = "RecordMemory"
    <2>1. s = store(c, "note", d.topic)
      BY <1>1 DEF Effect
    <2> HIDE DEF s
    <2>2. /\ CogOK(s, K) /\ s.goals = c.goals /\ s.tasks = c.tasks /\ s.deltas = c.deltas
          /\ DOMAIN s.memory.records = DOMAIN c.memory.records \cup {c.memory.next_id}
      BY <2>1, StoreFields
    <2> QED BY <1>1, <2>2 DEF s
  <1>2. CASE d.op = "UpdateWorld"
    <2>1. s = set_world_fact(c, d.key, "fact")
      BY <1>2 DEF Effect
    <2> HIDE DEF s
    <2>2. /\ CogOK(s, K) /\ s.goals = c.goals /\ s.tasks = c.tasks /\ s.deltas = c.deltas
          /\ s.memory = c.memory
      BY <2>1, FactFields
    <2> QED BY <1>2, <2>2 DEF s
  <1>3. CASE d.op = "Complete"
    <2> DEFINE b == Settle(c, t, "Completed")
    <2>1. s = store(b, "completion", OwnWords)
      BY <1>3 DEF Effect
    <2>2. /\ CogOK(b, K) /\ DOMAIN b.goals = DOMAIN c.goals
          /\ \A g \in DOMAIN c.goals :
                b.goals[g] = IF g \in c.tasks[t].goal_id THEN "Completed" ELSE c.goals[g]
          /\ b.tasks = c.tasks /\ b.memory = c.memory /\ b.deltas = c.deltas
      BY SettleFields DEF GoalStatus
    <2> HIDE DEF s, b
    <2>3. /\ CogOK(s, K) /\ s.goals = b.goals /\ s.tasks = b.tasks /\ s.deltas = b.deltas
          /\ DOMAIN s.memory.records = DOMAIN b.memory.records \cup {b.memory.next_id}
      BY <2>1, <2>2, StoreFields
    <2> QED BY <1>3, <2>2, <2>3 DEF s
  <1>4. CASE d.op \in {"Recall", "Work"}
    <2>1. s = c
      BY <1>4 DEF Effect
    <2> QED BY <1>4, <2>1
  <1> QED BY <1>1, <1>2, <1>3, <1>4 DEF DirectiveOps

(* The committed step is counted, and a completion ends the task.          *)
LEMMA CommitFields ==
    ASSUME NEW K, NEW c, CogOK(c, K), NEW t \in 1..Len(c.tasks), NEW d, d.op \in DirectiveOps,
           \/ c.tasks[t].steps_taken < c.tasks[t].max_steps
           \/ d.op = "Complete" /\ "Completed" \in K.overrun
    PROVE  LET s == commit_directive(c, t, d)
               e == Effect(c, t, d)
           IN  /\ Worked(K, c, s, t)
               /\ s.tasks[t].steps_taken = c.tasks[t].steps_taken + 1
               /\ s.tasks[t].status = IF d.op = "Complete" THEN "Completed" ELSE c.tasks[t].status
               /\ s.goals = e.goals /\ s.world = e.world /\ s.memory = e.memory
  <1> DEFINE s == commit_directive(c, t, d)
             e == Effect(c, t, d)
             x == IF d.op = "Complete" THEN "Completed" ELSE e.tasks[t].status
             n == e.tasks[t].steps_taken + 1
             old == e.tasks[t]
             task == [old EXCEPT !.steps_taken = n, !.status = x]
  <1>1. s = SetTask(e, t, task)
    BY DEF commit_directive, Effect, SetTask
  <1>2. /\ CogOK(e, K) /\ e.tasks = c.tasks /\ e.deltas = c.deltas
        /\ DOMAIN e.goals = DOMAIN c.goals
        /\ d.op # "Complete" => e.goals = c.goals
        /\ d.op = "Complete" =>
              \A g \in DOMAIN c.goals :
                 e.goals[g] = IF g \in c.tasks[t].goal_id THEN "Completed" ELSE c.goals[g]
        /\ DOMAIN e.memory.records \subseteq DOMAIN c.memory.records \cup {c.memory.next_id}
    BY EffectFields
  <1> HIDE DEF s, e
  <1>3. /\ old \in TaskRecord(K) /\ TaskOK(e, old, K) /\ old = c.tasks[t]
        /\ old.steps_taken \in Nat /\ old.max_steps \in Nat /\ old.status \in TaskStatus
        /\ t \in 1..Len(e.tasks)
    BY <1>2, TaskFields
  <1>4. /\ n <= old.max_steps \/ x \in K.overrun
        /\ n \in Nat /\ x \in TaskStatus /\ n = old.steps_taken + 1
        /\ x = IF d.op = "Complete" THEN "Completed" ELSE c.tasks[t].status
    BY <1>3 DEF TaskStatus
  <1> HIDE DEF n, x, old
  <1>5. /\ task \in TaskRecord(K) /\ task.status = x /\ task.steps_taken = n
        /\ SameTask(old, task)
    BY <1>3, <1>4 DEF TaskRecord, SameTask
  <1> HIDE DEF task
  <1>6. TaskOK(e, task, K)
    BY <1>3, <1>4, <1>5 DEF TaskOK, SameTask
  <1>7. /\ CogOK(s, K) /\ Len(s.tasks) = Len(e.tasks) /\ s.tasks[t] = task
        /\ \A u \in 1..Len(e.tasks) : u # t => s.tasks[u] = e.tasks[u]
        /\ s.goals = e.goals /\ s.world = e.world /\ s.memory = e.memory /\ s.deltas = e.deltas
    BY <1>1, <1>2, <1>3, <1>5, <1>6, TaskChanges
  <1>8. Worked(K, c, s, t)
    BY <1>2, <1>3, <1>4, <1>5, <1>7 DEF Worked, TerminalTask
  <1> QED BY <1>3, <1>4, <1>5, <1>7, <1>8 DEF s, e

-----------------------------------------------------------------------------
(* The codec: a state is what its image decodes to.                        *)

(* The place of an id among the ids.                                       *)
Rank(S, i) == Cardinality({j \in S : j < i})

LEMMA RankBounds ==
    ASSUME NEW S \in SUBSET Nat, IsFiniteSet(S), NEW i \in S
    PROVE  Rank(S, i) \in Nat /\ Rank(S, i) + 1 \in 1..Cardinality(S)
  <1> DEFINE B == {j \in S : j < i}
  <1>1. i \notin B /\ B \in SUBSET S /\ B # S
    OBVIOUS
  <1>2. /\ IsFiniteSet(B) /\ Cardinality(B) <= Cardinality(S)
        /\ Cardinality(S) = Cardinality(B) => S = B
    BY <1>1, FS_Subset
  <1>3. Cardinality(B) \in Nat /\ Cardinality(S) \in Nat
    BY <1>2, FS_CardinalityType
  <1> HIDE DEF B
  <1>4. Cardinality(B) + 1 \in 1..Cardinality(S)
    BY <1>1, <1>2, <1>3
  <1> QED BY <1>3, <1>4 DEF Rank, B

LEMMA RankGrows ==
    ASSUME NEW S \in SUBSET Nat, IsFiniteSet(S), NEW i \in S, NEW j \in S, i < j
    PROVE  Rank(S, i) < Rank(S, j)
  <1> DEFINE A == {k \in S : k < i}
             B == {k \in S : k < j}
  <1>1. A \in SUBSET B /\ i \in B /\ i \notin A /\ B \in SUBSET S
    <2>1. i \in Nat /\ j \in Nat
      OBVIOUS
    <2>2. \A k \in A : k \in S /\ k \in Nat /\ k < j
      BY <2>1
    <2>3. A \in SUBSET B
      BY <2>2
    <2>4. i \in B /\ i \notin A
      BY <2>1
    <2> QED BY <2>3, <2>4
  <1>2. IsFiniteSet(B)
    BY <1>1, FS_Subset
  <1>3. Cardinality(A) <= Cardinality(B) /\ (Cardinality(B) = Cardinality(A) => B = A)
        /\ IsFiniteSet(A)
    BY <1>1, <1>2, FS_Subset
  <1>4. Cardinality(A) \in Nat /\ Cardinality(B) \in Nat
    BY <1>2, <1>3, FS_CardinalityType
  <1> HIDE DEF A, B
  <1>5. Cardinality(A) < Cardinality(B)
    BY <1>1, <1>3, <1>4
  <1> QED BY <1>5 DEF Rank, A, B

LEMMA RankInjective ==
    ASSUME NEW S \in SUBSET Nat, IsFiniteSet(S), NEW i \in S, NEW j \in S,
           Rank(S, i) = Rank(S, j)
    PROVE  i = j
  <1>1. Rank(S, i) \in Nat /\ Rank(S, j) \in Nat
    BY RankBounds
  <1>2. ~(i < j) /\ ~(j < i)
    BY <1>1, RankGrows
  <1> QED BY <1>2

(* Every place is taken.                                                   *)
LEMMA RankOnto ==
    ASSUME NEW S \in SUBSET Nat, IsFiniteSet(S), NEW n \in 1..Cardinality(S)
    PROVE  \E i \in S : Rank(S, i) = n - 1
  <1> DEFINE f == [i \in S |-> Rank(S, i) + 1]
             T == 1..Cardinality(S)
  <1>1. Cardinality(S) \in Nat
    BY FS_CardinalityType
  <1>2. IsFiniteSet(T) /\ Cardinality(T) = Cardinality(S)
    BY <1>1, FS_Interval
  <1>3. f \in [S -> T]
    BY RankBounds
  <1>4. ASSUME NEW a \in S, NEW b \in S, f[a] = f[b] PROVE a = b
    <2>1. Rank(S, a) + 1 = Rank(S, b) + 1 /\ Rank(S, a) \in Nat /\ Rank(S, b) \in Nat
      BY <1>4, RankBounds
    <2>2. Rank(S, a) = Rank(S, b)
      BY <2>1
    <2> QED BY <2>2, RankInjective
  <1> HIDE DEF f, T
  <1>5. f \in Injection(S, T)
    BY <1>3, <1>4 DEF Injection, IsInjective
  <1>6. f \in Surjection(S, T)
    BY <1>2, <1>5, FS_Injection
  <1>7. PICK i \in S : f[i] = n
    BY <1>6 DEF Surjection, T
  <1>8. Rank(S, i) + 1 = n /\ Rank(S, i) \in Nat
    BY <1>7, RankBounds DEF f
  <1> QED BY <1>8

(* The ids in increasing order: each of them, once.                        *)
LEMMA AscendingIds ==
    ASSUME NEW S \in SUBSET Nat, IsFiniteSet(S)
    PROVE  LET ids == Ascending(S) IN
           /\ DOMAIN ids = 1..Cardinality(S) /\ Cardinality(S) \in Nat
           /\ \A n \in DOMAIN ids : ids[n] \in S /\ Rank(S, ids[n]) = n - 1
           /\ \A i \in S : \E n \in DOMAIN ids : ids[n] = i
           /\ \A m, n \in DOMAIN ids : ids[m] = ids[n] => m = n
           /\ \A m, n \in DOMAIN ids : m < n => ids[m] < ids[n]
  <1> DEFINE ids == Ascending(S)
  <1>1. Cardinality(S) \in Nat /\ DOMAIN ids = 1..Cardinality(S)
    BY FS_CardinalityType DEF Ascending
  <1>2. ASSUME NEW n \in 1..Cardinality(S) PROVE ids[n] \in S /\ Rank(S, ids[n]) = n - 1
    <2>1. ids[n] = CHOOSE i \in S : Rank(S, i) = n - 1
      BY DEF Ascending, Rank
    <2>2. \E i \in S : Rank(S, i) = n - 1
      BY RankOnto
    <2> HIDE DEF ids
    <2> QED BY <2>1, <2>2
  <1> HIDE DEF ids
  <1>3. ASSUME NEW i \in S PROVE \E n \in DOMAIN ids : ids[n] = i
    <2> DEFINE n == Rank(S, i) + 1
    <2>1. Rank(S, i) \in Nat /\ n \in 1..Cardinality(S)
      BY RankBounds
    <2>2. ids[n] \in S /\ Rank(S, ids[n]) = Rank(S, i)
      BY <1>2, <2>1
    <2> HIDE DEF n
    <2> DEFINE j == ids[n]
    <2>3. j \in S /\ Rank(S, j) = Rank(S, i)
      BY <2>2
    <2> HIDE DEF j
    <2>4. j = i
      BY <2>3, RankInjective
    <2> QED BY <1>1, <2>1, <2>4 DEF j
  <1>4. ASSUME NEW m \in 1..Cardinality(S), NEW n \in 1..Cardinality(S), ids[m] = ids[n]
        PROVE  m = n
    BY <1>1, <1>2, <1>4
  <1>5. ASSUME NEW m \in 1..Cardinality(S), NEW n \in 1..Cardinality(S), m < n
        PROVE  ids[m] < ids[n]
    <2>1. /\ ids[m] \in S /\ Rank(S, ids[m]) = m - 1
          /\ ids[n] \in S /\ Rank(S, ids[n]) = n - 1
      BY <1>2
    <2>2. ids[m] # ids[n]
      BY <1>1, <2>1, <1>5
    <2>3. ~(ids[n] < ids[m])
      <3>1. ids[n] < ids[m] => Rank(S, ids[n]) < Rank(S, ids[m])
        BY <2>1, RankGrows
      <3> QED BY <1>1, <1>5, <2>1, <3>1
    <2>4. ids[m] \in Nat /\ ids[n] \in Nat
      BY <2>1
    <2> QED BY <2>2, <2>3, <2>4
  <1> QED BY <1>1, <1>2, <1>3, <1>4, <1>5 DEF ids

(* One task through the codec.                                             *)
LEMMA TaskRoundTrip ==
    ASSUME NEW K, NEW task \in TaskRecord(K), NEW t
    PROVE  decode_task(encode_task(t, task)) = task /\ encode_task(t, task)[1] = t
  <1> DEFINE g == IF task.goal_id = {} THEN 0 ELSE CHOOSE x \in task.goal_id : TRUE
             b == encode_task(t, task)
  <1>1. /\ b[1] = t /\ b[2] = g /\ b[3] = StatusCode[task.status]
        /\ b[4] = task.steps_taken /\ b[5] = task.objective /\ b[6] = task.max_steps
    BY DEF encode_task
  <1>2. (IF g = 0 THEN {} ELSE {g}) = task.goal_id
    <2>1. task.goal_id = {} \/ \E x \in Nat \ {0} : task.goal_id = {x}
      BY DEF TaskRecord
    <2>2. CASE task.goal_id = {}
      BY <2>2
    <2>3. ASSUME NEW x \in Nat \ {0}, task.goal_id = {x} PROVE g = x
      BY <2>3
    <2> QED BY <2>1, <2>2, <2>3
  <1>3. task.status \in TaskStatus
    BY DEF TaskRecord
  <1>4. (CHOOSE s \in TaskStatus : StatusCode[s] = StatusCode[task.status]) = task.status
    <2>1. \A r, s \in TaskStatus : StatusCode[r] = StatusCode[s] => r = s
      BY DEF TaskStatus, StatusCode
    <2> QED BY <1>3, <2>1
  <1> HIDE DEF b, g
  <1>5. decode_task(b) = [goal_id |-> task.goal_id, status |-> task.status,
                          steps_taken |-> task.steps_taken, objective |-> task.objective,
                          max_steps |-> task.max_steps]
    BY <1>1, <1>2, <1>4 DEF decode_task
  <1>6. task = [goal_id |-> task.goal_id, status |-> task.status,
                steps_taken |-> task.steps_taken, objective |-> task.objective,
                max_steps |-> task.max_steps]
    BY DEF TaskRecord
  <1> QED BY <1>1, <1>5, <1>6 DEF b

(* A state that is in order passes the validator if no task is over its    *)
(* budget.                                                                 *)
LEMMA StateIsValid ==
    ASSUME NEW K, NEW c, CogOK(c, K), \A t \in DOMAIN c.tasks : ~OverBudget(c, t)
    PROVE  validate_state(c)
  <1>1. ASSUME NEW t \in DOMAIN c.tasks
        PROVE  /\ c.tasks[t].max_steps > 0
               /\ c.tasks[t].steps_taken <= c.tasks[t].max_steps
               /\ c.tasks[t].goal_id \subseteq DOMAIN c.goals
    <2>1. t \in 1..Len(c.tasks)
      BY LenProperties DEF CogOK
    <2>2. /\ c.tasks[t].max_steps \in Nat \ {0} /\ c.tasks[t].steps_taken \in Nat
          /\ TaskOK(c, c.tasks[t], K)
      BY <2>1, TaskFields
    <2> QED BY <2>2 DEF TaskOK, OverBudget
  <1>2. \A k \in DOMAIN c.world : c.world[k].revision > 0
    BY DEF CogOK, WorldOK
  <1>3. \A i \in DOMAIN c.memory.records : i > 0 /\ i < c.memory.next_id
    BY DEF CogOK, MemoryOK
  <1> QED BY <1>1, <1>2, <1>3 DEF validate_state

LEMMA CodecRoundTrip ==
    ASSUME NEW K, NEW c, CogOK(c, K)
    PROVE  /\ decode_cognitive_checkpoint(encode_cognitive_checkpoint(c)) = c
           /\ (\A t \in DOMAIN c.tasks : ~OverBudget(c, t)) =>
                 validate_state(c) /\ Decodable(encode_cognitive_checkpoint(c))
  <1> DEFINE b == encode_cognitive_checkpoint(c)
             r == c.memory.records
             ids == Ascending(DOMAIN r)
  <1>1. /\ b.next_memory_id = c.memory.next_id
        /\ b.goals = [g \in DOMAIN c.goals |-> <<g, c.goals[g]>>]
        /\ b.tasks = [t \in DOMAIN c.tasks |-> encode_task(t, c.tasks[t])]
        /\ b.world = {<<k, c.world[k]>> : k \in DOMAIN c.world}
        /\ b.records = [n \in DOMAIN ids |-> <<ids[n], r[ids[n]]>>]
        /\ b.deltas = [d \in DOMAIN c.deltas |-> <<d, c.deltas[d]>>]
    BY DEF encode_cognitive_checkpoint, encode_memory_record
  <1>2. /\ c.goals \in Seq(GoalStatus) /\ c.deltas \in Seq(BOOLEAN)
        /\ c.tasks \in Seq(TaskRecord(K)) /\ WorldOK(c.world) /\ MemoryOK(c.memory)
        /\ DOMAIN c.goals = 1..Len(c.goals) /\ DOMAIN c.tasks = 1..Len(c.tasks)
        /\ DOMAIN c.deltas = 1..Len(c.deltas)
        /\ Len(c.goals) \in Nat /\ Len(c.tasks) \in Nat /\ Len(c.deltas) \in Nat
    BY LenProperties DEF CogOK
  <1>3. DOMAIN r \in SUBSET Nat /\ IsFiniteSet(DOMAIN r) /\ \A i \in DOMAIN r : i > 0
    <2>1. c.memory.next_id \in Nat /\ DOMAIN r \subseteq 1 .. c.memory.next_id - 1
      BY <1>2 DEF MemoryOK
    <2>2. \A i \in DOMAIN r : i \in Nat /\ i <= c.memory.next_id /\ i > 0
      BY <2>1
    <2>3. DOMAIN r \in SUBSET Nat
      BY <2>2
    <2> QED BY <2>1, <2>2, <2>3, FS_BoundedSetOfNaturals
  <1>4. /\ DOMAIN ids = 1..Cardinality(DOMAIN r) /\ Cardinality(DOMAIN r) \in Nat
        /\ \A n \in DOMAIN ids : ids[n] \in DOMAIN r
        /\ \A i \in DOMAIN r : \E n \in DOMAIN ids : ids[n] = i
        /\ \A m, n \in DOMAIN ids : ids[m] = ids[n] => m = n
        /\ \A m, n \in DOMAIN ids : m < n => ids[m] < ids[n]
    BY <1>3, AscendingIds
  <1> HIDE DEF b, ids
  <1> DEFINE c2 == decode_cognitive_checkpoint(b)
             goals2 == [g \in DOMAIN b.goals |-> b.goals[g][2]]
             tasks2 == [t \in DOMAIN b.tasks |-> decode_task(b.tasks[t])]
             world2 == [k \in {w[1] : w \in b.world} |-> (CHOOSE w \in b.world : w[1] = k)[2]]
             records2 == [i \in {b.records[n][1] : n \in DOMAIN b.records} |->
                            LET n == CHOOSE m \in DOMAIN b.records : b.records[m][1] = i
                            IN  b.records[n][2]]
             deltas2 == [d \in DOMAIN b.deltas |-> b.deltas[d][2]]
  <1>5. c2 = [goals |-> goals2, tasks |-> tasks2, world |-> world2,
              memory |-> [next_id |-> b.next_memory_id, records |-> records2],
              deltas |-> deltas2]
    BY DEF decode_cognitive_checkpoint
  <1>6. goals2 = c.goals
    <2>1. DOMAIN b.goals = DOMAIN c.goals /\ \A g \in DOMAIN c.goals : b.goals[g][2] = c.goals[g]
      BY <1>1
    <2>2. c.goals = [g \in DOMAIN c.goals |-> c.goals[g]]
      BY <1>2, SMTT(40)
    <2> QED BY <2>1, <2>2
  <1>7. deltas2 = c.deltas
    <2>1. DOMAIN b.deltas = DOMAIN c.deltas
          /\ \A d \in DOMAIN c.deltas : b.deltas[d][2] = c.deltas[d]
      BY <1>1
    <2>2. c.deltas = [d \in DOMAIN c.deltas |-> c.deltas[d]]
      <3>1. c.deltas \in [1..Len(c.deltas) -> BOOLEAN]
        BY <1>2, LenProperties
      <3> QED BY <3>1
    <2> QED BY <2>1, <2>2
  <1>8. tasks2 = c.tasks
    <2>1. ASSUME NEW t \in DOMAIN c.tasks PROVE decode_task(b.tasks[t]) = c.tasks[t]
      <3>1. c.tasks[t] \in TaskRecord(K)
        BY <1>2, ElementOfSeq
      <3> QED BY <1>1, <3>1, TaskRoundTrip
    <2>2. DOMAIN b.tasks = DOMAIN c.tasks
      BY <1>1
    <2>3. c.tasks = [t \in DOMAIN c.tasks |-> c.tasks[t]]
      <3>1. c.tasks \in [1..Len(c.tasks) -> TaskRecord(K)]
        BY <1>2, LenProperties
      <3> QED BY <3>1
    <2> QED BY <2>1, <2>2, <2>3
  <1>9. world2 = c.world
    <2>1. {w[1] : w \in b.world} = DOMAIN c.world
      <3>1. \A k \in DOMAIN c.world : <<k, c.world[k]>> \in b.world /\ <<k, c.world[k]>>[1] = k
        BY <1>1
      <3>2. \A w \in b.world : w[1] \in DOMAIN c.world
        BY <1>1
      <3> QED BY <3>1, <3>2
    <2>2. ASSUME NEW k \in DOMAIN c.world
          PROVE  (CHOOSE w \in b.world : w[1] = k)[2] = c.world[k]
      <3>1. <<k, c.world[k]>> \in b.world
        BY <1>1
      <3>2. \A w \in b.world : w[1] = k => w[2] = c.world[k]
        BY <1>1
      <3>3. \E w \in b.world : w[1] = k
        BY <3>1
      <3>4. (CHOOSE w \in b.world : w[1] = k) \in b.world
            /\ (CHOOSE w \in b.world : w[1] = k)[1] = k
        BY <3>3
      <3> QED BY <3>2, <3>4
    <2>3. c.world = [k \in DOMAIN c.world |-> c.world[k]]
      BY <1>2 DEF WorldOK
    <2> QED BY <2>1, <2>2, <2>3
  <1>10. /\ DOMAIN b.records = DOMAIN ids
         /\ \A n \in DOMAIN ids : b.records[n][1] = ids[n] /\ b.records[n][2] = r[ids[n]]
    BY <1>1
  <1>11. records2 = r
    <2>1. {b.records[n][1] : n \in DOMAIN b.records} = DOMAIN r
      BY <1>4, <1>10
    <2>2. ASSUME NEW i \in DOMAIN r
          PROVE  b.records[CHOOSE m \in DOMAIN b.records : b.records[m][1] = i][2] = r[i]
      <3> DEFINE m == CHOOSE m \in DOMAIN b.records : b.records[m][1] = i
      <3>1. \E n \in DOMAIN b.records : b.records[n][1] = i
        BY <1>4, <1>10
      <3>2. m \in DOMAIN b.records /\ b.records[m][1] = i
        BY <3>1
      <3> HIDE DEF m
      <3>3. b.records[m][2] = r[i]
        BY <1>10, <3>2
      <3> QED BY <3>3 DEF m
    <2>3. r = [i \in DOMAIN r |-> r[i]]
      BY <1>2 DEF MemoryOK
    <2> QED BY <2>1, <2>2, <2>3
  <1> HIDE DEF goals2, tasks2, world2, records2, deltas2, c2
  <1>12. c2 = c
    <2>1. c = [goals |-> c.goals, tasks |-> c.tasks, world |-> c.world, memory |-> c.memory,
               deltas |-> c.deltas]
      BY DEF CogOK
    <2>2. c.memory = [next_id |-> c.memory.next_id, records |-> r]
      BY <1>2 DEF MemoryOK
    <2>3. [next_id |-> b.next_memory_id, records |-> records2] = c.memory
      BY <1>1, <1>11, <2>2
    <2> QED BY <1>5, <1>6, <1>7, <1>8, <1>9, <2>1, <2>3
  <1>13. Increasing(b.goals) /\ Increasing(b.deltas)
    BY <1>1, <1>2 DEF Increasing
  <1>14. Increasing(b.tasks)
    <2>1. \A t \in DOMAIN c.tasks : b.tasks[t][1] = t
      BY <1>1 DEF encode_task
    <2>2. DOMAIN b.tasks = 1..Len(c.tasks)
      BY <1>1, <1>2
    <2> QED BY <1>2, <2>1, <2>2, SMTT(40) DEF Increasing
  <1>15. Increasing(b.records)
    <2> SUFFICES ASSUME NEW n \in DOMAIN b.records
                 PROVE  b.records[n][1] > (IF n = 1 THEN 0 ELSE b.records[n - 1][1])
      BY DEF Increasing
    <2>1. n \in DOMAIN ids /\ ids[n] \in Nat /\ ids[n] > 0 /\ b.records[n][1] = ids[n]
      BY <1>3, <1>4, <1>10
    <2>2. CASE n # 1
      <3> DEFINE m == n - 1
      <3>1. m \in DOMAIN ids /\ m < n
        BY <1>4, <2>1, <2>2
      <3>2. ids[m] < ids[n] /\ ids[m] \in Nat /\ b.records[m][1] = ids[m]
        BY <1>3, <1>4, <1>10, <2>1, <3>1
      <3> QED BY <2>1, <2>2, <3>2
    <2> QED BY <2>1, <2>2
  <1>16. ASSUME \A t \in DOMAIN c.tasks : ~OverBudget(c, t)
         PROVE  validate_state(c) /\ Decodable(b)
    <2>1. validate_state(c)
      BY <1>16, StateIsValid
    <2> QED BY <1>12, <1>13, <1>14, <1>15, <2>1 DEF Decodable, c2
  <1> QED BY <1>12, <1>16 DEF b, c2

(* The conversation keeps every task within its budget.                    *)
LEMMA ChatWithinBudget ==
    ASSUME NEW c, CogOK(c, ChatTasks)
    PROVE  /\ \A t \in DOMAIN c.tasks : ~OverBudget(c, t)
           /\ validate_state(c) /\ Decodable(encode_cognitive_checkpoint(c))
           /\ decode_cognitive_checkpoint(encode_cognitive_checkpoint(c)) = c
  <1>1. ASSUME NEW t \in DOMAIN c.tasks PROVE ~OverBudget(c, t)
    <2>1. t \in 1..Len(c.tasks)
      BY LenProperties DEF CogOK
    <2>2. /\ c.tasks[t].max_steps \in Nat \ {0} /\ c.tasks[t].steps_taken \in Nat
          /\ TaskOK(c, c.tasks[t], ChatTasks)
      BY <2>1, TaskFields
    <2> QED BY <2>2, KindsOfTasks DEF TaskOK, OverBudget
  <1> QED BY <1>1, CodecRoundTrip

-----------------------------------------------------------------------------
(* A host at work on one runtime.                                          *)

(* An iteration of advance works on its task, and goes on only if the task *)
(* has not ended.                                                          *)
LEMMA IterationFields ==
    ASSUME NEW K, NEW c, CogOK(c, K), NEW t \in 1..Len(c.tasks),
           c.tasks[t].status \notin K.overrun,
           NEW Ds, \A d \in Ds : d.op \in DirectiveOps,
           NEW V \in SUBSET {"Accept", "Retry", "Reject"},
           NEW o \in Iteration(c, t, Ds, V)
    PROVE  /\ Worked(K, c, o.state, t) /\ ~OverBudget(o.state, t)
           /\ o.on => o.state.tasks[t].status = c.tasks[t].status
  <1>0. /\ c.tasks[t].steps_taken <= c.tasks[t].max_steps
        /\ c.tasks[t].steps_taken \in Nat /\ c.tasks[t].max_steps \in Nat
    BY TaskFields DEF TaskOK
  <1>1. Worked(K, c, c, t) /\ ~OverBudget(c, t)
    BY <1>0 DEF Worked, SameTask, OverBudget
  <1>a. ASSUME NEW s, Worked(K, c, s, t), s.tasks[t].steps_taken <= c.tasks[t].max_steps,
               s.tasks[t].steps_taken \in Nat
        PROVE  ~OverBudget(s, t)
    <2>1. s.tasks[t].max_steps = c.tasks[t].max_steps
      BY <1>a DEF Worked, SameTask
    <2> QED BY <1>0, <1>a, <2>1 DEF OverBudget
  <1>2. CASE c.tasks[t].steps_taken >= c.tasks[t].max_steps
    <2>1. o.state = fail_task(c, t) /\ ~o.on
      BY <1>2 DEF Iteration
    <2>2. Worked(K, c, o.state, t) /\ o.state.tasks[t].steps_taken = c.tasks[t].steps_taken
      BY <2>1, FailFields
    <2> QED BY <1>0, <1>a, <2>1, <2>2
  <1>3. CASE o = [state |-> c, on |-> FALSE]
    <2>1. o.state = c /\ ~o.on
      BY <1>3
    <2> QED BY <1>1, <2>1
  <1>4. CASE ~(c.tasks[t].steps_taken >= c.tasks[t].max_steps) /\ o # [state |-> c, on |-> FALSE]
    <2>1. PICK v \in Ds \X V :
             o = LET e == execute_directive(c, v[1]) IN
                 CASE v[2] = "Accept" -> [state |-> commit_directive(e, t, v[1]),
                                          on |-> v[1].op # "Complete"]
                   [] v[2] = "Retry"  -> [state |-> store(e, "retry", OwnWords), on |-> TRUE]
                   [] v[2] = "Reject" -> [state |-> fail_task(e, t), on |-> FALSE]
      BY <1>4 DEF Iteration
    <2> DEFINE d == v[1]
               e == execute_directive(c, d)
    <2>2. d \in Ds /\ v[2] \in {"Accept", "Retry", "Reject"} /\ d.op \in DirectiveOps
      OBVIOUS
    <2>3. /\ CogOK(e, K) /\ e.goals = c.goals /\ e.tasks = c.tasks /\ e.deltas = c.deltas
          /\ DOMAIN e.memory.records = DOMAIN c.memory.records
          /\ e.memory.next_id = c.memory.next_id
      BY RetrieveFields DEF execute_directive
    <2>4. /\ v[2] = "Accept" => o.state = commit_directive(e, t, d) /\ (o.on <=> d.op # "Complete")
          /\ v[2] = "Retry" => o.state = store(e, "retry", OwnWords)
          /\ v[2] = "Reject" => o.state = fail_task(e, t) /\ ~o.on
      <3> HIDE DEF d, e
      <3>1. v[2] = "Accept" => o = [state |-> commit_directive(e, t, d), on |-> d.op # "Complete"]
        BY <2>1 DEF d, e
      <3>2. v[2] = "Retry" => o = [state |-> store(e, "retry", OwnWords), on |-> TRUE]
        BY <2>1 DEF d, e
      <3>3. v[2] = "Reject" => o = [state |-> fail_task(e, t), on |-> FALSE]
        BY <2>1 DEF d, e
      <3>4. v[2] = "Accept" => o.state = commit_directive(e, t, d) /\ o.on = (d.op # "Complete")
        BY <3>1
      <3>5. v[2] = "Retry" => o.state = store(e, "retry", OwnWords)
        BY <3>2
      <3>6. v[2] = "Reject" => o.state = fail_task(e, t) /\ o.on = FALSE
        BY <3>3
      <3> QED BY <3>4, <3>5, <3>6
    <2> HIDE DEF d, e
    <2>5. c.tasks[t].steps_taken < c.tasks[t].max_steps
      BY <1>4, TaskFields
    <2>6. ASSUME Worked(K, e, o.state, t) PROVE Worked(K, c, o.state, t)
      BY <2>3, <2>6 DEF Worked
    <2>7. CASE v[2] = "Accept"
      <3>1. /\ Worked(K, e, o.state, t)
            /\ o.state.tasks[t].steps_taken = e.tasks[t].steps_taken + 1
            /\ o.state.tasks[t].status
                 = IF d.op = "Complete" THEN "Completed" ELSE e.tasks[t].status
        BY <2>2, <2>3, <2>4, <2>5, <2>7, CommitFields
      <3>2. Worked(K, c, o.state, t)
        BY <2>6, <3>1
      <3>3. o.state.tasks[t].steps_taken = c.tasks[t].steps_taken + 1
        BY <2>3, <3>1
      <3>4. /\ o.state.tasks[t].steps_taken <= c.tasks[t].max_steps
            /\ o.state.tasks[t].steps_taken \in Nat
        BY <1>0, <2>5, <3>3
      <3>5. ~OverBudget(o.state, t)
        BY <1>a, <3>2, <3>4
      <3> QED BY <2>3, <2>4, <2>7, <3>1, <3>2, <3>5
    <2>8. CASE v[2] = "Retry"
      <3>1. /\ CogOK(o.state, K) /\ o.state.goals = e.goals /\ o.state.tasks = e.tasks
            /\ o.state.deltas = e.deltas
            /\ DOMAIN o.state.memory.records = DOMAIN e.memory.records \cup {e.memory.next_id}
        BY <2>3, <2>4, <2>8, StoreFields
      <3> QED BY <1>0, <2>3, <3>1 DEF Worked, SameTask, OverBudget
    <2>9. CASE v[2] = "Reject"
      <3>1. /\ Worked(K, e, o.state, t)
            /\ o.state.tasks[t].steps_taken = e.tasks[t].steps_taken
        BY <2>3, <2>4, <2>9, FailFields
      <3>2. Worked(K, c, o.state, t)
        BY <2>6, <3>1
      <3>3. o.state.tasks[t].steps_taken = c.tasks[t].steps_taken
        BY <2>3, <3>1
      <3>4. ~OverBudget(o.state, t)
        BY <1>0, <1>a, <3>2, <3>3
      <3> QED BY <2>4, <2>9, <3>2, <3>4
    <2> QED BY <2>2, <2>7, <2>8, <2>9
  <1> QED BY <1>2, <1>3, <1>4

(* A goal has the outcome of a finished task of it, if there is one.       *)
EndedFor(c, t, g) == g \in c.tasks[t].goal_id /\ c.tasks[t].status \in TerminalTask

GoalsFollow(c) ==
    \A g \in DOMAIN c.goals :
        \/ \E t \in 1..Len(c.tasks) : EndedFor(c, t, g) /\ c.goals[g] = c.tasks[t].status
        \/ c.goals[g] = "Active" /\ \A t \in 1..Len(c.tasks) : ~EndedFor(c, t, g)

(* What a step never changes, but for an external completion of the task:  *)
(* a finished task, a task within its budget, and the ids given out.       *)
TaskKept(c, s, t) ==
    /\ Terminal(c, t) => s.tasks[t] = c.tasks[t]
    /\ OverBudget(s, t) => OverBudget(c, t)

Finished(c, s) ==
    /\ \A t \in DOMAIN c.tasks : s = complete_external_task(c, t) \/ TaskKept(c, s, t)
    /\ \A i \in DOMAIN s.memory.records \ DOMAIN c.memory.records : i >= c.memory.next_id

LEMMA WorkedKeeps ==
    ASSUME NEW K, NEW c, CogOK(c, K), NEW t \in 1..Len(c.tasks), ~Terminal(c, t),
           GoalsFollow(c), NEW s, Worked(K, c, s, t), ~OverBudget(s, t)
    PROVE  GoalsFollow(s) /\ Finished(c, s)
  <1>1. GoalsFollow(s)
    <2> SUFFICES ASSUME NEW g \in DOMAIN s.goals
                 PROVE  \/ \E u \in 1..Len(s.tasks) : EndedFor(s, u, g) /\ s.goals[g] = s.tasks[u].status
                        \/ s.goals[g] = "Active" /\ \A u \in 1..Len(s.tasks) : ~EndedFor(s, u, g)
      BY DEF GoalsFollow
    <2>1. /\ g \in DOMAIN c.goals /\ Len(s.tasks) = Len(c.tasks)
          /\ s.tasks[t].goal_id = c.tasks[t].goal_id /\ c.tasks[t].status \notin TerminalTask
          /\ \A u \in 1..Len(c.tasks) : u # t => s.tasks[u] = c.tasks[u]
      BY DEF Worked, SameTask, Terminal
    <2>2. CASE s.tasks[t].status = c.tasks[t].status /\ s.goals = c.goals
      <3>1. \A u \in 1..Len(c.tasks) : EndedFor(s, u, g) <=> EndedFor(c, u, g)
        BY <2>1, <2>2 DEF EndedFor
      <3> QED BY <2>1, <2>2, <3>1 DEF GoalsFollow, EndedFor
    <2>3. CASE /\ s.tasks[t].status \in TerminalTask
               /\ s.goals[g] = IF g \in c.tasks[t].goal_id THEN s.tasks[t].status ELSE c.goals[g]
      <3>1. CASE g \in c.tasks[t].goal_id
        BY <2>1, <2>3, <3>1 DEF EndedFor
      <3>2. CASE g \notin c.tasks[t].goal_id
        <4>1. \A u \in 1..Len(c.tasks) : EndedFor(s, u, g) <=> EndedFor(c, u, g)
          BY <2>1, <3>2 DEF EndedFor
        <4> QED BY <2>1, <2>3, <3>2, <4>1 DEF GoalsFollow, EndedFor
      <3> QED BY <3>1, <3>2
    <2> QED BY <2>1, <2>2, <2>3 DEF Worked
  <1>2. Finished(c, s)
    <2>1. DOMAIN c.tasks = 1..Len(c.tasks)
      BY TaskFields
    <2>2. \A u \in DOMAIN c.tasks : TaskKept(c, s, u)
      BY <2>1 DEF Worked, TaskKept, OverBudget
    <2>3. c.memory.next_id \in Nat
      BY DEF CogOK, MemoryOK
    <2> QED BY <2>2, <2>3 DEF Worked, Finished
  <1> QED BY <1>1, <1>2

(* A task that is not finished gets another status, and is still not.      *)
LEMMA StatusKeeps ==
    ASSUME NEW K, NEW c, CogOK(c, K), NEW t \in 1..Len(c.tasks), ~Terminal(c, t),
           GoalsFollow(c), NEW s, Len(s.tasks) = Len(c.tasks), ~Terminal(s, t),
           SameTask(c.tasks[t], s.tasks[t]),
           s.tasks[t].steps_taken = c.tasks[t].steps_taken,
           \A u \in 1..Len(c.tasks) : u # t => s.tasks[u] = c.tasks[u],
           s.goals = c.goals,
           DOMAIN s.memory.records \subseteq DOMAIN c.memory.records \cup {c.memory.next_id}
    PROVE  GoalsFollow(s) /\ Finished(c, s)
  <1>1. c.tasks[t].status \notin TerminalTask /\ s.tasks[t].status \notin TerminalTask
    BY DEF Terminal
  <1>2. GoalsFollow(s)
    <2>1. \A g \in DOMAIN c.goals : \A u \in 1..Len(c.tasks) :
             /\ EndedFor(s, u, g) <=> EndedFor(c, u, g)
             /\ EndedFor(c, u, g) => s.tasks[u].status = c.tasks[u].status
      BY <1>1 DEF EndedFor
    <2> SUFFICES ASSUME NEW g \in DOMAIN c.goals
                 PROVE  \/ \E u \in 1..Len(c.tasks) : EndedFor(s, u, g)
                                           /\ c.goals[g] = s.tasks[u].status
                        \/ c.goals[g] = "Active" /\ \A u \in 1..Len(c.tasks) : ~EndedFor(s, u, g)
      BY DEF GoalsFollow
    <2>2. CASE \E u \in 1..Len(c.tasks) : EndedFor(c, u, g) /\ c.goals[g] = c.tasks[u].status
      BY <2>1, <2>2
    <2>3. CASE c.goals[g] = "Active" /\ \A u \in 1..Len(c.tasks) : ~EndedFor(c, u, g)
      BY <2>1, <2>3
    <2> QED BY <2>2, <2>3 DEF GoalsFollow
  <1>3. DOMAIN c.tasks = 1..Len(c.tasks) /\ c.memory.next_id \in Nat
    BY TaskFields DEF CogOK, MemoryOK
  <1>4. \A u \in DOMAIN c.tasks : TaskKept(c, s, u)
    BY <1>1, <1>3 DEF TaskKept, Terminal, OverBudget, SameTask
  <1> QED BY <1>2, <1>3, <1>4 DEF Finished

(* complete_external_task, whatever the task's status and steps: its goal  *)
(* takes the outcome, and the other goals have the tasks they had.         *)
LEMMA CompleteKeeps ==
    ASSUME NEW c, CogOK(c, HostTasks), NEW t \in 1..Len(c.tasks), GoalsFollow(c)
    PROVE  LET s == complete_external_task(c, t) IN
           CogOK(s, HostTasks) /\ GoalsFollow(s) /\ Finished(c, s)
  <1> DEFINE d == [op |-> "Complete"]
             s == commit_directive(c, t, d)
             e == Effect(c, t, d)
  <1>1. d.op = "Complete" /\ d.op \in DirectiveOps /\ "Completed" \in HostTasks.overrun
    BY KindsOfTasks DEF DirectiveOps
  <1> HIDE DEF d
  <1>2. /\ Worked(HostTasks, c, s, t) /\ s.tasks[t].status = "Completed" /\ s.goals = e.goals
        /\ s.tasks[t].steps_taken = c.tasks[t].steps_taken + 1
    BY <1>1, CommitFields
  <1>3. \A g \in DOMAIN c.goals :
           e.goals[g] = IF g \in c.tasks[t].goal_id THEN "Completed" ELSE c.goals[g]
    BY <1>1, EffectFields
  <1>4. s = complete_external_task(c, t)
    BY DEF complete_external_task, d
  <1> HIDE DEF s, e
  <1>5. /\ CogOK(s, HostTasks) /\ Len(s.tasks) = Len(c.tasks) /\ DOMAIN s.goals = DOMAIN c.goals
        /\ s.tasks[t].goal_id = c.tasks[t].goal_id
        /\ \A u \in 1..Len(c.tasks) : u # t => s.tasks[u] = c.tasks[u]
        /\ DOMAIN s.memory.records \subseteq DOMAIN c.memory.records \cup {c.memory.next_id}
    BY <1>2 DEF Worked, SameTask
  <1>6. GoalsFollow(s)
    <2> SUFFICES ASSUME NEW g \in DOMAIN c.goals
                 PROVE  \/ \E u \in 1..Len(c.tasks) : EndedFor(s, u, g) /\ s.goals[g] = s.tasks[u].status
                        \/ s.goals[g] = "Active" /\ \A u \in 1..Len(c.tasks) : ~EndedFor(s, u, g)
      BY <1>5 DEF GoalsFollow
    <2>1. CASE g \in c.tasks[t].goal_id
      BY <1>2, <1>3, <1>5, <2>1 DEF EndedFor, TerminalTask
    <2>2. CASE g \notin c.tasks[t].goal_id
      <3>1. s.goals[g] = c.goals[g]
        BY <1>2, <1>3, <2>2
      <3>2. \A u \in 1..Len(c.tasks) :
               /\ EndedFor(s, u, g) <=> EndedFor(c, u, g)
               /\ EndedFor(c, u, g) => s.tasks[u].status = c.tasks[u].status
        BY <1>5, <2>2 DEF EndedFor
      <3> QED BY <3>1, <3>2 DEF GoalsFollow
    <2> QED BY <2>1, <2>2
  <1>7. DOMAIN c.tasks = 1..Len(c.tasks) /\ c.memory.next_id \in Nat
    BY TaskFields DEF CogOK, MemoryOK
  <1>8. \A u \in DOMAIN c.tasks : s = complete_external_task(c, u) \/ TaskKept(c, s, u)
    BY <1>4, <1>5, <1>7 DEF TaskKept, OverBudget
  <1>9. Finished(c, s)
    BY <1>5, <1>7, <1>8 DEF Finished
  <1> QED BY <1>4, <1>5, <1>6, <1>9

HostInv ==
    /\ CogOK(cog, HostTasks)
    /\ GoalsFollow(cog)
    /\ cycle \subseteq [task : Nat, left : Int]
    /\ \A y \in cycle : y.task \in 1..Len(cog.tasks) /\ ~Terminal(cog, y.task)

(* The calls that leave the tasks and the goals alone.                     *)
LEMMA OtherCalls ==
    ASSUME NEW K, NEW c, CogOK(c, K), GoalsFollow(c), NEW s, CogOK(s, K),
           s.tasks = c.tasks, s.goals = c.goals,
           DOMAIN s.memory.records \subseteq DOMAIN c.memory.records
    PROVE  GoalsFollow(s) /\ Finished(c, s)
  BY DEF GoalsFollow, EndedFor, Finished, TaskKept, OverBudget

(* Each call of a host, each iteration and a restart.                      *)
LEMMA HostStep ==
    ASSUME HostInv, [CognitionNext]_cogVars
    PROVE  HostInv' /\ Finished(cog, cog')
  <1>1. CogOK(cog, HostTasks) /\ GoalsFollow(cog) /\ cycle \subseteq [task : Nat, left : Int]
    BY DEF HostInv
  <1>2. /\ cog.tasks \in Seq(TaskRecord(HostTasks)) /\ cog.goals \in Seq(GoalStatus)
        /\ cog.deltas \in Seq(BOOLEAN)
        /\ cog = [goals |-> cog.goals, tasks |-> cog.tasks, world |-> cog.world,
                  memory |-> cog.memory, deltas |-> cog.deltas]
        /\ DOMAIN cog.tasks = 1..Len(cog.tasks) /\ Len(cog.tasks) \in Nat
        /\ DOMAIN cog.goals = 1..Len(cog.goals) /\ Len(cog.goals) \in Nat
    BY <1>1, LenProperties DEF CogOK
  <1>3. ASSUME cycle = {}, UNCHANGED cycle, CogOK(cog', HostTasks), GoalsFollow(cog'),
               Finished(cog, cog')
        PROVE  HostInv' /\ Finished(cog, cog')
    BY <1>1, <1>3 DEF HostInv
  <1>4. CASE HostAddGoal
    <2> DEFINE gs == Append(cog.goals, "Active")
               n == Len(cog.goals) + 1
    <2>1. cycle = {} /\ cog' = [cog EXCEPT !.goals = gs] /\ UNCHANGED cycle
      BY <1>4 DEF HostAddGoal, HostCall, add_goal
    <2>2. /\ gs \in Seq(GoalStatus) /\ DOMAIN gs = 1..n /\ gs[n] = "Active"
          /\ \A g \in 1..Len(cog.goals) : gs[g] = cog.goals[g]
      BY <1>2, AppendProperties DEF GoalStatus
    <2> HIDE DEF gs
    <2>3. cog' = [goals |-> gs, tasks |-> cog.tasks, world |-> cog.world,
                  memory |-> cog.memory, deltas |-> cog.deltas]
      BY <1>2, <2>1
    <2>4. cog'.goals = gs /\ cog'.tasks = cog.tasks /\ cog'.memory = cog.memory
      BY <2>3
    <2>5. DOMAIN cog.goals \subseteq DOMAIN gs /\ n \notin DOMAIN cog.goals
          /\ \A g \in DOMAIN gs : g \in DOMAIN cog.goals \/ g = n
      BY <1>2, <2>2
    <2>6. \A t \in 1..Len(cog.tasks) : TaskOK(cog', cog.tasks[t], HostTasks)
      BY <1>1, <2>4, <2>5 DEF CogOK, TaskOK
    <2>7. CogOK(cog', HostTasks)
      BY <1>1, <2>2, <2>3, <2>6 DEF CogOK
    <2>8. \A t \in 1..Len(cog.tasks) : n \notin cog.tasks[t].goal_id
      BY <1>1, <2>5 DEF CogOK, TaskOK
    <2>9. GoalsFollow(cog')
      <3> SUFFICES ASSUME NEW g \in DOMAIN gs
                   PROVE  \/ \E t \in 1..Len(cog.tasks) :
                                EndedFor(cog, t, g) /\ gs[g] = cog.tasks[t].status
                          \/ gs[g] = "Active" /\ \A t \in 1..Len(cog.tasks) : ~EndedFor(cog, t, g)
        BY <2>4 DEF GoalsFollow, EndedFor
      <3>1. CASE g = n
        BY <2>2, <2>8, <3>1 DEF EndedFor
      <3>2. CASE g \in DOMAIN cog.goals
        BY <1>1, <1>2, <2>2, <3>2 DEF GoalsFollow
      <3> QED BY <2>5, <3>1, <3>2
    <2>10. Finished(cog, cog')
      BY <2>4 DEF Finished, TaskKept, OverBudget
    <2> QED BY <1>3, <2>1, <2>7, <2>9, <2>10
  <1>5. CASE HostSubmitTask
    <2>1. PICK goal \in {{}} \cup {{g} : g \in DOMAIN cog.goals}, o \in Topics, m \in StepBudgets :
             HostCall(submit_task(cog, goal, o, m))
      BY <1>5 DEF HostSubmitTask
    <2> DEFINE n == Len(cog.tasks) + 1
    <2>2. cycle = {} /\ cog' = submit_task(cog, goal, o, m) /\ UNCHANGED cycle
      BY <2>1 DEF HostCall
    <2>3. goal \in {{}} \cup {{g} : g \in DOMAIN cog.goals} /\ o \in Topics
      OBVIOUS
    <2>4. m \in Nat \ {0}
      BY CognitiveHostAssumption
    <2>5. /\ CogOK(cog', HostTasks) /\ Len(cog'.tasks) = n
          /\ \A u \in 1..Len(cog.tasks) : cog'.tasks[u] = cog.tasks[u]
          /\ cog'.tasks[n].status = "Planned"
          /\ cog'.goals = cog.goals /\ cog'.memory = cog.memory
      <3> DEFINE s == submit_task(cog, goal, o, m)
      <3>0. o \in HostTasks.objectives
        BY <2>3, KindsOfTasks
      <3>1. /\ CogOK(s, HostTasks) /\ Len(s.tasks) = n
            /\ \A u \in 1..Len(cog.tasks) : s.tasks[u] = cog.tasks[u]
            /\ s.tasks[n].status = "Planned"
            /\ s.goals = cog.goals /\ s.memory = cog.memory
        BY <1>1, <2>3, <2>4, <3>0, SubmitFields
      <3> HIDE DEF s
      <3> QED BY <2>2, <3>1 DEF s
    <2>6. cog'.tasks[n].status \notin TerminalTask
      BY <2>5 DEF TerminalTask
    <2>7. \A u \in 1..n : u \in 1..Len(cog.tasks) \/ u = n
      BY <1>2
    <2>8. GoalsFollow(cog')
      <3> SUFFICES ASSUME NEW g \in DOMAIN cog.goals
                   PROVE  \/ \E t \in 1..n : EndedFor(cog', t, g)
                                             /\ cog.goals[g] = cog'.tasks[t].status
                          \/ cog.goals[g] = "Active" /\ \A t \in 1..n : ~EndedFor(cog', t, g)
        BY <2>5 DEF GoalsFollow
      <3>1. \A u \in 1..Len(cog.tasks) : u \in 1..n /\ (EndedFor(cog', u, g) <=> EndedFor(cog, u, g))
        BY <1>2, <2>5 DEF EndedFor
      <3>2. ~EndedFor(cog', n, g)
        BY <2>6 DEF EndedFor
      <3>3. CASE \E t \in 1..Len(cog.tasks) : EndedFor(cog, t, g) /\ cog.goals[g] = cog.tasks[t].status
        BY <2>5, <3>1, <3>3
      <3>4. CASE cog.goals[g] = "Active" /\ \A t \in 1..Len(cog.tasks) : ~EndedFor(cog, t, g)
        BY <2>7, <3>1, <3>2, <3>4
      <3> QED BY <1>1, <3>3, <3>4 DEF GoalsFollow
    <2>9. Finished(cog, cog')
      BY <1>2, <2>5 DEF Finished, TaskKept, OverBudget
    <2> QED BY <1>3, <2>2, <2>5, <2>8, <2>9
  <1>6. CASE HostForget
    <2>1. PICK i \in DOMAIN cog.memory.records : HostCall(forget(cog, i))
      BY <1>6 DEF HostForget
    <2>2. cycle = {} /\ cog' = forget(cog, i) /\ UNCHANGED cycle
      BY <2>1 DEF HostCall
    <2>3. /\ CogOK(cog', HostTasks) /\ cog'.goals = cog.goals /\ cog'.tasks = cog.tasks
          /\ DOMAIN cog'.memory.records \subseteq DOMAIN cog.memory.records
      BY <1>1, <2>2, ForgetFields
    <2> QED BY <1>1, <1>3, <2>2, <2>3, OtherCalls
  <1>7. ASSUME NEW ds \in Seq(BOOLEAN), cycle = {}, UNCHANGED cycle,
               cog' = [cog EXCEPT !.deltas = ds]
        PROVE  HostInv' /\ Finished(cog, cog')
    <2>1. cog' = [goals |-> cog.goals, tasks |-> cog.tasks, world |-> cog.world,
                  memory |-> cog.memory, deltas |-> ds]
      BY <1>2, <1>7
    <2>2. CogOK(cog', HostTasks) /\ cog'.goals = cog.goals /\ cog'.tasks = cog.tasks
          /\ cog'.memory = cog.memory
      BY <1>1, <2>1 DEF CogOK, TaskOK
    <2> QED BY <1>1, <1>3, <1>7, <2>2, OtherCalls
  <1>8. CASE HostInstallDelta
    <2>1. Append(cog.deltas, FALSE) \in Seq(BOOLEAN)
      BY <1>2, AppendProperties
    <2> QED BY <1>7, <1>8, <2>1 DEF HostInstallDelta, HostCall, install_delta
  <1>9. CASE HostActivateDelta
    <2>1. PICK d \in DOMAIN cog.deltas : HostCall(activate_delta(cog, d))
      BY <1>9 DEF HostActivateDelta
    <2>2. [cog.deltas EXCEPT ![d] = TRUE] \in Seq(BOOLEAN)
      BY <1>2, ExceptSeq
    <2>3. cog' = [cog EXCEPT !.deltas = [cog.deltas EXCEPT ![d] = TRUE]]
          /\ cycle = {} /\ UNCHANGED cycle
      BY <2>1 DEF HostCall, activate_delta
    <2> QED BY <1>7, <2>2, <2>3
  <1>a. ASSUME NEW t \in 1..Len(cog.tasks), ~Terminal(cog, t), NEW x \in TaskStatus \ TerminalTask
        PROVE  LET s == [cog EXCEPT !.tasks[t].status = x] IN
               /\ CogOK(s, HostTasks) /\ Len(s.tasks) = Len(cog.tasks)
               /\ ~Terminal(s, t) /\ GoalsFollow(s) /\ Finished(cog, s)
               /\ SameTask(cog.tasks[t], s.tasks[t])
               /\ s.tasks[t].steps_taken = cog.tasks[t].steps_taken
               /\ \A u \in 1..Len(cog.tasks) : u # t => s.tasks[u] = cog.tasks[u]
               /\ s.goals = cog.goals /\ s.memory = cog.memory
    <2> DEFINE s == [cog EXCEPT !.tasks[t].status = x]
    <2>1. x \in TaskStatus /\ cog.tasks[t].status \notin HostTasks.overrun
      BY <1>a, KindsOfTasks DEF Terminal, TerminalTask
    <2>2. /\ CogOK(s, HostTasks) /\ Len(s.tasks) = Len(cog.tasks) /\ s.tasks[t].status = x
          /\ SameTask(cog.tasks[t], s.tasks[t])
          /\ s.tasks[t].steps_taken = cog.tasks[t].steps_taken
          /\ \A u \in 1..Len(cog.tasks) : u # t => s.tasks[u] = cog.tasks[u]
          /\ s.goals = cog.goals /\ s.memory = cog.memory
      BY <1>1, <1>a, <2>1, StatusFields
    <2> HIDE DEF s
    <2>3. ~Terminal(s, t)
      BY <2>2 DEF Terminal
    <2>4. GoalsFollow(s) /\ Finished(cog, s)
      BY <1>1, <1>a, <2>2, <2>3, StatusKeeps
    <2> QED BY <2>2, <2>3, <2>4 DEF s
  <1>10. CASE advance
    <2>1. PICK t \in DOMAIN cog.tasks, b \in ReasoningBudget :
             /\ ~Terminal(cog, t)
             /\ cog' = [cog EXCEPT !.tasks[t].status = "Running"]
             /\ cycle' = {[task |-> t, left |-> iterations_for_budget[b]]}
      BY <1>10 DEF advance
    <2>2. /\ CogOK(cog', HostTasks) /\ Len(cog'.tasks) = Len(cog.tasks)
          /\ ~Terminal(cog', t) /\ GoalsFollow(cog') /\ Finished(cog, cog')
      <3>1. "Running" \in TaskStatus \ TerminalTask /\ t \in 1..Len(cog.tasks)
        BY <1>2 DEF TaskStatus, TerminalTask
      <3> QED BY <1>a, <2>1, <3>1
    <2>6. cycle' \subseteq [task : Nat, left : Int]
      <3>1. t \in Nat
        BY <1>2
      <3>2. iterations_for_budget[b] \in Int
        BY DEF ReasoningBudget, iterations_for_budget
      <3> QED BY <2>1, <3>1, <3>2
    <2>7. \A y \in cycle' : y.task \in 1..Len(cog'.tasks) /\ ~Terminal(cog', y.task)
      BY <1>2, <2>1, <2>2
    <2> QED BY <2>2, <2>6, <2>7 DEF HostInv
  <1>11. CASE advance_iteration
    <2> DEFINE V == {"Accept", "Retry", "Reject"}
    <2>1. PICK y \in cycle : \E o \in Iteration(cog, y.task, Directive, V) :
             /\ cog' = o.state
             /\ cycle' = IF o.on /\ y.left > 1 THEN {[y EXCEPT !.left = @ - 1]} ELSE {}
      BY <1>11 DEF advance_iteration
    <2>2. PICK o \in Iteration(cog, y.task, Directive, V) :
             /\ cog' = o.state
             /\ cycle' = IF o.on /\ y.left > 1 THEN {[y EXCEPT !.left = @ - 1]} ELSE {}
      BY <2>1
    <2>3. y.task \in 1..Len(cog.tasks) /\ ~Terminal(cog, y.task)
          /\ y \in [task : Nat, left : Int]
      BY DEF HostInv
    <2>4. \A d \in Directive : d.op \in DirectiveOps
      BY DEF Directive, DirectiveOps
    <2>a. cog.tasks[y.task].status \notin HostTasks.overrun
      BY <2>3, KindsOfTasks DEF Terminal, TerminalTask
    <2>5. /\ Worked(HostTasks, cog, cog', y.task) /\ ~OverBudget(cog', y.task)
          /\ o.on => cog'.tasks[y.task].status = cog.tasks[y.task].status
      BY <1>1, <2>2, <2>3, <2>4, <2>a, IterationFields
    <2>6. GoalsFollow(cog') /\ Finished(cog, cog')
      BY <1>1, <2>3, <2>5, WorkedKeeps
    <2>7. cycle' \subseteq [task : Nat, left : Int]
      BY <2>2, <2>3
    <2>8. \A z \in cycle' : z.task = y.task /\ o.on
      BY <2>2, <2>3
    <2>9. \A z \in cycle' : z.task \in 1..Len(cog'.tasks) /\ ~Terminal(cog', z.task)
      BY <2>3, <2>5, <2>8 DEF Worked, Terminal
    <2> QED BY <2>5, <2>6, <2>7, <2>9 DEF HostInv, Worked
  <1>12. CASE HostRestart
    <2>1. cycle = {} /\ UNCHANGED cycle /\ cog' = cog
      BY <1>1, <1>12, CodecRoundTrip DEF HostRestart
    <2> QED BY <1>1, <1>3, <2>1, OtherCalls
  <1>13. CASE UNCHANGED cogVars
    <2>1. UNCHANGED <<cog, cycle>>
      BY <1>13 DEF cogVars
    <2>2. HostInv'
      BY <2>1 DEF HostInv, Terminal
    <2> QED BY <1>1, <2>1, <2>2, OtherCalls
  <1>14. CASE HostStartTask
    <2>1. PICK t \in DOMAIN cog.tasks : HostCall(start_external_task(cog, t))
      BY <1>14 DEF HostStartTask
    <2>2. cycle = {} /\ cog' = start_external_task(cog, t) /\ UNCHANGED cycle
      BY <2>1 DEF HostCall
    <2>3. CASE Terminal(cog, t)
      <3>1. cog' = cog
        BY <2>2, <2>3 DEF start_external_task
      <3> QED BY <1>1, <1>3, <2>2, <3>1, OtherCalls
    <2>4. CASE ~Terminal(cog, t)
      <3>1. cog' = [cog EXCEPT !.tasks[t].status = "Running"]
        BY <2>2, <2>4 DEF start_external_task
      <3>2. "Running" \in TaskStatus \ TerminalTask /\ t \in 1..Len(cog.tasks)
        BY <1>2 DEF TaskStatus, TerminalTask
      <3>3. CogOK(cog', HostTasks) /\ GoalsFollow(cog') /\ Finished(cog, cog')
        BY <1>a, <2>4, <3>1, <3>2
      <3> QED BY <1>3, <2>2, <3>3
    <2> QED BY <2>3, <2>4
  <1>15. CASE HostPauseTask
    <2>1. PICK t \in DOMAIN cog.tasks : HostCall(pause_external_task(cog, t))
      BY <1>15 DEF HostPauseTask
    <2>2. cycle = {} /\ cog' = pause_external_task(cog, t) /\ UNCHANGED cycle
      BY <2>1 DEF HostCall
    <2>3. CASE Terminal(cog, t)
      <3>1. cog' = cog
        BY <2>2, <2>3 DEF pause_external_task
      <3> QED BY <1>1, <1>3, <2>2, <3>1, OtherCalls
    <2>4. CASE ~Terminal(cog, t)
      <3> DEFINE p == [cog EXCEPT !.tasks[t].status = "Paused"]
      <3>1. cog' = store(p, "pause", OwnWords)
        BY <2>2, <2>4 DEF pause_external_task
      <3>2. "Paused" \in TaskStatus \ TerminalTask /\ t \in 1..Len(cog.tasks)
        BY <1>2 DEF TaskStatus, TerminalTask
      <3>3. /\ CogOK(p, HostTasks) /\ Len(p.tasks) = Len(cog.tasks) /\ ~Terminal(p, t)
            /\ SameTask(cog.tasks[t], p.tasks[t])
            /\ p.tasks[t].steps_taken = cog.tasks[t].steps_taken
            /\ \A u \in 1..Len(cog.tasks) : u # t => p.tasks[u] = cog.tasks[u]
            /\ p.goals = cog.goals /\ p.memory = cog.memory
        BY <1>a, <2>4, <3>2
      <3> HIDE DEF p
      <3>4. /\ CogOK(cog', HostTasks) /\ cog'.goals = p.goals /\ cog'.tasks = p.tasks
            /\ DOMAIN cog'.memory.records = DOMAIN p.memory.records \cup {p.memory.next_id}
        BY <3>1, <3>3, StoreFields
      <3>5. ~Terminal(cog', t)
        BY <3>3, <3>4 DEF Terminal
      <3>6. GoalsFollow(cog') /\ Finished(cog, cog')
        BY <1>1, <2>4, <3>2, <3>3, <3>4, <3>5, StatusKeeps
      <3> QED BY <1>3, <2>2, <3>4, <3>6
    <2> QED BY <2>3, <2>4
  <1>16. CASE HostCompleteTask
    <2>1. PICK t \in DOMAIN cog.tasks : HostCall(complete_external_task(cog, t))
      BY <1>16 DEF HostCompleteTask
    <2>2. cycle = {} /\ cog' = complete_external_task(cog, t) /\ UNCHANGED cycle
      BY <2>1 DEF HostCall
    <2>3. CogOK(cog', HostTasks) /\ GoalsFollow(cog') /\ Finished(cog, cog')
      BY <1>1, <1>2, <2>2, CompleteKeeps
    <2> QED BY <1>3, <2>2, <2>3
  <1> QED BY <1>4, <1>5, <1>6, <1>8, <1>9, <1>10, <1>11, <1>12, <1>13, <1>14, <1>15, <1>16
          DEF CognitionNext

LEMMA HostInductive == CognitionSpec => []HostInv
  <1>1. CognitionInit => HostInv
    <2> SUFFICES ASSUME CognitionInit PROVE HostInv
      OBVIOUS
    <2>1. cog = CognitiveState /\ cycle = {}
      BY DEF CognitionInit
    <2>2. GoalsFollow(cog)
      BY <2>1 DEF GoalsFollow, CognitiveState
    <2> QED BY <2>1, <2>2, FreshState DEF HostInv
  <1>2. HostInv /\ [CognitionNext]_cogVars => HostInv'
    BY HostStep
  <1> QED BY <1>1, <1>2, PTL DEF CognitionSpec

(* Every state a host reaches comes back from its SIK97 image unchanged,   *)
(* and the validator refuses only a completed task over its budget, for    *)
(* any number of goals, tasks, facts and memories.                         *)
THEOREM RestorableCognition == CognitionSpec => []CognitionRestorable
  <1>1. HostInv => CognitionRestorable
    <2> SUFFICES ASSUME HostInv PROVE CognitionRestorable
      OBVIOUS
    <2>1. CogOK(cog, HostTasks)
      BY DEF HostInv
    <2>2. ASSUME NEW t \in DOMAIN cog.tasks, OverBudget(cog, t)
          PROVE  cog.tasks[t].status = "Completed"
      <3>1. t \in 1..Len(cog.tasks)
        BY <2>1, LenProperties DEF CogOK
      <3>2. /\ cog.tasks[t].max_steps \in Nat /\ cog.tasks[t].steps_taken \in Nat
            /\ TaskOK(cog, cog.tasks[t], HostTasks)
        BY <2>1, <3>1, TaskFields
      <3> QED BY <2>2, <3>2, KindsOfTasks DEF TaskOK, OverBudget
    <2>3. /\ decode_cognitive_checkpoint(encode_cognitive_checkpoint(cog)) = cog
          /\ (\A t \in DOMAIN cog.tasks : ~OverBudget(cog, t)) =>
                validate_state(cog) /\ Decodable(encode_cognitive_checkpoint(cog))
      BY <2>1, CodecRoundTrip
    <2> QED BY <2>2, <2>3 DEF CognitionRestorable
  <1> QED BY <1>1, HostInductive, PTL

(* A goal is finished exactly when one of its tasks is, and as a task of   *)
(* it is, whatever tasks share it.                                         *)
THEOREM GoalsReflectTasks == CognitionSpec => []GoalReflectsTask
  <1>1. HostInv => GoalReflectsTask
    <2> SUFFICES ASSUME HostInv, NEW g \in DOMAIN cog.goals
                 PROVE  LET ends == {cog.tasks[t].status : t \in
                                       {t \in DOMAIN cog.tasks : g \in cog.tasks[t].goal_id}}
                                    \cap TerminalTask
                        IN  IF ends = {} THEN cog.goals[g] = "Active" ELSE cog.goals[g] \in ends
      BY DEF GoalReflectsTask
    <2>1. DOMAIN cog.tasks = 1..Len(cog.tasks)
      BY LenProperties DEF HostInv, CogOK
    <2>2. \/ \E t \in 1..Len(cog.tasks) : EndedFor(cog, t, g) /\ cog.goals[g] = cog.tasks[t].status
          \/ cog.goals[g] = "Active" /\ \A t \in 1..Len(cog.tasks) : ~EndedFor(cog, t, g)
      BY DEF HostInv, GoalsFollow
    <2> QED BY <2>1, <2>2 DEF EndedFor
  <1> QED BY <1>1, HostInductive, PTL

(* Only complete_external_task of the very task changes a finished task or *)
(* takes a task over its budget, and the id of a memory is never given out *)
(* twice, restarts and forgotten memories included.                        *)
THEOREM FinishedTasksStay == CognitionSpec => FinishedTaskStays
  <1>1. HostInv /\ [CognitionNext]_cogVars =>
          [/\ \A t \in DOMAIN cog.tasks :
                \/ cog' = complete_external_task(cog, t)
                \/ /\ Terminal(cog, t) => cog'.tasks[t] = cog.tasks[t]
                   /\ OverBudget(cog', t) => OverBudget(cog, t)
           /\ \A i \in DOMAIN cog'.memory.records \ DOMAIN cog.memory.records :
                 i >= cog.memory.next_id]_cogVars
    BY HostStep DEF Finished, TaskKept
  <1> QED BY <1>1, HostInductive, PTL DEF CognitionSpec, FinishedTaskStays

-----------------------------------------------------------------------------
(* The conversation: what its methods keep.                                *)

Turn == [role : {"User", "Assistant"}, about : Messages]

ActiveTurn ==
    [task : Nat, message : Messages, tokens : Nat, text : BOOLEAN, synthesis : BOOLEAN,
     fabric : SUBSET Nat]

ShapeOK(v) ==
    /\ v = [cog |-> v.cog, turns |-> v.turns, active |-> v.active]
    /\ CogOK(v.cog, ChatTasks)
    /\ v.turns \in Seq(Turn) /\ validate_turns(v.turns)
    /\ v.active \subseteq ActiveTurn /\ \A a, b \in v.active : a = b

(* The active turn is that of the last task, which is the only one at work *)
(* and has steps left.                                                     *)
WorksOn(c, a) ==
    /\ a.task \in 1..Len(c.tasks) /\ a.task = Len(c.tasks)
    /\ c.tasks[a.task].objective = a.message
    /\ c.tasks[a.task].status = "Running"
    /\ c.tasks[a.task].steps_taken < c.tasks[a.task].max_steps

ActiveOK(v) == \A a \in v.active : WorksOn(v.cog, a) /\ a.tokens <= MaxNewTokens

StatusesOK(v) ==
    \A t \in 1..Len(v.cog.tasks) :
        v.cog.tasks[t].status \in {"Planned", "Running"} => \E a \in v.active : a.task = t

(* A fact is about a task there is.                                        *)
KeysOK(v) == \A k \in DOMAIN v.cog.world : k[1] \in 1..Len(v.cog.tasks)

(* The completed tasks, the exchanges and the dialogue memories.           *)
Answered(ts) == {t \in 1..Len(ts) : ts[t].status = "Completed"}
Place(ts, t) == Cardinality({u \in Answered(ts) : u <= t})
Dialogues(m) == {i \in DOMAIN m.records : Tagged(m.records[i])}

MatchOK(c, turns) ==
    /\ Len(turns) = 2 * Cardinality(Answered(c.tasks))
    /\ \A t \in Answered(c.tasks) : turns[2 * Place(c.tasks, t)].about = c.tasks[t].objective
    /\ Cardinality(Dialogues(c.memory)) = Cardinality(Answered(c.tasks))

ConvOK(v) ==
    ShapeOK(v) /\ ActiveOK(v) /\ StatusesOK(v) /\ KeysOK(v) /\ MatchOK(v.cog, v.turns)

(* The same answered tasks and the same dialogue memories.                 *)
LEMMA MatchKept ==
    ASSUME NEW c, NEW s, NEW turns, MatchOK(c, turns),
           Answered(s.tasks) = Answered(c.tasks), Dialogues(s.memory) = Dialogues(c.memory),
           \A t \in Answered(c.tasks) : s.tasks[t].objective = c.tasks[t].objective
    PROVE  MatchOK(s, turns)
  <1>1. \A t \in Answered(c.tasks) : Place(s.tasks, t) = Place(c.tasks, t)
    BY DEF Place
  <1> QED BY <1>1 DEF MatchOK

(* A fact is recorded: the other facts and all the rest stay.              *)
LEMMA RecordFields ==
    ASSUME NEW v, ConvOK(v), NEW t \in 1..Len(v.cog.tasks), NEW name, NEW value
    PROVE  LET r == record(v, t, name, value) IN
           /\ ConvOK(r)
           /\ r.turns = v.turns /\ r.active = v.active /\ r.cog.tasks = v.cog.tasks
           /\ \A d : fact(r, t, name, d) = value
           /\ \A u, other, d : other # name => fact(r, u, other, d) = fact(v, u, other, d)
  <1> DEFINE r == record(v, t, name, value)
             key == <<t, name>>
             c == set_world_fact(v.cog, key, value)
  <1>1. CogOK(v.cog, ChatTasks) /\ v = [cog |-> v.cog, turns |-> v.turns, active |-> v.active]
    BY DEF ConvOK, ShapeOK
  <1>2. r = [v EXCEPT !.cog = c]
    BY DEF record
  <1>3. /\ CogOK(c, ChatTasks) /\ c.tasks = v.cog.tasks /\ c.memory = v.cog.memory
        /\ DOMAIN c.world = DOMAIN v.cog.world \cup {key}
        /\ c.world[key].value = value
        /\ \A k \in DOMAIN v.cog.world : k # key => c.world[k] = v.cog.world[k]
    BY <1>1, FactFields
  <1>4. key[1] = t
    OBVIOUS
  <1> HIDE DEF r, c, key
  <1>5. r = [cog |-> c, turns |-> v.turns, active |-> v.active]
    BY <1>1, <1>2
  <1>6. r.cog = c /\ r.turns = v.turns /\ r.active = v.active
    BY <1>5
  <1>7. ShapeOK(r)
    BY <1>3, <1>5, <1>6 DEF ConvOK, ShapeOK
  <1>8. ActiveOK(r) /\ StatusesOK(r)
    BY <1>3, <1>6 DEF ConvOK, ActiveOK, StatusesOK, WorksOn
  <1>9. KeysOK(r)
    BY <1>3, <1>4, <1>6 DEF ConvOK, KeysOK
  <1>10. MatchOK(r.cog, r.turns)
    BY <1>3, <1>6, MatchKept DEF ConvOK
  <1>11. \A d : fact(r, t, name, d) = value
    BY <1>3, <1>6 DEF fact, key
  <1>12. \A u, other, d : other # name => fact(r, u, other, d) = fact(v, u, other, d)
    <2>1. \A u, other : other # name => <<u, other>> # key
      BY DEF key
    <2> QED BY <1>3, <1>6, <2>1 DEF fact
  <1>13. ConvOK(r)
    BY <1>7, <1>8, <1>9, <1>10 DEF ConvOK
  <1> QED BY <1>3, <1>6, <1>11, <1>12, <1>13 DEF r, key

(* The active turn changes, but for its task and its message.              *)
LEMMA ActiveChanges ==
    ASSUME NEW v, ConvOK(v), NEW a \in v.active, NEW b \in ActiveTurn,
           b.task = a.task, b.message = a.message, b.tokens <= MaxNewTokens
    PROVE  LET r == [v EXCEPT !.active = {b}] IN
           /\ ConvOK(r) /\ r.turns = v.turns /\ r.active = {b} /\ r.cog = v.cog
           /\ \A u, other, d : fact(r, u, other, d) = fact(v, u, other, d)
  <1> DEFINE r == [v EXCEPT !.active = {b}]
  <1>1. v = [cog |-> v.cog, turns |-> v.turns, active |-> v.active]
    BY DEF ConvOK, ShapeOK
  <1>2. r = [cog |-> v.cog, turns |-> v.turns, active |-> {b}]
    BY <1>1
  <1> HIDE DEF r
  <1>3. r.cog = v.cog /\ r.turns = v.turns /\ r.active = {b}
    BY <1>2
  <1>4. ShapeOK(r)
    BY <1>2, <1>3 DEF ConvOK, ShapeOK
  <1>5. ActiveOK(r)
    BY <1>3 DEF ConvOK, ActiveOK, WorksOn
  <1>6. StatusesOK(r)
    BY <1>3 DEF ConvOK, ShapeOK, StatusesOK
  <1>7. KeysOK(r) /\ MatchOK(r.cog, r.turns)
    BY <1>3 DEF ConvOK, KeysOK
  <1>8. ConvOK(r)
    BY <1>4, <1>5, <1>6, <1>7 DEF ConvOK
  <1>9. \A u, other, d : fact(r, u, other, d) = fact(v, u, other, d)
    BY <1>3 DEF fact
  <1> QED BY <1>3, <1>8, <1>9 DEF r

(* The cognitive state changes, and its facts, the order of its tasks and  *)
(* its dialogue memories do not: a turn stays that of the last task.       *)
LEMMA CogChanges ==
    ASSUME NEW v, ConvOK(v), NEW c, CogOK(c, ChatTasks),
           c.world = v.cog.world, Dialogues(c.memory) = Dialogues(v.cog.memory),
           Len(c.tasks) = Len(v.cog.tasks),
           \A t \in 1..Len(c.tasks) :
              /\ c.tasks[t].objective = v.cog.tasks[t].objective
              /\ c.tasks[t].status = v.cog.tasks[t].status,
           \A a \in v.active : c.tasks[a.task].steps_taken < c.tasks[a.task].max_steps
    PROVE  LET r == [v EXCEPT !.cog = c] IN
           /\ ConvOK(r) /\ r.turns = v.turns /\ r.active = v.active /\ r.cog = c
           /\ \A u, name, d : fact(r, u, name, d) = fact(v, u, name, d)
  <1> DEFINE r == [v EXCEPT !.cog = c]
  <1>1. v = [cog |-> v.cog, turns |-> v.turns, active |-> v.active]
    BY DEF ConvOK, ShapeOK
  <1>2. r = [cog |-> c, turns |-> v.turns, active |-> v.active]
    BY <1>1
  <1> HIDE DEF r
  <1>3. r.cog = c /\ r.turns = v.turns /\ r.active = v.active
    BY <1>2
  <1>4. ShapeOK(r)
    BY <1>2, <1>3 DEF ConvOK, ShapeOK
  <1>5. ActiveOK(r) /\ StatusesOK(r)
    BY <1>3 DEF ConvOK, ActiveOK, StatusesOK, WorksOn
  <1>6. KeysOK(r)
    BY <1>3 DEF ConvOK, KeysOK
  <1>7. Answered(c.tasks) = Answered(v.cog.tasks)
        /\ \A t \in Answered(v.cog.tasks) : c.tasks[t].objective = v.cog.tasks[t].objective
    BY DEF Answered
  <1>8. MatchOK(r.cog, r.turns)
    BY <1>3, <1>7, MatchKept DEF ConvOK
  <1>9. \A u, name, d : fact(r, u, name, d) = fact(v, u, name, d)
    BY <1>3 DEF fact
  <1>10. ConvOK(r)
    BY <1>4, <1>5, <1>6, <1>8 DEF ConvOK
  <1> QED BY <1>3, <1>9, <1>10 DEF r

(* A task is paused, and a memory says so.                                 *)
LEMMA PauseFields ==
    ASSUME NEW c, CogOK(c, ChatTasks),
           NEW t \in 1..Len(c.tasks), ~Terminal(c, t)
    PROVE  LET s == pause_external_task(c, t) IN
           /\ CogOK(s, ChatTasks) /\ Len(s.tasks) = Len(c.tasks)
           /\ s.tasks[t].status = "Paused"
           /\ \A u \in 1..Len(c.tasks) : u # t => s.tasks[u] = c.tasks[u]
           /\ s.world = c.world /\ Dialogues(s.memory) = Dialogues(c.memory)
  <1> DEFINE s == pause_external_task(c, t)
             p == [c EXCEPT !.tasks[t].status = "Paused"]
  <1>1. s = store(p, "pause", OwnWords)
    BY DEF pause_external_task
  <1>2. /\ CogOK(p, ChatTasks) /\ Len(p.tasks) = Len(c.tasks)
        /\ p.tasks[t].status = "Paused" /\ p.tasks[t].steps_taken = c.tasks[t].steps_taken
        /\ SameTask(c.tasks[t], p.tasks[t])
        /\ \A u \in 1..Len(c.tasks) : u # t => p.tasks[u] = c.tasks[u]
        /\ p.goals = c.goals /\ p.world = c.world /\ p.memory = c.memory /\ p.deltas = c.deltas
    <2>1. "Paused" \in TaskStatus /\ c.tasks[t].status \notin ChatTasks.overrun
      BY KindsOfTasks DEF TaskStatus
    <2> QED BY <2>1, StatusFields, SMTT(40)
  <1> HIDE DEF p, s
  <1>3. /\ CogOK(s, ChatTasks) /\ s.tasks = p.tasks /\ s.world = p.world
        /\ DOMAIN s.memory.records = DOMAIN p.memory.records \cup {p.memory.next_id}
        /\ \A i \in DOMAIN p.memory.records : s.memory.records[i] = p.memory.records[i]
        /\ s.memory.records[p.memory.next_id].about = "pause"
    BY <1>1, <1>2, StoreFields
  <1>4. Dialogues(s.memory) = Dialogues(c.memory)
    <2>1. p.memory.next_id \notin DOMAIN p.memory.records
      BY <1>2 DEF CogOK, MemoryOK
    <2> QED BY <1>2, <1>3, <2>1 DEF Dialogues, Tagged
  <1> QED BY <1>2, <1>3, <1>4 DEF s

(* A turn is cancelled: its task is paused.                                *)
LEMMA CancelFields ==
    ASSUME NEW v, ConvOK(v), NEW a \in v.active
    PROVE  LET r == cancel_turn(v, a) IN
           ConvOK(r) /\ r.turns = v.turns /\ r.active = {}
           /\ Len(r.cog.tasks) = Len(v.cog.tasks)
  <1> DEFINE r == cancel_turn(v, a)
             t == a.task
             c == v.cog
             s == pause_external_task(c, t)
  <1>1. /\ v = [cog |-> v.cog, turns |-> v.turns, active |-> v.active] /\ CogOK(c, ChatTasks)
        /\ WorksOn(c, a) /\ \A b \in v.active : b = a
    BY DEF ConvOK, ShapeOK, ActiveOK
  <1>2. t \in 1..Len(c.tasks) /\ c.tasks[t].status = "Running"
    BY <1>1 DEF WorksOn
  <1>3. ~Terminal(c, t) /\ CogOK(c, ChatTasks)
    BY <1>1, <1>2 DEF Terminal, TerminalTask
  <1>4. r = [v EXCEPT !.cog = s, !.active = {}]
    BY DEF cancel_turn
  <1> HIDE DEF t, c
  <1>5. /\ CogOK(s, ChatTasks) /\ Len(s.tasks) = Len(c.tasks)
        /\ s.tasks[t].status = "Paused"
        /\ \A u \in 1..Len(c.tasks) : u # t => s.tasks[u] = c.tasks[u]
        /\ s.world = c.world /\ Dialogues(s.memory) = Dialogues(c.memory)
    BY <1>2, <1>3, PauseFields
  <1> HIDE DEF s, r
  <1>7. r = [cog |-> s, turns |-> v.turns, active |-> {}]
    BY <1>1, <1>4
  <1>8. r.cog = s /\ r.turns = v.turns /\ r.active = {}
    BY <1>7
  <1>9. ShapeOK(r)
    BY <1>5, <1>7, <1>8 DEF ConvOK, ShapeOK
  <1>11. ActiveOK(r) /\ KeysOK(r)
    BY <1>5, <1>8 DEF ConvOK, ActiveOK, KeysOK, c
  <1>12. StatusesOK(r)
    BY <1>1, <1>5, <1>8 DEF ConvOK, StatusesOK, c, t
  <1>13. Answered(s.tasks) = Answered(c.tasks)
         /\ \A u \in Answered(c.tasks) : s.tasks[u].objective = c.tasks[u].objective
    BY <1>2, <1>5 DEF Answered
  <1>15. MatchOK(r.cog, r.turns)
    BY <1>5, <1>8, <1>13, MatchKept DEF ConvOK, c
  <1>16. ConvOK(r)
    BY <1>9, <1>11, <1>12, <1>15 DEF ConvOK
  <1> QED BY <1>5, <1>8, <1>16 DEF r, c

(* A task is completed, and a dialogue memory says so.                     *)
LEMMA AnswerFields ==
    ASSUME NEW K, NEW c, CogOK(c, K), NEW t \in 1..Len(c.tasks), NEW topic,
           c.tasks[t].steps_taken < c.tasks[t].max_steps
    PROVE  LET s == store(complete_external_task(c, t), "dialogue", topic)
               n == c.memory.next_id + 1
           IN  /\ CogOK(s, K) /\ Len(s.tasks) = Len(c.tasks)
               /\ s.tasks[t].status = "Completed" /\ s.tasks[t].objective = c.tasks[t].objective
               /\ \A u \in 1..Len(c.tasks) : u # t => s.tasks[u] = c.tasks[u]
               /\ s.world = c.world
               /\ Dialogues(s.memory) = Dialogues(c.memory) \cup {n}
               /\ n \notin Dialogues(c.memory)
               /\ Dialogues(c.memory) \subseteq 1..n
  <1> DEFINE d == [op |-> "Complete"]
             b == Settle(c, t, "Completed")
             e == Effect(c, t, d)
             f == commit_directive(c, t, d)
             s == store(f, "dialogue", topic)
             m == c.memory.next_id
  <1>1. d.op = "Complete" /\ d.op \in DirectiveOps
    BY DEF DirectiveOps
  <1>2. complete_external_task(c, t) = f
    BY DEF complete_external_task
  <1> HIDE DEF d
  <1>3. e = store(b, "completion", OwnWords)
    BY <1>1 DEF Effect
  <1>4. /\ Worked(K, c, f, t) /\ f.tasks[t].status = "Completed"
        /\ f.world = e.world /\ f.memory = e.memory
    BY <1>1, CommitFields
  <1>5. /\ CogOK(b, K) /\ b.world = c.world /\ b.memory = c.memory
    BY SettleFields DEF GoalStatus
  <1> HIDE DEF b, e, f
  <1>6. /\ e.world = b.world /\ e.memory.next_id = m + 1
        /\ DOMAIN e.memory.records = DOMAIN c.memory.records \cup {m}
        /\ \A i \in DOMAIN c.memory.records : e.memory.records[i] = c.memory.records[i]
        /\ e.memory.records[m].about = "completion"
    BY <1>3, <1>5, StoreFields
  <1>7. CogOK(f, K)
    BY <1>4 DEF Worked
  <1>8. /\ CogOK(s, K) /\ s.tasks = f.tasks /\ s.world = f.world
        /\ DOMAIN s.memory.records = DOMAIN f.memory.records \cup {f.memory.next_id}
        /\ \A i \in DOMAIN f.memory.records : s.memory.records[i] = f.memory.records[i]
        /\ s.memory.records[f.memory.next_id].about = "dialogue"
    BY <1>7, StoreFields
  <1> HIDE DEF s
  <1>9. m \in Nat /\ DOMAIN c.memory.records \subseteq 1 .. m - 1
    BY DEF CogOK, MemoryOK
  <1>10. m \notin DOMAIN c.memory.records /\ m + 1 \notin DOMAIN c.memory.records /\ m # m + 1
    BY <1>9
  <1>11. /\ DOMAIN s.memory.records = DOMAIN c.memory.records \cup {m, m + 1}
         /\ \A i \in DOMAIN c.memory.records : s.memory.records[i] = c.memory.records[i]
         /\ s.memory.records[m].about = "completion"
         /\ s.memory.records[m + 1].about = "dialogue"
    BY <1>4, <1>6, <1>8, <1>10
  <1>12. Dialogues(s.memory) = Dialogues(c.memory) \cup {m + 1}
    BY <1>10, <1>11 DEF Dialogues, Tagged
  <1>13. m + 1 \notin Dialogues(c.memory) /\ Dialogues(c.memory) \subseteq 1 .. m + 1
    BY <1>9, <1>10 DEF Dialogues
  <1>14. /\ Len(s.tasks) = Len(c.tasks) /\ s.tasks[t].status = "Completed"
         /\ s.tasks[t].objective = c.tasks[t].objective
         /\ \A u \in 1..Len(c.tasks) : u # t => s.tasks[u] = c.tasks[u]
    BY <1>4, <1>8 DEF Worked, SameTask
  <1> QED BY <1>2, <1>4, <1>5, <1>6, <1>8, <1>12, <1>13, <1>14 DEF s, m

(* The last task is answered: one more exchange, one more dialogue memory. *)
LEMMA MatchGrows ==
    ASSUME NEW c, NEW s, NEW turns \in Seq(Turn), NEW m \in Messages, NEW n,
           MatchOK(c, turns), Len(s.tasks) = Len(c.tasks), Len(c.tasks) \in Nat \ {0},
           s.tasks[Len(c.tasks)].status = "Completed", s.tasks[Len(c.tasks)].objective = m,
           c.tasks[Len(c.tasks)].status = "Running",
           \A u \in 1..Len(c.tasks) : u # Len(c.tasks) => s.tasks[u] = c.tasks[u],
           Dialogues(s.memory) = Dialogues(c.memory) \cup {n}, n \notin Dialogues(c.memory),
           n \in Nat, Dialogues(c.memory) \subseteq 1..n
    PROVE  MatchOK(s, turns \o Exchange(m))
  <1> DEFINE t == Len(c.tasks)
             old == Answered(c.tasks)
             new == Answered(s.tasks)
             k == Cardinality(old)
             more == turns \o Exchange(m)
  <1>1. old \subseteq 1..t /\ t \notin old /\ new = old \cup {t} /\ t \in Nat
    BY DEF Answered
  <1>2. IsFiniteSet(1..t)
    BY <1>1, FS_Interval
  <1>3. IsFiniteSet(old)
    BY <1>1, <1>2, FS_Subset
  <1>4. IsFiniteSet(new) /\ Cardinality(new) = k + 1 /\ k \in Nat
    BY <1>1, <1>3, FS_AddElement, FS_CardinalityType
  <1>5. IsFiniteSet(Dialogues(c.memory))
    <2>1. IsFiniteSet(1..n)
      BY FS_Interval
    <2> QED BY <2>1, FS_Subset
  <1>6. Cardinality(Dialogues(s.memory)) = k + 1
    BY <1>4, <1>5, FS_AddElement, ZenonT(60) DEF MatchOK
  <1>7. Len(turns) = 2 * k
    BY DEF MatchOK
  <1>8. /\ Exchange(m) \in Seq(Turn) /\ Len(Exchange(m)) = 2 /\ Exchange(m)[2].about = m
    BY DEF Exchange, Turn
  <1> HIDE DEF k, old, new, t
  <1>9. /\ Len(more) = 2 * (k + 1) /\ more[2 * (k + 1)] = Exchange(m)[2]
        /\ \A i \in 1 .. 2 * k : more[i] = turns[i]
    <2>1. Len(more) = 2 * k + 2
      <3> DEFINE x == Exchange(m)
      <3>1. x \in Seq(Turn) /\ Len(x) = 2
        BY <1>8
      <3> HIDE DEF x
      <3>2. Len(turns \o x) = Len(turns) + Len(x)
        BY <3>1, ConcatProperties
      <3> QED BY <1>7, <3>1, <3>2 DEF x
    <2>2. more[2 * k + 2] = Exchange(m)[(2 * k + 2) - 2 * k]
      BY <1>4, <1>7, <1>8, ConcatProperties
    <2>3. (2 * k + 2) - 2 * k = 2 /\ 2 * k + 2 = 2 * (k + 1)
      BY <1>4
    <2>4. \A i \in 1 .. 2 * k : more[i] = turns[i]
      BY <1>4, <1>7, <1>8, ConcatProperties
    <2> QED BY <2>1, <2>2, <2>3, <2>4
  <1>10. ASSUME NEW u \in old
         PROVE  more[2 * Place(s.tasks, u)].about = s.tasks[u].objective
    <2> DEFINE below == {w \in old : w <= u}
    <2>1. u \in 1..t /\ u # t /\ u < t
      BY <1>1
    <2>2. {w \in new : w <= u} = below
      BY <1>1, <2>1
    <2>3. Place(s.tasks, u) = Cardinality(below) /\ Place(c.tasks, u) = Cardinality(below)
      BY <2>2 DEF Place, old, new
    <2>4. IsFiniteSet(below) /\ Cardinality(below) <= k /\ Cardinality(below) \in Nat
      <3>1. below \subseteq old
        OBVIOUS
      <3> HIDE DEF below
      <3> QED BY <1>3, <3>1, FS_Subset, FS_CardinalityType DEF k
    <2>5. Cardinality(below) # 0
      <3>1. u \in below
        BY <1>1
      <3> HIDE DEF below
      <3> QED BY <2>4, <3>1, FS_EmptySet
    <2> HIDE DEF below
    <2>6. 2 * Cardinality(below) \in 1 .. 2 * k
      BY <1>4, <2>4, <2>5
    <2>7. more[2 * Place(s.tasks, u)] = turns[2 * Place(c.tasks, u)]
      BY <1>9, <2>3, <2>6
    <2>8. turns[2 * Place(c.tasks, u)].about = c.tasks[u].objective
      BY DEF MatchOK, old
    <2>9. s.tasks[u] = c.tasks[u]
      BY <2>1 DEF t
    <2> QED BY <2>7, <2>8, <2>9
  <1>11. more[2 * Place(s.tasks, t)].about = s.tasks[t].objective
    <2>1. {w \in new : w <= t} = new
      <3>1. \A w \in new : w <= t
        BY <1>1
      <3> QED BY <3>1
    <2>2. Place(s.tasks, t) = k + 1
      BY <1>4, <2>1 DEF Place, new
    <2> QED BY <1>8, <1>9, <2>2 DEF t
  <1>12. \A u \in new : more[2 * Place(s.tasks, u)].about = s.tasks[u].objective
    BY <1>1, <1>10, <1>11
  <1> QED BY <1>4, <1>6, <1>9, <1>12 DEF MatchOK, new

(* A turn is answered.                                                     *)
LEMMA CompleteFields ==
    ASSUME NEW v, ConvOK(v), NEW a \in v.active, CanComplete(v, a)
    PROVE  LET r == complete_turn(v, a) IN
           ConvOK(r) /\ r.turns = v.turns \o Exchange(a.message) /\ r.active = {}
  <1> DEFINE r == complete_turn(v, a)
             t == a.task
             c == v.cog
             m == a.message
             s == store(complete_external_task(c, t), "dialogue", m)
             more == v.turns \o Exchange(m)
             n == c.memory.next_id + 1
  <1>1. /\ CogOK(c, ChatTasks) /\ WorksOn(c, a) /\ \A b \in v.active : b = a
        /\ v.turns \in Seq(Turn) /\ MatchOK(c, v.turns) /\ a \in ActiveTurn
    BY DEF ConvOK, ShapeOK, ActiveOK
  <1>2. /\ t \in 1..Len(c.tasks) /\ t = Len(c.tasks) /\ c.tasks[t].status = "Running"
        /\ c.tasks[t].objective = m /\ c.tasks[t].steps_taken < c.tasks[t].max_steps
        /\ m \in Messages /\ Len(c.tasks) \in Nat \ {0}
    BY <1>1, LenProperties DEF WorksOn, ActiveTurn, CogOK
  <1>3. r = [cog |-> s, turns |-> more, active |-> {}]
    BY DEF complete_turn
  <1>4. validate_turns(more)
    BY DEF CanComplete
  <1>5. more \in Seq(Turn)
    BY <1>1, <1>2, ConcatProperties DEF Exchange, Turn
  <1>6. n \in Nat
    BY <1>1 DEF CogOK, MemoryOK
  <1>0. CogOK(c, ChatTasks) /\ t \in 1..Len(c.tasks) /\ c.tasks[t].steps_taken < c.tasks[t].max_steps
    BY <1>1, <1>2
  <1> HIDE DEF t, c, m
  <1>7. /\ CogOK(s, ChatTasks) /\ Len(s.tasks) = Len(c.tasks)
        /\ s.tasks[t].status = "Completed" /\ s.tasks[t].objective = c.tasks[t].objective
        /\ \A u \in 1..Len(c.tasks) : u # t => s.tasks[u] = c.tasks[u]
        /\ s.world = c.world
        /\ Dialogues(s.memory) = Dialogues(c.memory) \cup {n}
        /\ n \notin Dialogues(c.memory)
        /\ Dialogues(c.memory) \subseteq 1..n
    BY <1>0, AnswerFields
  <1> HIDE DEF r, s, n
  <1>8. MatchOK(s, more)
    BY <1>1, <1>2, <1>6, <1>7, MatchGrows
  <1> HIDE DEF more
  <1>9. r.cog = s /\ r.turns = more /\ r.active = {}
    BY <1>3
  <1>10. ShapeOK(r)
    BY <1>3, <1>4, <1>5, <1>7, <1>9 DEF ShapeOK
  <1>11. ActiveOK(r) /\ KeysOK(r)
    BY <1>7, <1>9 DEF ConvOK, ActiveOK, KeysOK, c
  <1>12. StatusesOK(r)
    BY <1>1, <1>7, <1>9 DEF ConvOK, StatusesOK, c, t
  <1>13. ConvOK(r)
    BY <1>8, <1>9, <1>10, <1>11, <1>12 DEF ConvOK
  <1> QED BY <1>9, <1>13 DEF r, more, m

(* Memories are recalled, a task is added and started.                     *)
LEMMA OpenFields ==
    ASSUME NEW c, CogOK(c, ChatTasks),
           NEW m, m \in Messages, NEW limit
    PROVE  LET b == submit_task(retrieve(c, m, limit), {}, m, MaxSteps)
               n == Len(c.tasks) + 1
               s == start_external_task(b, n)
           IN  /\ Len(b.tasks) = n /\ n \in Nat \ {0}
               /\ CogOK(s, ChatTasks) /\ Len(s.tasks) = n
               /\ \A u \in 1..Len(c.tasks) : s.tasks[u] = c.tasks[u]
               /\ s.tasks[n].objective = m /\ s.tasks[n].max_steps = MaxSteps
               /\ s.tasks[n].status = "Running" /\ s.tasks[n].steps_taken = 0
               /\ s.world = c.world /\ Dialogues(s.memory) = Dialogues(c.memory)
  <1> DEFINE e == retrieve(c, m, limit)
             b == submit_task(e, {}, m, MaxSteps)
             n == Len(c.tasks) + 1
             s == start_external_task(b, n)
  <1>1. /\ CogOK(e, ChatTasks) /\ e.tasks = c.tasks /\ e.world = c.world /\ e.goals = c.goals
        /\ DOMAIN e.memory.records = DOMAIN c.memory.records
        /\ \A i \in DOMAIN c.memory.records :
              e.memory.records[i].about = c.memory.records[i].about
    BY RetrieveFields
  <1> HIDE DEF e
  <1>2. Dialogues(e.memory) = Dialogues(c.memory)
    BY <1>1 DEF Dialogues, Tagged
  <1>3. {} \in {{}} \cup {{g} : g \in DOMAIN e.goals} /\ MaxSteps \in Nat \ {0}
    BY DEF MaxSteps
  <1>4. /\ CogOK(b, ChatTasks) /\ Len(b.tasks) = n /\ n \in Nat \ {0}
        /\ \A u \in 1..Len(c.tasks) : b.tasks[u] = c.tasks[u]
        /\ b.tasks[n].objective = m /\ b.tasks[n].max_steps = MaxSteps
        /\ b.tasks[n].status = "Planned" /\ b.tasks[n].steps_taken = 0
        /\ b.world = c.world /\ b.memory = e.memory
    <2>1. /\ CogOK(b, ChatTasks) /\ Len(b.tasks) = Len(e.tasks) + 1 /\ Len(e.tasks) + 1 \in Nat \ {0}
          /\ \A u \in 1..Len(e.tasks) : b.tasks[u] = e.tasks[u]
          /\ b.tasks[Len(e.tasks) + 1].goal_id = {}
          /\ b.tasks[Len(e.tasks) + 1].objective = m
          /\ b.tasks[Len(e.tasks) + 1].max_steps = MaxSteps
          /\ b.tasks[Len(e.tasks) + 1].status = "Planned"
          /\ b.tasks[Len(e.tasks) + 1].steps_taken = 0
          /\ b.goals = e.goals /\ b.world = e.world /\ b.memory = e.memory
          /\ b.deltas = e.deltas
      <3>1. m \in ChatTasks.objectives
        BY KindsOfTasks
      <3> QED BY <1>1, <1>3, <3>1, SubmitFields
    <2> HIDE DEF b
    <2> QED BY <1>1, <2>1
  <1> HIDE DEF b, n
  <1> DEFINE q == [b EXCEPT !.tasks[n].status = "Running"]
  <1>5. s = q
    BY <1>4 DEF start_external_task, Terminal, TerminalTask
  <1> HIDE DEF s
  <1>6. /\ n \in 1..Len(b.tasks) /\ "Running" \in TaskStatus
        /\ b.tasks[n].status \notin ChatTasks.overrun
    BY <1>4, KindsOfTasks DEF TaskStatus
  <1>7. /\ CogOK(s, ChatTasks) /\ Len(s.tasks) = Len(b.tasks)
        /\ s.tasks[n].status = "Running" /\ s.tasks[n].steps_taken = b.tasks[n].steps_taken
        /\ SameTask(b.tasks[n], s.tasks[n])
        /\ \A u \in 1..Len(b.tasks) : u # n => s.tasks[u] = b.tasks[u]
        /\ s.goals = b.goals /\ s.world = b.world /\ s.memory = b.memory /\ s.deltas = b.deltas
    <2>1. CogOK(b, ChatTasks)
      BY <1>4
    <2>2. /\ CogOK(q, ChatTasks) /\ Len(q.tasks) = Len(b.tasks)
          /\ q.tasks[n].status = "Running" /\ q.tasks[n].steps_taken = b.tasks[n].steps_taken
          /\ SameTask(b.tasks[n], q.tasks[n])
          /\ \A u \in 1..Len(b.tasks) : u # n => q.tasks[u] = b.tasks[u]
          /\ q.goals = b.goals /\ q.world = b.world /\ q.memory = b.memory /\ q.deltas = b.deltas
      BY <1>6, <2>1, StatusFields
    <2> HIDE DEF q
    <2> QED BY <1>5, <2>2
  <1>8. \A u \in 1..Len(c.tasks) : u # n /\ u \in 1..Len(b.tasks)
    <2>1. Len(c.tasks) \in Nat
      BY LenProperties DEF CogOK
    <2> QED BY <1>4, <2>1 DEF n
  <1> QED BY <1>2, <1>4, <1>7, <1>8 DEF SameTask, s, b, e, n

(* A turn is begun: that of a new task, about which nothing is known yet.  *)
LEMMA BeginFields ==
    ASSUME NEW v, ConvOK(v), v.active = {}, NEW m \in Messages, NEW limit
    PROVE  LET r == begin_turn(recall_conversation_context(v, m, limit), m)
               n == Len(r.cog.tasks)
           IN  /\ ConvOK(r) /\ r.turns = v.turns /\ n \in 1..Len(r.cog.tasks)
               /\ r.active = {[task |-> n, message |-> m, tokens |-> 0, text |-> FALSE,
                               synthesis |-> FALSE, fabric |-> {}]}
               /\ r.cog.tasks[n].steps_taken = 0 /\ r.cog.tasks[n].max_steps = MaxSteps
               /\ \A name : <<n, name>> \notin DOMAIN r.cog.world
  <1> DEFINE w == recall_conversation_context(v, m, limit)
             e == retrieve(v.cog, m, limit)
             b == submit_task(e, {}, m, MaxSteps)
             k == Len(v.cog.tasks) + 1
             s == start_external_task(b, k)
             a == [task |-> k, message |-> m, tokens |-> 0, text |-> FALSE,
                   synthesis |-> FALSE, fabric |-> {}]
             r == begin_turn(w, m)
  <1>1. /\ v = [cog |-> v.cog, turns |-> v.turns, active |-> v.active]
        /\ CogOK(v.cog, ChatTasks) /\ v.turns \in Seq(Turn) /\ validate_turns(v.turns)
    BY DEF ConvOK, ShapeOK
  <1>2. /\ Len(b.tasks) = k /\ k \in Nat \ {0}
        /\ CogOK(s, ChatTasks) /\ Len(s.tasks) = k
        /\ \A u \in 1..Len(v.cog.tasks) : s.tasks[u] = v.cog.tasks[u]
        /\ s.tasks[k].objective = m /\ s.tasks[k].max_steps = MaxSteps
        /\ s.tasks[k].status = "Running" /\ s.tasks[k].steps_taken = 0
        /\ s.world = v.cog.world /\ Dialogues(s.memory) = Dialogues(v.cog.memory)
    <2> DEFINE c == v.cog
    <2>1. CogOK(c, ChatTasks)
      BY <1>1
    <2> HIDE DEF c
    <2>2. LET b1 == submit_task(retrieve(c, m, limit), {}, m, MaxSteps)
              n1 == Len(c.tasks) + 1
              s1 == start_external_task(b1, n1)
          IN  /\ Len(b1.tasks) = n1 /\ n1 \in Nat \ {0}
              /\ CogOK(s1, ChatTasks) /\ Len(s1.tasks) = n1
              /\ \A u \in 1..Len(c.tasks) : s1.tasks[u] = c.tasks[u]
              /\ s1.tasks[n1].objective = m /\ s1.tasks[n1].max_steps = MaxSteps
              /\ s1.tasks[n1].status = "Running" /\ s1.tasks[n1].steps_taken = 0
              /\ s1.world = c.world /\ Dialogues(s1.memory) = Dialogues(c.memory)
      BY <2>1, OpenFields
    <2> QED BY <2>2 DEF c
  <1>3. w = [cog |-> e, turns |-> v.turns, active |-> v.active]
    <2>1. w = [v EXCEPT !.cog = e]
      BY DEF recall_conversation_context
    <2> HIDE DEF e, w
    <2> QED BY <1>1, <2>1
  <1>4. r = [cog |-> s, turns |-> v.turns, active |-> {a}]
    <2>1. r = [w EXCEPT !.cog = start_external_task(submit_task(w.cog, {}, m, MaxSteps),
                                            Len(submit_task(w.cog, {}, m, MaxSteps).tasks)),
                        !.active = {[task |-> Len(submit_task(w.cog, {}, m, MaxSteps).tasks),
                                     message |-> m, tokens |-> 0, text |-> FALSE,
                                     synthesis |-> FALSE, fabric |-> {}]}]
      BY DEF begin_turn
    <2> HIDE DEF w, e
    <2>2. w.cog = e
      BY <1>3
    <2>3. r = [w EXCEPT !.cog = s, !.active = {a}]
      BY <1>2, <2>1, <2>2
    <2> HIDE DEF s, a, r
    <2> QED BY <1>3, <2>3
  <1>5. a \in ActiveTurn /\ a.task = k /\ a.message = m /\ a.tokens = 0
    BY <1>2 DEF ActiveTurn
  <1> HIDE DEF r, s, b, e, w, a
  <1>6. r.cog = s /\ r.turns = v.turns /\ r.active = {a}
    BY <1>4
  <1>7. ShapeOK(r)
    BY <1>1, <1>2, <1>4, <1>5, <1>6 DEF ShapeOK
  <1>8. ActiveOK(r)
    <2>1. 0 <= MaxNewTokens /\ 0 < MaxSteps
      BY ConversationAssumption DEF MaxSteps
    <2> QED BY <1>2, <1>5, <1>6, <2>1 DEF ActiveOK, WorksOn
  <1>9. Len(v.cog.tasks) \in Nat /\ Len(v.cog.tasks) = k - 1
    BY <1>1, LenProperties DEF CogOK
  <1>10. \A u \in 1..k : u = k \/ u \in 1..Len(v.cog.tasks)
    BY <1>2, <1>9
  <1>11. StatusesOK(r)
    BY <1>2, <1>5, <1>6, <1>10 DEF ConvOK, StatusesOK
  <1>12. KeysOK(r) /\ \A name : <<k, name>> \notin DOMAIN s.world
    BY <1>2, <1>6, <1>9 DEF ConvOK, KeysOK
  <1>13. Answered(s.tasks) = Answered(v.cog.tasks)
         /\ \A u \in Answered(v.cog.tasks) : s.tasks[u].objective = v.cog.tasks[u].objective
    BY <1>2, <1>9, <1>10, SMTT(40) DEF Answered
  <1>14. MatchOK(r.cog, r.turns)
    BY <1>2, <1>6, <1>13, MatchKept DEF ConvOK
  <1>15. ConvOK(r)
    BY <1>7, <1>8, <1>11, <1>12, <1>14 DEF ConvOK
  <1> QED BY <1>2, <1>6, <1>12, <1>15 DEF r, a, w

(* A Work directive is committed in the copy: one more step of its task.   *)
LEMMA WorkFields ==
    ASSUME NEW v, ConvOK(v), NEW t \in 1..Len(v.cog.tasks), \A a \in v.active : a.task = t,
           v.cog.tasks[t].steps_taken + 1 < v.cog.tasks[t].max_steps
    PROVE  LET c == commit_directive(v.cog, t, [op |-> "Work"])
               r == [v EXCEPT !.cog = c]
           IN  /\ ConvOK(r) /\ r.turns = v.turns /\ r.active = v.active /\ r.cog = c
               /\ Len(r.cog.tasks) = Len(v.cog.tasks) /\ r.cog.world = v.cog.world
               /\ r.cog.tasks[t].steps_taken = v.cog.tasks[t].steps_taken + 1
               /\ r.cog.tasks[t].max_steps = v.cog.tasks[t].max_steps
  <1> DEFINE d == [op |-> "Work"]
             b == v.cog
             c == commit_directive(b, t, d)
             e == Effect(b, t, d)
             r == [v EXCEPT !.cog = c]
  <1>1. d.op = "Work" /\ d.op \in DirectiveOps
    BY DEF DirectiveOps
  <1> HIDE DEF d
  <1>2. CogOK(b, ChatTasks)
    BY DEF ConvOK, ShapeOK
  <1>3. b.tasks[t].steps_taken < b.tasks[t].max_steps /\ b.tasks[t].steps_taken \in Nat
        /\ b.tasks[t].max_steps \in Nat /\ t \in 1..Len(b.tasks)
    BY <1>2, TaskFields
  <1>4. e = b
    BY <1>1 DEF Effect
  <1> HIDE DEF b
  <1>5. /\ Worked(ChatTasks, b, c, t)
        /\ c.tasks[t].steps_taken = b.tasks[t].steps_taken + 1
        /\ c.tasks[t].status = IF d.op = "Complete" THEN "Completed" ELSE b.tasks[t].status
        /\ c.goals = e.goals /\ c.world = e.world /\ c.memory = e.memory
    BY <1>1, <1>2, <1>3, CommitFields
  <1> HIDE DEF c, e
  <1>6. /\ CogOK(c, ChatTasks) /\ Len(c.tasks) = Len(b.tasks) /\ SameTask(b.tasks[t], c.tasks[t])
        /\ \A u \in 1..Len(b.tasks) : u # t => c.tasks[u] = b.tasks[u]
    BY <1>5 DEF Worked
  <1>7. /\ c.world = v.cog.world /\ Dialogues(c.memory) = Dialogues(v.cog.memory)
        /\ Len(c.tasks) = Len(v.cog.tasks)
    BY <1>4, <1>5, <1>6 DEF b
  <1>8. \A u \in 1..Len(c.tasks) :
           /\ c.tasks[u].objective = v.cog.tasks[u].objective
           /\ c.tasks[u].status = v.cog.tasks[u].status
    BY <1>1, <1>5, <1>6 DEF b, SameTask
  <1>9. c.tasks[t].steps_taken = v.cog.tasks[t].steps_taken + 1
        /\ c.tasks[t].max_steps = v.cog.tasks[t].max_steps
    BY <1>5, <1>6 DEF b, SameTask
  <1>10. \A a \in v.active : c.tasks[a.task].steps_taken < c.tasks[a.task].max_steps
    BY <1>9
  <1>11. ConvOK(r) /\ r.turns = v.turns /\ r.active = v.active /\ r.cog = c
    BY <1>6, <1>7, <1>8, <1>10, CogChanges
  <1> HIDE DEF r
  <1> QED BY <1>7, <1>9, <1>11 DEF r, c, d, b

(* A checkpoint of a plan's run is put into the active turn.               *)
LEMMA InstallFields ==
    ASSUME NEW v, ConvOK(v), NEW a \in v.active, NEW k \in Nat
    PROVE  LET r == install_action_fabric_checkpoint(v, a, k) IN
           /\ ConvOK(r) /\ r.turns = v.turns /\ r.cog = v.cog
           /\ \E b \in ActiveTurn :
                 /\ r.active = {b} /\ b.task = a.task /\ b.message = a.message
                 /\ b.tokens = a.tokens /\ b.fabric = {k}
           /\ \A u, name, d : fact(r, u, name, d) = fact(v, u, name, d)
  <1> DEFINE b == [a EXCEPT !.fabric = {k}]
             r == [v EXCEPT !.active = {b}]
  <1>1. a \in ActiveTurn /\ a.tokens <= MaxNewTokens
    BY DEF ConvOK, ShapeOK, ActiveOK
  <1>2. /\ b \in ActiveTurn /\ b.task = a.task /\ b.message = a.message
        /\ b.tokens = a.tokens /\ b.fabric = {k}
    BY <1>1 DEF ActiveTurn
  <1>3. install_action_fabric_checkpoint(v, a, k) = r
    BY DEF install_action_fabric_checkpoint
  <1> HIDE DEF b
  <1>4. /\ ConvOK(r) /\ r.turns = v.turns /\ r.active = {b} /\ r.cog = v.cog
        /\ \A u, other, d : fact(r, u, other, d) = fact(v, u, other, d)
    BY <1>1, <1>2, ActiveChanges
  <1> HIDE DEF r
  <1> QED BY <1>2, <1>3, <1>4

(* The facts about a plan that its completion leaves alone.                *)
PlanFacts == {"action_count", "action_protocol", "approval"}

(* A plan of n actions is verified.                                        *)
Verified(v, a, n, r) ==
    /\ ConvOK(r) /\ r.turns = v.turns /\ r.cog.tasks = v.cog.tasks
    /\ \E b \in ActiveTurn :
          /\ r.active = {b} /\ b.task = a.task /\ b.message = a.message
          /\ b.tokens = a.tokens /\ b.fabric = {} /\ b.synthesis = TRUE
    /\ fact(r, a.task, "verified_action_count", 0) = n
    /\ \A u, d : \A name \in PlanFacts : fact(r, u, name, d) = fact(v, u, name, d)

LEMMA CompletedFields ==
    ASSUME NEW v, ConvOK(v), NEW a \in v.active, NEW n
    PROVE  Verified(v, a, n, Completed(v, a, n))
  <1> DEFINE b == [a EXCEPT !.fabric = {}, !.synthesis = TRUE]
             g == [v EXCEPT !.active = {b}]
             t == a.task
             r1 == record(g, t, "verified_synthesis", "ready")
             r2 == record(r1, t, "action_planner_status", "actions")
             r == record(r2, t, "verified_action_count", n)
  <1>1. a \in ActiveTurn /\ a.tokens <= MaxNewTokens /\ t \in 1..Len(v.cog.tasks)
    BY DEF ConvOK, ShapeOK, ActiveOK, WorksOn
  <1>2. /\ b \in ActiveTurn /\ b.task = a.task /\ b.message = a.message
        /\ b.tokens = a.tokens /\ b.fabric = {} /\ b.synthesis = TRUE
    BY <1>1 DEF ActiveTurn
  <1>3. Completed(v, a, n) = r
    BY DEF Completed, record_action_planner
  <1> HIDE DEF b
  <1>4. /\ ConvOK(g) /\ g.turns = v.turns /\ g.active = {b} /\ g.cog = v.cog
        /\ \A u, other, d : fact(g, u, other, d) = fact(v, u, other, d)
    BY <1>1, <1>2, ActiveChanges
  <1> HIDE DEF g, t
  <1>5. t \in 1..Len(g.cog.tasks)
    BY <1>1, <1>4
  <1>6. /\ ConvOK(r1) /\ r1.turns = g.turns /\ r1.active = g.active /\ r1.cog.tasks = g.cog.tasks
        /\ \A u, other, d : other # "verified_synthesis" => fact(r1, u, other, d) = fact(g, u, other, d)
    BY <1>4, <1>5, RecordFields
  <1> HIDE DEF r1
  <1>7. t \in 1..Len(r1.cog.tasks)
    BY <1>5, <1>6
  <1>8. /\ ConvOK(r2) /\ r2.turns = r1.turns /\ r2.active = r1.active /\ r2.cog.tasks = r1.cog.tasks
        /\ \A u, other, d : other # "action_planner_status" => fact(r2, u, other, d) = fact(r1, u, other, d)
    BY <1>6, <1>7, RecordFields
  <1> HIDE DEF r2
  <1>9. t \in 1..Len(r2.cog.tasks)
    BY <1>7, <1>8
  <1>10. /\ ConvOK(r) /\ r.turns = r2.turns /\ r.active = r2.active /\ r.cog.tasks = r2.cog.tasks
         /\ \A d : fact(r, t, "verified_action_count", d) = n
         /\ \A u, other, d : other # "verified_action_count" => fact(r, u, other, d) = fact(r2, u, other, d)
    BY <1>8, <1>9, RecordFields
  <1> HIDE DEF r
  <1>11. \A u, d : \A name \in PlanFacts : fact(r, u, name, d) = fact(v, u, name, d)
    BY <1>4, <1>6, <1>8, <1>10 DEF PlanFacts
  <1>12. /\ ConvOK(r) /\ r.turns = v.turns /\ r.cog.tasks = v.cog.tasks /\ r.active = {b}
         /\ fact(r, t, "verified_action_count", 0) = n
    BY <1>4, <1>6, <1>8, <1>10
  <1> QED BY <1>2, <1>3, <1>11, <1>12 DEF t, Verified

(* The planner's report is recorded.                                       *)
LEMMA PlannerFields ==
    ASSUME NEW v, ConvOK(v), NEW t \in 1..Len(v.cog.tasks), NEW status, NEW n
    PROVE  LET r == record_action_planner(v, t, status, n) IN
           /\ ConvOK(r) /\ r.turns = v.turns /\ r.cog.tasks = v.cog.tasks /\ r.active = v.active
           /\ \A u, d : \A name \in PlanFacts : fact(r, u, name, d) = fact(v, u, name, d)
  <1> DEFINE r1 == record(v, t, "action_planner_status", status)
             r == record(r1, t, "verified_action_count", n)
  <1>1. record_action_planner(v, t, status, n) = r
    BY DEF record_action_planner
  <1>2. /\ ConvOK(r1) /\ r1.turns = v.turns /\ r1.active = v.active /\ r1.cog.tasks = v.cog.tasks
        /\ \A u, other, d : other # "action_planner_status" => fact(r1, u, other, d) = fact(v, u, other, d)
    BY RecordFields
  <1> HIDE DEF r1
  <1>3. t \in 1..Len(r1.cog.tasks)
    BY <1>2
  <1>4. /\ ConvOK(r) /\ r.turns = r1.turns /\ r.active = r1.active /\ r.cog.tasks = r1.cog.tasks
        /\ \A u, other, d : other # "verified_action_count" => fact(r, u, other, d) = fact(r1, u, other, d)
    BY <1>2, <1>3, RecordFields
  <1> HIDE DEF r
  <1>5. \A u, d : \A name \in PlanFacts : fact(r, u, name, d) = fact(v, u, name, d)
    BY <1>2, <1>4 DEF PlanFacts
  <1> QED BY <1>1, <1>2, <1>4, <1>5

(* A plan of n actions is installed.                                       *)
LEMMA PlanFields ==
    ASSUME NEW v, ConvOK(v), NEW t \in 1..Len(v.cog.tasks), NEW n
    PROVE  LET r == install_action_plan(v, t, n) IN
           /\ ConvOK(r) /\ r.turns = v.turns /\ r.cog.tasks = v.cog.tasks /\ r.active = v.active
           /\ fact(r, t, "action_count", 0) = n /\ fact(r, t, "action_protocol", 0) = n
           /\ fact(r, t, "approval", "none") = fact(v, t, "approval", "none")
  <1> DEFINE r1 == record(v, t, "action_count", n)
             r == record(r1, t, "action_protocol", n)
  <1>1. install_action_plan(v, t, n) = r
    BY DEF install_action_plan
  <1>2. /\ ConvOK(r1) /\ r1.turns = v.turns /\ r1.active = v.active /\ r1.cog.tasks = v.cog.tasks
        /\ \A d : fact(r1, t, "action_count", d) = n
        /\ \A u, other, d : other # "action_count" => fact(r1, u, other, d) = fact(v, u, other, d)
    BY RecordFields
  <1> HIDE DEF r1
  <1>3. t \in 1..Len(r1.cog.tasks)
    BY <1>2
  <1>4. /\ ConvOK(r) /\ r.turns = r1.turns /\ r.active = r1.active /\ r.cog.tasks = r1.cog.tasks
        /\ \A d : fact(r, t, "action_protocol", d) = n
        /\ \A u, other, d : other # "action_protocol" => fact(r, u, other, d) = fact(r1, u, other, d)
    BY <1>2, <1>3, RecordFields
  <1> HIDE DEF r
  <1> QED BY <1>1, <1>2, <1>4

(* The NCS97 checkpoint gives back the conversation it was made of.        *)
LEMMA ConversationRoundTrip ==
    ASSUME NEW v, ConvOK(v)
    PROVE  /\ Restorable(v)
           /\ decode_conversation_checkpoint(encode_conversation_checkpoint(v)) = v
  <1> DEFINE b == encode_conversation_checkpoint(v)
             turns2 == [n \in DOMAIN b.turns |->
                          [role |-> CHOOSE x \in DOMAIN RoleCode : RoleCode[x] = b.turns[n][1],
                           about |-> b.turns[n][2]]]
  <1>1. /\ v = [cog |-> v.cog, turns |-> v.turns, active |-> v.active]
        /\ CogOK(v.cog, ChatTasks) /\ v.turns \in Seq(Turn)
    BY DEF ConvOK, ShapeOK
  <1>2. /\ decode_cognitive_checkpoint(encode_cognitive_checkpoint(v.cog)) = v.cog
        /\ Decodable(encode_cognitive_checkpoint(v.cog))
    BY <1>1, ChatWithinBudget
  <1>3. validate_turns(v.turns) /\ validate_active(v)
    BY LenProperties DEF ConvOK, ShapeOK, ActiveOK, WorksOn, validate_active, Terminal, TerminalTask,
          CogOK
  <1>4. /\ b.cognitive = encode_cognitive_checkpoint(v.cog) /\ b.active = v.active
        /\ b.turns = [n \in DOMAIN v.turns |-> <<RoleCode[v.turns[n].role], v.turns[n].about>>]
    BY DEF encode_conversation_checkpoint
  <1> HIDE DEF b
  <1>5. decode_conversation_checkpoint(b) =
           [cog |-> v.cog, turns |-> turns2, active |-> v.active]
    BY <1>2, <1>4 DEF decode_conversation_checkpoint
  <1>6. DOMAIN turns2 = DOMAIN v.turns /\ DOMAIN b.turns = DOMAIN v.turns
    BY <1>4
  <1>7. ASSUME NEW n \in DOMAIN v.turns PROVE turns2[n] = v.turns[n]
    <2>1. v.turns[n] \in Turn
      BY <1>1
    <2>2. /\ v.turns[n].role \in {"User", "Assistant"}
          /\ v.turns[n] = [role |-> v.turns[n].role, about |-> v.turns[n].about]
      BY <2>1 DEF Turn
    <2>3. b.turns[n][1] = RoleCode[v.turns[n].role] /\ b.turns[n][2] = v.turns[n].about
      BY <1>4
    <2>4. \A x \in DOMAIN RoleCode : RoleCode[x] = RoleCode[v.turns[n].role] => x = v.turns[n].role
      BY <2>2 DEF RoleCode
    <2>5. v.turns[n].role \in DOMAIN RoleCode
      BY <2>2 DEF RoleCode
    <2>6. (CHOOSE x \in DOMAIN RoleCode : RoleCode[x] = b.turns[n][1]) = v.turns[n].role
      BY <2>3, <2>4, <2>5
    <2> QED BY <1>6, <2>2, <2>3, <2>6
  <1> HIDE DEF turns2
  <1>8. turns2 = v.turns
    <2>1. v.turns = [n \in DOMAIN v.turns |-> v.turns[n]]
      BY <1>1
    <2>2. turns2 = [n \in DOMAIN turns2 |-> turns2[n]]
      BY DEF turns2
    <2> QED BY <1>6, <1>7, <2>1, <2>2
  <1>9. decode_conversation_checkpoint(b) = v
    BY <1>1, <1>5, <1>8
  <1> QED BY <1>2, <1>3, <1>9 DEF Restorable, b

-----------------------------------------------------------------------------
(* The invariant of the conversation.                                      *)

(* A turn with a plan has answered nothing before the plan was verified.   *)
GroundedBy(v, a) ==
    LET n == fact(v, a.task, "action_count", 0) IN
    /\ n \in Nat /\ fact(v, a.task, "action_protocol", 0) = n
    /\ n > 0 =>
         \/ /\ a.synthesis /\ a.fabric = {}
            /\ fact(v, a.task, "verified_action_count", 0) = n
            /\ fact(v, a.task, "approval", "none") \in {"none", "approved"}
         \/ /\ a.tokens = 0
            /\ a.fabric = {} => fact(v, a.task, "approval", "none") \in {"pending", "reconfirm"}

(* The copy of a submit that started from v: its turn is new, without a    *)
(* plan, and the cycle has taken as many steps of the task as it counts.   *)
DraftOK(d, v) ==
    /\ d = [state |-> d.state, task |-> d.task, done |-> d.done, left |-> d.left]
    /\ ConvOK(d.state) /\ d.state.turns = v.turns
    /\ d.done \in Nat /\ d.left \in Nat /\ d.done + d.left <= 4
    /\ d.task \in 1..Len(d.state.cog.tasks)
    /\ d.state.cog.tasks[d.task].steps_taken = d.done
    /\ d.state.cog.tasks[d.task].max_steps = MaxSteps
    /\ d.state.active # {}
    /\ \A a \in d.state.active : a.task = d.task /\ a.tokens = 0 /\ a.fabric = {}
    /\ fact(d.state, d.task, "action_count", 0) = 0
    /\ fact(d.state, d.task, "action_protocol", 0) = 0
    /\ fact(d.state, d.task, "approval", "none") = "none"

(* What is served: nothing while a copy is worked on, and no turn runs     *)
(* whose approval is waited for.                                           *)
ServedOK ==
    /\ session \in SessionStatus
    /\ session = "Running" =>
          \A a \in conv.active :
             fact(conv, a.task, "approval", "none") \notin {"pending", "reconfirm"}
    /\ draft # {} => session \in {"None", "Failed"} /\ conv.active = {}

ConvInv ==
    /\ ConvOK(conv)
    /\ \A a \in conv.active : GroundedBy(conv, a)
    /\ ServedOK
    /\ \A d \in draft : DraftOK(d, conv)

(* The dialogue of a conversation, and the steps it may take.              *)
Hist(v) == [n \in 1 .. Len(v.turns) \div 2 |-> v.turns[2 * n].about]
Open(v) == {a.message : a \in v.active}

Moves(v, w) ==
    \/ Hist(w) = Hist(v) /\ Open(w) = Open(v)
    \/ Hist(w) = Hist(v) /\ Open(v) = {} /\ Open(w) \in {{q} : q \in Messages}
    \/ Open(w) = {} /\ \E q \in Open(v) : Hist(w) = Append(Hist(v), q)
    \/ Hist(w) = Hist(v) /\ Open(v) # {} /\ Open(w) = {}

(* A step that ends outside a submit.                                      *)
LEMMA Settled ==
    ASSUME draft' = {}, ConvOK(conv'), \A a \in conv'.active : GroundedBy(conv', a),
           session' \in SessionStatus,
           session' = "Running" =>
              \A a \in conv'.active :
                 fact(conv', a.task, "approval", "none") \notin {"pending", "reconfirm"}
    PROVE  ConvInv'
  BY DEF ConvInv, ServedOK

LEMMA SubmitStep ==
    ASSUME ConvInv, submit_chat
    PROVE  ConvInv' /\ Moves(conv, conv')
  <1> DEFINE base == recover_orphaned_chat_turn(conv)
             S(m, budget) == begin_turn(recall_conversation_context(base, m,
                                memory_recall_limit_for_budget[budget]), m)
             T(m, budget) == Len(S(m, budget).cog.tasks)
             H(m, budget) ==
                Cardinality(Hits(base.cog, m, memory_recall_limit_for_budget[budget]))
             Draft(m, budget, kept) ==
                {[state |-> record_reasoning_profile(S(m, budget), T(m, budget), budget, kept),
                  task |-> T(m, budget), done |-> 0, left |-> iterations_for_budget[budget]]}
  <1>0. PICK m \in Messages, budget \in Budgets(base) :
           /\ conv' = base
           /\ session' = IF conv.active = {} THEN session ELSE "None"
           /\ \E kept \in 0..H(m, budget) : draft' = Draft(m, budget, kept)
    BY DEF submit_chat
  <1>1. PICK kept \in 0..H(m, budget) :
           /\ conv' = base
           /\ session' = IF conv.active = {} THEN session ELSE "None"
           /\ draft' = Draft(m, budget, kept)
    BY <1>0
  <1>2. session \in {"None", "Failed"} /\ draft = {}
    BY DEF submit_chat
  <1>3. ConvOK(conv) /\ \A a, b \in conv.active : a = b
    BY DEF ConvInv, ConvOK, ShapeOK
  <1>4. ConvOK(base) /\ base.turns = conv.turns /\ base.active = {}
    <2>1. CASE conv.active = {}
      BY <1>3, <2>1 DEF recover_orphaned_chat_turn
    <2>2. CASE conv.active # {}
      <3> DEFINE a == CHOOSE a \in conv.active : TRUE
      <3>1. a \in conv.active /\ base = cancel_turn(conv, a)
        BY <2>2 DEF recover_orphaned_chat_turn
      <3> HIDE DEF a, base
      <3>2. /\ ConvOK(cancel_turn(conv, a)) /\ cancel_turn(conv, a).turns = conv.turns
            /\ cancel_turn(conv, a).active = {}
        BY <1>3, <3>1, CancelFields
      <3> QED BY <3>1, <3>2
    <2> QED BY <2>1, <2>2
  <1> DEFINE begun == S(m, budget)
             t == T(m, budget)
             limit == memory_recall_limit_for_budget[budget]
             r1 == record(begun, t, "reasoning_budget", budget)
             r == record(r1, t, "recalled_memory_items", kept)
             left == iterations_for_budget[budget]
             d == [state |-> r, task |-> t, done |-> 0, left |-> left]
             a == [task |-> t, message |-> m, tokens |-> 0, text |-> FALSE, synthesis |-> FALSE,
                   fabric |-> {}]
  <1>5. draft' = {d} /\ conv' = base
    BY <1>1 DEF record_reasoning_profile
  <1> HIDE DEF base
  <1>6. /\ ConvOK(begun) /\ begun.turns = base.turns /\ t \in 1..Len(begun.cog.tasks)
        /\ begun.active = {a}
        /\ begun.cog.tasks[t].steps_taken = 0 /\ begun.cog.tasks[t].max_steps = MaxSteps
        /\ \A name : <<t, name>> \notin DOMAIN begun.cog.world
    BY <1>4, BeginFields
  <1>7. a.task = t /\ a.tokens = 0 /\ a.fabric = {}
    OBVIOUS
  <1> HIDE DEF begun, t, limit, S, T, a
  <1>8. \A name, x : fact(begun, t, name, x) = x
    BY <1>6 DEF fact
  <1>9. /\ ConvOK(r1) /\ r1.turns = begun.turns /\ r1.active = begun.active
        /\ r1.cog.tasks = begun.cog.tasks
        /\ \A u, other, x : other # "reasoning_budget" => fact(r1, u, other, x) = fact(begun, u, other, x)
    BY <1>6, RecordFields
  <1> HIDE DEF r1
  <1>10. t \in 1..Len(r1.cog.tasks)
    BY <1>6, <1>9
  <1>11. /\ ConvOK(r) /\ r.turns = r1.turns /\ r.active = r1.active /\ r.cog.tasks = r1.cog.tasks
         /\ \A u, other, x : other # "recalled_memory_items" => fact(r, u, other, x) = fact(r1, u, other, x)
    BY <1>9, <1>10, RecordFields
  <1> HIDE DEF r
  <1>12. left \in Nat /\ 0 + left <= 4
    BY DEF Budgets, ReasoningBudget, iterations_for_budget
  <1> HIDE DEF left
  <1>13. d.state = r /\ d.task = t /\ d.done = 0 /\ d.left = left
    OBVIOUS
  <1>14. d = [state |-> d.state, task |-> d.task, done |-> d.done, left |-> d.left]
    OBVIOUS
  <1> HIDE DEF d
  <1>15. /\ fact(r, t, "action_count", 0) = 0 /\ fact(r, t, "action_protocol", 0) = 0
         /\ fact(r, t, "approval", "none") = "none"
    BY <1>8, <1>9, <1>11
  <1>16. DraftOK(d, conv')
    <2>1. ConvOK(r) /\ r.turns = conv'.turns /\ t \in 1..Len(r.cog.tasks)
      BY <1>4, <1>5, <1>6, <1>9, <1>10, <1>11
    <2>2. r.cog.tasks[t].steps_taken = 0 /\ r.cog.tasks[t].max_steps = MaxSteps
      BY <1>6, <1>9, <1>11
    <2>3. r.active # {} /\ \A x \in r.active : x.task = t /\ x.tokens = 0 /\ x.fabric = {}
      BY <1>6, <1>7, <1>9, <1>11
    <2> QED BY <1>12, <1>13, <1>14, <1>15, <2>1, <2>2, <2>3 DEF DraftOK
  <1>17. ServedOK'
    BY <1>1, <1>2, <1>4, <1>5 DEF ServedOK, SessionStatus
  <1>18. ConvInv'
    BY <1>4, <1>5, <1>16, <1>17 DEF ConvInv
  <1>19. Hist(conv') = Hist(conv) /\ Open(conv') = {}
    BY <1>4, <1>5 DEF Hist, Open
  <1> QED BY <1>18, <1>19 DEF Moves, Open

(* The copy of a submit after an iteration.                                *)
LEMMA CopyMoves ==
    ASSUME NEW d, d = [state |-> d.state, task |-> d.task, done |-> d.done, left |-> d.left],
           NEW v, NEW n, NEW k, NEW e, e = [d EXCEPT !.state = v, !.done = n, !.left = k]
    PROVE  e = [state |-> v, task |-> d.task, done |-> n, left |-> k]
  OBVIOUS

LEMMA ReasoningStep ==
    ASSUME ConvInv, reasoning_iteration
    PROVE  ConvInv' /\ Moves(conv, conv')
  <1> DEFINE w == [op |-> "Work"]
  <1>1. PICK d \in draft :
           /\ d.left > 0
           /\ \E o \in Iteration(d.state.cog, d.task, {w}, {"Accept", "Reject"}) :
                 draft' = IF o.on THEN {[d EXCEPT !.state.cog = o.state, !.done = @ + 1, !.left = @ - 1]}
                                  ELSE {}
           /\ UNCHANGED <<conv, session>>
    BY DEF reasoning_iteration
  <1>2. PICK o \in Iteration(d.state.cog, d.task, {w}, {"Accept", "Reject"}) :
           draft' = IF o.on THEN {[d EXCEPT !.state.cog = o.state, !.done = @ + 1, !.left = @ - 1]}
                            ELSE {}
    BY <1>1
  <1>3. Moves(conv, conv')
    BY <1>1 DEF Moves
  <1>4. CASE ~o.on
    <2>1. draft' = {} /\ conv' = conv /\ session' = session
      BY <1>1, <1>2, <1>4
    <2> QED BY <1>3, <2>1 DEF ConvInv, ServedOK
  <1>5. CASE o.on
    <2> DEFINE v == d.state
               t == d.task
               c == commit_directive(v.cog, t, w)
               r == [v EXCEPT !.cog = c]
               e == [d EXCEPT !.state.cog = o.state, !.done = @ + 1, !.left = @ - 1]
    <2>1. DraftOK(d, conv)
      BY DEF ConvInv
    <2>2. /\ ConvOK(v) /\ t \in 1..Len(v.cog.tasks) /\ \A a \in v.active : a.task = t
          /\ v.cog.tasks[t].steps_taken = d.done /\ v.cog.tasks[t].max_steps = 32
          /\ d.done \in Nat /\ d.left \in Nat /\ d.done + d.left <= 4
      BY <2>1 DEF DraftOK, MaxSteps
    <2>3. o.state = c
      <3>1. ~(v.cog.tasks[t].steps_taken >= v.cog.tasks[t].max_steps)
        BY <2>2
      <3>2. o # [state |-> v.cog, on |-> FALSE]
        BY <1>5
      <3>3. PICK y \in {w} \X {"Accept", "Reject"} :
               o = LET x == execute_directive(v.cog, y[1]) IN
                   CASE y[2] = "Accept" -> [state |-> commit_directive(x, t, y[1]),
                                            on |-> y[1].op # "Complete"]
                     [] y[2] = "Retry"  -> [state |-> store(x, "retry", OwnWords), on |-> TRUE]
                     [] y[2] = "Reject" -> [state |-> fail_task(x, t), on |-> FALSE]
        BY <3>1, <3>2 DEF Iteration
      <3>4. y[1] = w /\ y[2] \in {"Accept", "Reject"}
        OBVIOUS
      <3>5. w.op = "Work"
        OBVIOUS
      <3> HIDE DEF w
      <3>6. execute_directive(v.cog, w) = v.cog
        BY <3>5 DEF execute_directive
      <3>7. y[2] # "Reject"
        <4>1. y[2] = "Reject" => o = [state |-> fail_task(v.cog, t), on |-> FALSE]
          BY <3>3, <3>4, <3>6
        <4> QED BY <1>5, <4>1
      <3>8. o = [state |-> c, on |-> w.op # "Complete"]
        BY <3>3, <3>4, <3>6, <3>7
      <3> HIDE DEF c
      <3> QED BY <3>8
    <2>4. /\ ConvOK(r) /\ r.turns = v.turns /\ r.active = v.active /\ r.cog = c
          /\ Len(r.cog.tasks) = Len(v.cog.tasks) /\ r.cog.world = v.cog.world
          /\ r.cog.tasks[t].steps_taken = v.cog.tasks[t].steps_taken + 1
          /\ r.cog.tasks[t].max_steps = v.cog.tasks[t].max_steps
      <3>1. v.cog.tasks[t].steps_taken + 1 < v.cog.tasks[t].max_steps
        BY <1>1, <2>2
      <3> HIDE DEF v, t
      <3> QED BY <2>2, <3>1, WorkFields
    <2>5. d = [state |-> d.state, task |-> d.task, done |-> d.done, left |-> d.left]
      BY <2>1 DEF DraftOK
    <2> HIDE DEF c, w
    <2>6. e = [state |-> r, task |-> t, done |-> d.done + 1, left |-> d.left - 1]
      <3> DEFINE n == d.done + 1
                 k == d.left - 1
      <3>1. e = [d EXCEPT !.state = r, !.done = n, !.left = k]
        BY <2>3
      <3> HIDE DEF e, r, n, k
      <3>2. e = [state |-> r, task |-> d.task, done |-> n, left |-> k]
        BY <2>5, <3>1, CopyMoves
      <3> QED BY <3>2 DEF n, k
    <2>7. draft' = {e} /\ conv' = conv /\ session' = session
      BY <1>1, <1>2, <1>5
    <2> HIDE DEF e, r, v, t
    <2>8. e.state = r /\ e.task = t /\ e.done = d.done + 1 /\ e.left = d.left - 1
      BY <2>6
    <2>9. \A name, x : fact(r, t, name, x) = fact(v, t, name, x)
      BY <2>4 DEF fact
    <2>10. DraftOK(e, conv)
      <3>1. e = [state |-> e.state, task |-> e.task, done |-> e.done, left |-> e.left]
        BY <2>6, <2>8
      <3>2. /\ v.turns = conv.turns /\ v.active # {}
            /\ \A a \in v.active : a.task = t /\ a.tokens = 0 /\ a.fabric = {}
            /\ fact(v, t, "action_count", 0) = 0 /\ fact(v, t, "action_protocol", 0) = 0
            /\ fact(v, t, "approval", "none") = "none"
        BY <2>1 DEF DraftOK, v, t
      <3>3. /\ e.done \in Nat /\ e.left \in Nat /\ e.done + e.left <= 4
            /\ r.cog.tasks[t].steps_taken = e.done /\ r.cog.tasks[t].max_steps = MaxSteps
        BY <1>1, <2>2, <2>4, <2>8, SMTT(40) DEF MaxSteps
      <3>4. t \in 1..Len(r.cog.tasks)
        BY <2>2, <2>4
      <3> QED BY <2>4, <2>8, <2>9, <3>1, <3>2, <3>3, <3>4 DEF DraftOK
    <2>11. draft # {}
      OBVIOUS
    <2> QED BY <1>3, <2>7, <2>10, <2>11 DEF ConvInv, ServedOK
  <1> QED BY <1>4, <1>5

(* What planning leaves of the copy: its turn, answered by nothing yet.    *)
LEMMA PlannedFields ==
    ASSUME NEW d, NEW v0, DraftOK(d, v0), NEW p \in Planned(d)
    PROVE  LET v == p.state IN
           /\ ConvOK(v) /\ v.turns = v0.turns
           /\ v.active # {} /\ \A a \in v.active : GroundedBy(v, a)
           /\ p.status \in {"Running", "WaitingApproval"}
           /\ p.status = "Running" =>
                \A a \in v.active :
                   fact(v, a.task, "approval", "none") \notin {"pending", "reconfirm"}
  <1> DEFINE t == d.task
             v == record(d.state, t, "reasoning_iterations", d.done)
             a == CHOOSE a \in v.active : TRUE
             P(n) == install_action_plan(v, t, n)
  <1>1. /\ ConvOK(d.state) /\ d.state.turns = v0.turns /\ t \in 1..Len(d.state.cog.tasks)
        /\ d.state.active # {}
        /\ \A b \in d.state.active : b.task = t /\ b.tokens = 0 /\ b.fabric = {}
        /\ fact(d.state, t, "action_count", 0) = 0 /\ fact(d.state, t, "action_protocol", 0) = 0
        /\ fact(d.state, t, "approval", "none") = "none"
    BY DEF DraftOK
  <1>2. p \in {[state |-> record_action_planner(v, t, s, 0), status |-> "Running"]
                 : s \in {"direct", "invalid"}}
              \cup {[state |-> record_action_planner(record_chat_approval(P(n), t, "pending"),
                                                     t, "actions", 0),
                     status |-> "WaitingApproval"] : n \in PlanLengths}
              \cup UNION {{[state |-> x, status |-> "Running"] :
                     x \in {Completed(P(n), a, n)} \cup Suspended(P(n), a, n, 0)} : n \in PlanLengths}
    BY DEF Planned, record_reasoning_cycle_report
  <1> DEFINE w == d.state
  <1>3. /\ ConvOK(v) /\ v.turns = w.turns /\ v.active = w.active /\ v.cog.tasks = w.cog.tasks
        /\ \A u, other, x : other # "reasoning_iterations" => fact(v, u, other, x) = fact(w, u, other, x)
    <2> HIDE DEF t, w
    <2> QED BY <1>1, RecordFields DEF w
  <1> HIDE DEF v, t, w
  <1>4. /\ v.turns = v0.turns /\ t \in 1..Len(v.cog.tasks) /\ v.active # {}
        /\ \A b \in v.active : b.task = t /\ b.tokens = 0 /\ b.fabric = {}
        /\ fact(v, t, "action_count", 0) = 0 /\ fact(v, t, "action_protocol", 0) = 0
        /\ fact(v, t, "approval", "none") = "none"
    BY <1>1, <1>3 DEF w
  <1>5. a \in v.active /\ a.task = t /\ a.tokens = 0 /\ a.fabric = {}
    BY <1>4
  <1> HIDE DEF a
  <1>6. ASSUME NEW n \in PlanLengths
        PROVE  /\ ConvOK(P(n)) /\ P(n).turns = v0.turns /\ P(n).active = v.active
               /\ P(n).cog.tasks = v.cog.tasks
               /\ fact(P(n), t, "action_count", 0) = n /\ fact(P(n), t, "action_protocol", 0) = n
               /\ fact(P(n), t, "approval", "none") = "none"
               /\ n \in Nat /\ n > 0
    <2>1. n \in Nat /\ n > 0
      BY ConversationAssumption
    <2> DEFINE r == install_action_plan(v, t, n)
    <2>2. /\ ConvOK(r) /\ r.turns = v.turns /\ r.cog.tasks = v.cog.tasks /\ r.active = v.active
          /\ fact(r, t, "action_count", 0) = n /\ fact(r, t, "action_protocol", 0) = n
          /\ fact(r, t, "approval", "none") = fact(v, t, "approval", "none")
      BY <1>3, <1>4, PlanFields
    <2> QED BY <1>4, <2>1, <2>2
  <1>7. CASE p \in {[state |-> record_action_planner(v, t, s, 0), status |-> "Running"]
                      : s \in {"direct", "invalid"}}
    <2>1. PICK s : p = [state |-> record_action_planner(v, t, s, 0), status |-> "Running"]
      BY <1>7
    <2> DEFINE r == record_action_planner(v, t, s, 0)
    <2>2. p.state = r /\ p.status = "Running"
      BY <2>1
    <2>3. /\ ConvOK(r) /\ r.turns = v.turns /\ r.cog.tasks = v.cog.tasks /\ r.active = v.active
          /\ \A u, x : \A name \in PlanFacts : fact(r, u, name, x) = fact(v, u, name, x)
      BY <1>3, <1>4, PlannerFields
    <2> HIDE DEF r
    <2>4. /\ fact(r, t, "action_count", 0) = 0 /\ fact(r, t, "action_protocol", 0) = 0
          /\ fact(r, t, "approval", "none") = "none"
      BY <1>4, <2>3 DEF PlanFacts
    <2>5. \A b \in r.active : GroundedBy(r, b)
      BY <1>4, <2>3, <2>4 DEF GroundedBy
    <2> QED BY <1>4, <2>2, <2>3, <2>4, <2>5
  <1>8. CASE p \in {[state |-> record_action_planner(record_chat_approval(P(n), t, "pending"),
                                                     t, "actions", 0),
                     status |-> "WaitingApproval"] : n \in PlanLengths}
    <2>1. PICK n \in PlanLengths :
             p = [state |-> record_action_planner(record_chat_approval(P(n), t, "pending"),
                                                  t, "actions", 0),
                  status |-> "WaitingApproval"]
      BY <1>8
    <2> DEFINE x == P(n)
               y == record(x, t, "approval", "pending")
               r == record_action_planner(y, t, "actions", 0)
    <2>2. p.state = r /\ p.status = "WaitingApproval"
      BY <2>1 DEF record_chat_approval
    <2>3. /\ ConvOK(x) /\ x.turns = v0.turns /\ x.active = v.active
          /\ x.cog.tasks = v.cog.tasks
          /\ fact(x, t, "action_count", 0) = n /\ fact(x, t, "action_protocol", 0) = n
          /\ n \in Nat /\ n > 0 /\ t \in 1..Len(x.cog.tasks)
      BY <1>4, <1>6
    <2> HIDE DEF x, P
    <2>4. /\ ConvOK(y) /\ y.turns = x.turns /\ y.active = x.active /\ y.cog.tasks = x.cog.tasks
          /\ \A z : fact(y, t, "approval", z) = "pending"
          /\ \A u, other, z : other # "approval" => fact(y, u, other, z) = fact(x, u, other, z)
      BY <2>3, RecordFields
    <2> HIDE DEF y
    <2>5. t \in 1..Len(y.cog.tasks)
      BY <2>3, <2>4
    <2>6. /\ ConvOK(r) /\ r.turns = y.turns /\ r.cog.tasks = y.cog.tasks /\ r.active = y.active
          /\ \A u, z : \A name \in PlanFacts : fact(r, u, name, z) = fact(y, u, name, z)
      BY <2>4, <2>5, PlannerFields
    <2> HIDE DEF r
    <2>7. /\ fact(r, t, "action_count", 0) = n /\ fact(r, t, "action_protocol", 0) = n
          /\ fact(r, t, "approval", "none") = "pending"
      BY <2>3, <2>4, <2>6 DEF PlanFacts
    <2>8. /\ r.active = v.active /\ r.turns = v0.turns
      BY <2>3, <2>4, <2>6
    <2>9. \A b \in r.active : GroundedBy(r, b)
      BY <1>4, <2>3, <2>7, <2>8 DEF GroundedBy
    <2> QED BY <1>4, <2>2, <2>6, <2>8, <2>9
  <1>9. CASE p \in UNION {{[state |-> x, status |-> "Running"] :
                     x \in {Completed(P(n), a, n)} \cup Suspended(P(n), a, n, 0)} : n \in PlanLengths}
    <2>1. PICK n \in PlanLengths : \E x \in {Completed(P(n), a, n)} \cup Suspended(P(n), a, n, 0) :
             p = [state |-> x, status |-> "Running"]
      BY <1>9
    <2> DEFINE x == P(n)
    <2>2. PICK r \in {Completed(x, a, n)} \cup Suspended(x, a, n, 0) :
             p = [state |-> r, status |-> "Running"]
      BY <2>1
    <2>3. p.state = r /\ p.status = "Running"
      BY <2>2
    <2>4. /\ ConvOK(x) /\ x.turns = v0.turns /\ a \in x.active
          /\ fact(x, t, "action_count", 0) = n /\ fact(x, t, "action_protocol", 0) = n
          /\ fact(x, t, "approval", "none") = "none"
          /\ n \in Nat /\ n > 0
      BY <1>5, <1>6
    <2> HIDE DEF x, P
    <2>5. CASE r = Completed(x, a, n)
      <3> DEFINE q == Completed(x, a, n)
      <3>1. Verified(x, a, n, q)
        BY <2>4, CompletedFields
      <3> HIDE DEF q
      <3>0. /\ ConvOK(q) /\ q.turns = x.turns /\ fact(q, a.task, "verified_action_count", 0) = n
            /\ \A u, z : \A name \in PlanFacts : fact(q, u, name, z) = fact(x, u, name, z)
        BY <3>1 DEF Verified
      <3>2. PICK b \in ActiveTurn :
                  /\ q.active = {b} /\ b.task = a.task /\ b.message = a.message
                  /\ b.tokens = a.tokens /\ b.fabric = {} /\ b.synthesis = TRUE
        BY <3>1 DEF Verified
      <3>3. /\ fact(q, t, "action_count", 0) = n /\ fact(q, t, "action_protocol", 0) = n
            /\ fact(q, t, "approval", "none") = "none"
        BY <2>4, <3>0 DEF PlanFacts
      <3>4. GroundedBy(q, b)
        BY <1>5, <2>4, <3>0, <3>2, <3>3 DEF GroundedBy
      <3>5. r = q
        BY <2>5 DEF q
      <3> QED BY <1>5, <2>3, <2>4, <3>0, <3>2, <3>3, <3>4, <3>5
    <2>6. CASE r \in Suspended(x, a, n, 0)
      <3>1. PICK k \in 0 .. n - 1 : r = install_action_fabric_checkpoint(x, a, k)
        BY <2>6 DEF Suspended
      <3> DEFINE q == install_action_fabric_checkpoint(x, a, k)
      <3>2. k \in Nat
        BY <2>4
      <3>3. /\ ConvOK(q) /\ q.turns = x.turns /\ q.cog = x.cog
            /\ \E b \in ActiveTurn :
                  /\ q.active = {b} /\ b.task = a.task /\ b.message = a.message
                  /\ b.tokens = a.tokens /\ b.fabric = {k}
            /\ \A u, name, z : fact(q, u, name, z) = fact(x, u, name, z)
        BY <2>4, <3>2, InstallFields
      <3> HIDE DEF q
      <3>4. PICK b \in ActiveTurn :
                  /\ q.active = {b} /\ b.task = a.task /\ b.message = a.message
                  /\ b.tokens = a.tokens /\ b.fabric = {k}
        BY <3>3
      <3>5. /\ fact(q, t, "action_count", 0) = n /\ fact(q, t, "action_protocol", 0) = n
            /\ fact(q, t, "approval", "none") = "none"
        BY <2>4, <3>3
      <3>6. GroundedBy(q, b)
        BY <1>5, <2>4, <3>4, <3>5 DEF GroundedBy
      <3>7. r = q
        BY <3>1 DEF q
      <3> QED BY <1>5, <2>3, <2>4, <3>3, <3>4, <3>5, <3>6, <3>7
    <2> QED BY <2>5, <2>6
  <1> QED BY <1>2, <1>7, <1>8, <1>9

LEMMA CommitStep ==
    ASSUME ConvInv, submit_chat_commit
    PROVE  ConvInv' /\ Moves(conv, conv')
  <1>1. PICK d \in draft : \E p \in Planned(d) : conv' = p.state /\ session' = p.status
    BY DEF submit_chat_commit
  <1>2. PICK p \in Planned(d) : conv' = p.state /\ session' = p.status
    BY <1>1
  <1>3. DraftOK(d, conv) /\ conv.active = {}
    BY DEF ConvInv, ServedOK
  <1>4. /\ ConvOK(conv') /\ conv'.turns = conv.turns
        /\ conv'.active # {} /\ \A a \in conv'.active : GroundedBy(conv', a)
        /\ session' \in {"Running", "WaitingApproval"}
        /\ session' = "Running" =>
             \A a \in conv'.active :
                fact(conv', a.task, "approval", "none") \notin {"pending", "reconfirm"}
    BY <1>2, <1>3, PlannedFields
  <1>5. draft' = {}
    BY DEF submit_chat_commit
  <1>6. ConvInv'
    BY <1>4, <1>5, Settled DEF SessionStatus
  <1>7. Open(conv') \in {{q} : q \in Messages}
    <2>1. PICK a \in conv'.active : conv'.active = {a} /\ a.message \in Messages
      BY <1>4 DEF ConvOK, ShapeOK, ActiveTurn
    <2>2. Open(conv') = {a.message}
      BY <2>1 DEF Open
    <2> QED BY <2>1, <2>2
  <1>8. Hist(conv') = Hist(conv) /\ Open(conv) = {}
    BY <1>3, <1>4 DEF Hist, Open
  <1> QED BY <1>6, <1>7, <1>8 DEF Moves

(* The open turn stays open, or is given up, or is answered.               *)
LEMMA StillOpen ==
    ASSUME NEW v, ConvOK(v), NEW a \in v.active, NEW r, r.turns = v.turns,
           NEW b, r.active = {b}, b.message = a.message
    PROVE  Moves(v, r)
  <1>1. v.active = {a}
    BY DEF ConvOK, ShapeOK
  <1>2. Hist(r) = Hist(v) /\ Open(r) = Open(v)
    BY <1>1 DEF Hist, Open
  <1> QED BY <1>2 DEF Moves

LEMMA GivenUp ==
    ASSUME NEW v, NEW a \in v.active, NEW r, r.turns = v.turns, r.active = {}
    PROVE  Moves(v, r)
  <1>1. Hist(r) = Hist(v) /\ Open(r) = {} /\ Open(v) # {}
    BY DEF Hist, Open
  <1> QED BY <1>1 DEF Moves

LEMMA AnsweredOpen ==
    ASSUME NEW v, ConvOK(v), NEW a \in v.active, NEW r, r.active = {},
           r.turns = v.turns \o Exchange(a.message)
    PROVE  Moves(v, r)
  <1> DEFINE k == Cardinality(Answered(v.cog.tasks))
             m == a.message
             x == Exchange(m)
             h == Hist(v)
  <1>1. v.turns \in Seq(Turn) /\ Len(v.turns) = 2 * k /\ m \in Messages
    BY DEF ConvOK, ShapeOK, MatchOK, ActiveTurn
  <1>2. k \in Nat
    <2>1. Len(v.cog.tasks) \in Nat
      BY LenProperties DEF ConvOK, ShapeOK, CogOK
    <2>2. IsFiniteSet(1..Len(v.cog.tasks))
      BY <2>1, FS_Interval
    <2>3. Answered(v.cog.tasks) \subseteq 1..Len(v.cog.tasks)
      BY DEF Answered
    <2> QED BY <2>2, <2>3, FS_Subset, FS_CardinalityType
  <1>3. x \in Seq(Turn) /\ Len(x) = 2 /\ x[2].about = m
    BY <1>1 DEF Exchange, Turn
  <1> HIDE DEF k, x, m
  <1>4. r.turns = v.turns \o x
    BY DEF x, m
  <1>5. Len(r.turns) = Len(v.turns) + Len(x)
    BY <1>1, <1>3, <1>4, ConcatProperties, ZenonT(60)
  <1>6. \A i \in 1 .. Len(v.turns) + Len(x) :
           r.turns[i] = IF i <= Len(v.turns) THEN v.turns[i] ELSE x[i - Len(v.turns)]
    BY <1>1, <1>3, <1>4, ConcatProperties
  <1>7. Len(r.turns) \div 2 = k + 1 /\ Len(v.turns) \div 2 = k
    BY <1>1, <1>2, <1>3, <1>5
  <1>8. h = [n \in 1..k |-> v.turns[2 * n].about]
    BY <1>7 DEF Hist
  <1>9. Hist(r) = [n \in 1 .. k + 1 |-> r.turns[2 * n].about]
    BY <1>7 DEF Hist
  <1>10. \A n \in 1..k : r.turns[2 * n] = v.turns[2 * n]
    <2> SUFFICES ASSUME NEW n \in 1..k PROVE r.turns[2 * n] = v.turns[2 * n]
      OBVIOUS
    <2>1. 2 * n \in 1 .. Len(v.turns) + Len(x) /\ 2 * n <= Len(v.turns)
      BY <1>1, <1>2, <1>3
    <2> QED BY <1>6, <2>1
  <1>11. r.turns[2 * (k + 1)] = x[2]
    <2>1. /\ 2 * (k + 1) \in 1 .. Len(v.turns) + Len(x) /\ ~(2 * (k + 1) <= Len(v.turns))
          /\ 2 * (k + 1) - Len(v.turns) = 2
      BY <1>1, <1>2, <1>3
    <2> QED BY <1>6, <2>1
  <1>12. h \in Seq(Messages) /\ Len(h) = k
    <2>1. \A n \in 1..k : v.turns[2 * n].about \in Messages
      <3> SUFFICES ASSUME NEW n \in 1..k PROVE v.turns[2 * n].about \in Messages
        OBVIOUS
      <3>1. 2 * n \in 1..Len(v.turns)
        BY <1>1, <1>2
      <3>2. v.turns[2 * n] \in Turn
        BY <1>1, <3>1, ElementOfSeq
      <3> QED BY <3>2 DEF Turn
    <2>2. h \in [1..k -> Messages]
      BY <1>8, <2>1
    <2> HIDE DEF h
    <2> QED BY <1>2, <2>2
  <1> HIDE DEF h
  <1>13. Append(h, m) = [n \in 1 .. k + 1 |-> IF n = k + 1 THEN m ELSE h[n]]
    <2> DEFINE ap == Append(h, m)
    <2>1. ap \in Seq(Messages) /\ Len(ap) = k + 1
      BY <1>1, <1>12, AppendProperties
    <2>2. \A n \in 1 .. k + 1 : ap[n] = IF n = k + 1 THEN m ELSE h[n]
      BY <1>1, <1>2, <1>12, AppendProperties
    <2> HIDE DEF ap
    <2>3. ap = [n \in 1 .. k + 1 |-> ap[n]]
      BY <1>2, <2>1
    <2> QED BY <2>2, <2>3 DEF ap
  <1>14. Hist(r) = Append(h, m)
    <2>1. \A n \in 1 .. k + 1 : r.turns[2 * n].about = IF n = k + 1 THEN m ELSE h[n]
      <3> SUFFICES ASSUME NEW n \in 1 .. k + 1
                   PROVE  r.turns[2 * n].about = IF n = k + 1 THEN m ELSE h[n]
        OBVIOUS
      <3>1. CASE n = k + 1
        BY <1>3, <1>11, <3>1
      <3>2. CASE n # k + 1
        <4>1. n \in 1..k
          BY <1>2, <3>2
        <4> QED BY <1>8, <1>10, <3>2, <4>1
      <3> QED BY <3>1, <3>2
    <2> QED BY <1>9, <1>13, <2>1
  <1>15. m \in Open(v) /\ Open(r) = {}
    BY DEF Open, m
  <1> QED BY <1>14, <1>15 DEF Moves, h

LEMMA ResolveStep ==
    ASSUME ConvInv, resolve_chat_approval
    PROVE  ConvInv' /\ Moves(conv, conv')
  <1> DEFINE K(a) == IF a.fabric = {} THEN 0 ELSE CHOOSE k \in a.fabric : TRUE
  <1>1. PICK a \in conv.active :
          /\ approval(conv, a.task) \in Pending
          /\ \/ Step(cancel_turn(record_chat_approval(conv, a.task, "denied"), a), "None")
             \/ Step(install_action_fabric_checkpoint(
                        record_chat_approval(conv, a.task, "approved-executing"), a, K(a)),
                     "Running")
    BY DEF resolve_chat_approval
  <1>2. ConvOK(conv) /\ GroundedBy(conv, a) /\ a \in ActiveTurn
    BY DEF ConvInv, ConvOK, ShapeOK
  <1>3. draft = {} /\ session = "WaitingApproval"
    BY DEF resolve_chat_approval, ConvInv, ServedOK
  <1> DEFINE t == a.task
  <1>4. t \in 1..Len(conv.cog.tasks)
    BY <1>2 DEF ConvOK, ActiveOK, WorksOn
  <1>5. CASE Step(cancel_turn(record_chat_approval(conv, a.task, "denied"), a), "None")
    <2> DEFINE v == record(conv, t, "approval", "denied")
               r == cancel_turn(v, a)
    <2>1. conv' = r /\ session' = "None" /\ draft' = {}
      BY <1>3, <1>5 DEF Step, record_chat_approval
    <2>2. ConvOK(v) /\ v.turns = conv.turns /\ v.active = conv.active
      BY <1>2, <1>4, RecordFields
    <2> HIDE DEF v
    <2>3. ConvOK(r) /\ r.turns = v.turns /\ r.active = {}
      BY <2>2, CancelFields
    <2> HIDE DEF r
    <2>4. ConvInv'
      BY <2>1, <2>3, Settled DEF SessionStatus
    <2> QED BY <2>1, <2>2, <2>3, <2>4, GivenUp
  <1>6. CASE Step(install_action_fabric_checkpoint(
                    record_chat_approval(conv, a.task, "approved-executing"), a, K(a)), "Running")
    <2> DEFINE v == record(conv, t, "approval", "approved-executing")
               k == K(a)
               r == install_action_fabric_checkpoint(v, a, k)
    <2>1. conv' = r /\ session' = "Running" /\ draft' = {}
      BY <1>3, <1>6 DEF Step, record_chat_approval
    <2>2. /\ ConvOK(v) /\ v.turns = conv.turns /\ v.active = conv.active
          /\ \A d : fact(v, t, "approval", d) = "approved-executing"
          /\ \A u, other, d : other # "approval" => fact(v, u, other, d) = fact(conv, u, other, d)
      BY <1>2, <1>4, RecordFields
    <2>3. k \in Nat /\ a \in v.active
      BY <1>2, <2>2 DEF ActiveTurn
    <2> HIDE DEF v, k
    <2>4. /\ ConvOK(r) /\ r.turns = v.turns /\ r.cog = v.cog
          /\ \E b \in ActiveTurn :
                /\ r.active = {b} /\ b.task = a.task /\ b.message = a.message
                /\ b.tokens = a.tokens /\ b.fabric = {k}
          /\ \A u, name, d : fact(r, u, name, d) = fact(v, u, name, d)
      BY <2>2, <2>3, InstallFields
    <2> HIDE DEF r
    <2>5. PICK b \in ActiveTurn :
                /\ r.active = {b} /\ b.task = a.task /\ b.message = a.message
                /\ b.tokens = a.tokens /\ b.fabric = {k}
      BY <2>4
    <2>6. /\ fact(r, t, "approval", "none") = "approved-executing"
          /\ fact(r, t, "action_count", 0) = fact(conv, t, "action_count", 0)
          /\ fact(r, t, "action_protocol", 0) = fact(conv, t, "action_protocol", 0)
      BY <2>2, <2>4
    <2>7. GroundedBy(r, b)
      BY <1>1, <1>2, <2>5, <2>6 DEF GroundedBy, approval, Pending
    <2>8. ConvInv'
      BY <2>1, <2>4, <2>5, <2>6, <2>7, Settled DEF SessionStatus
    <2>9. Moves(conv, r)
      BY <1>2, <2>2, <2>4, <2>5, StillOpen
    <2> QED BY <2>1, <2>8, <2>9
  <1> QED BY <1>1, <1>5, <1>6

LEMMA AdvanceStep ==
    ASSUME ConvInv, advance_pending_chat_actions
    PROVE  ConvInv' /\ Moves(conv, conv')
  <1> DEFINE N(a) == fact(conv, a.task, "action_protocol", 0)
             External(a) == approval(conv, a.task) # "none"
             F(a) == Completed(conv, a, N(a))
  <1> DEFINE Q(a, done) ==
           /\ External(a) => approval(conv, a.task) = "approved-executing"
           /\ \/ Step(IF External(a) THEN record_chat_approval(F(a), a.task, "approved") ELSE F(a),
                      "Running")
              \/ \E v \in Suspended(conv, a, N(a), done) :
                    \/ Step(v, "Running")
                    \/ External(a) /\ Step(record_chat_approval(v, a.task, "reconfirm"),
                                           "WaitingApproval")
  <1>0. PICK a \in conv.active : \E done \in a.fabric : Q(a, done)
    BY DEF advance_pending_chat_actions
  <1>1. PICK done \in a.fabric : Q(a, done)
    BY <1>0
  <1>2. ConvOK(conv) /\ GroundedBy(conv, a) /\ a \in ActiveTurn /\ done \in Nat
    BY DEF ConvInv, ConvOK, ShapeOK, ActiveTurn
  <1>3. draft = {} /\ session = "Running"
    BY DEF advance_pending_chat_actions, ConvInv, ServedOK
  <1> DEFINE t == a.task
             n == N(a)
  <1>4. t \in 1..Len(conv.cog.tasks)
    BY <1>2 DEF ConvOK, ActiveOK, WorksOn
  <1>5. /\ n \in Nat /\ fact(conv, t, "action_count", 0) = n
        /\ fact(conv, t, "action_protocol", 0) = n
        /\ n > 0 => a.tokens = 0
        /\ fact(conv, t, "approval", "none") \in {"none", "approved-executing"}
        /\ External(a) <=> fact(conv, t, "approval", "none") = "approved-executing"
    BY <1>1, <1>2 DEF GroundedBy, approval
  <1> HIDE DEF n
  <1>6. CASE Step(IF External(a) THEN record_chat_approval(F(a), a.task, "approved") ELSE F(a),
                  "Running")
    <2> DEFINE q == Completed(conv, a, n)
               r == IF External(a) THEN record(q, t, "approval", "approved") ELSE q
    <2>1. conv' = r /\ session' = "Running" /\ draft' = {}
      BY <1>3, <1>6 DEF Step, record_chat_approval, n
    <2>2. Verified(conv, a, n, q)
      BY <1>2, CompletedFields
    <2> HIDE DEF q
    <2>3. /\ ConvOK(q) /\ q.turns = conv.turns /\ q.cog.tasks = conv.cog.tasks
          /\ fact(q, t, "verified_action_count", 0) = n
          /\ \A u, z : \A name \in PlanFacts : fact(q, u, name, z) = fact(conv, u, name, z)
      BY <2>2 DEF Verified
    <2>4. PICK b \in ActiveTurn :
             /\ q.active = {b} /\ b.task = a.task /\ b.message = a.message
             /\ b.tokens = a.tokens /\ b.fabric = {} /\ b.synthesis = TRUE
      BY <2>2 DEF Verified
    <2>5. /\ fact(q, t, "action_count", 0) = n /\ fact(q, t, "action_protocol", 0) = n
          /\ fact(q, t, "approval", "none") = fact(conv, t, "approval", "none")
      BY <1>5, <2>3 DEF PlanFacts
    <2>6. /\ ConvOK(r) /\ r.turns = conv.turns /\ r.active = {b}
          /\ fact(r, t, "action_count", 0) = n /\ fact(r, t, "action_protocol", 0) = n
          /\ fact(r, t, "verified_action_count", 0) = n
          /\ fact(r, t, "approval", "none") \in {"none", "approved"}
      <3>1. CASE ~External(a)
        <4>1. r = q
          BY <3>1
        <4> QED BY <1>5, <2>3, <2>4, <2>5, <3>1, <4>1
      <3>2. CASE External(a)
        <4> DEFINE s == record(q, t, "approval", "approved")
        <4>1. r = s
          BY <3>2
        <4>2. t \in 1..Len(q.cog.tasks)
          BY <1>4, <2>3
        <4> HIDE DEF t
        <4>3. /\ ConvOK(s) /\ s.turns = q.turns /\ s.active = q.active /\ s.cog.tasks = q.cog.tasks
              /\ \A d : fact(s, t, "approval", d) = "approved"
              /\ \A u, other, d : other # "approval" => fact(s, u, other, d) = fact(q, u, other, d)
          BY <2>3, <4>2, RecordFields
        <4> HIDE DEF s, r
        <4> QED BY <2>3, <2>4, <2>5, <4>1, <4>3
      <3> QED BY <3>1, <3>2
    <2> HIDE DEF r
    <2>7. GroundedBy(r, b)
      BY <1>5, <2>4, <2>6 DEF GroundedBy
    <2>8. ConvInv'
      BY <2>1, <2>4, <2>6, <2>7, Settled DEF SessionStatus
    <2>9. Moves(conv, r)
      BY <1>2, <2>4, <2>6, StillOpen
    <2> QED BY <2>1, <2>8, <2>9
  <1>7. ASSUME NEW q \in Suspended(conv, a, n, done)
        PROVE  /\ Step(q, "Running") => ConvInv' /\ Moves(conv, conv')
               /\ External(a) /\ Step(record_chat_approval(q, a.task, "reconfirm"), "WaitingApproval")
                    => ConvInv' /\ Moves(conv, conv')
    <2>1. PICK k \in done .. n - 1 : q = install_action_fabric_checkpoint(conv, a, k)
      BY DEF Suspended
    <2>2. k \in Nat
      BY <1>2, <1>5
    <2> DEFINE r == install_action_fabric_checkpoint(conv, a, k)
    <2>3. /\ ConvOK(r) /\ r.turns = conv.turns /\ r.cog = conv.cog
          /\ \E b \in ActiveTurn :
                /\ r.active = {b} /\ b.task = a.task /\ b.message = a.message
                /\ b.tokens = a.tokens /\ b.fabric = {k}
          /\ \A u, name, d : fact(r, u, name, d) = fact(conv, u, name, d)
      BY <1>2, <2>2, InstallFields
    <2> HIDE DEF r
    <2>4. PICK b \in ActiveTurn :
                /\ r.active = {b} /\ b.task = a.task /\ b.message = a.message
                /\ b.tokens = a.tokens /\ b.fabric = {k}
      BY <2>3
    <2>5. q = r
      BY <2>1 DEF r
    <2>6. /\ fact(r, t, "approval", "none") = fact(conv, t, "approval", "none")
          /\ fact(r, t, "action_count", 0) = n /\ fact(r, t, "action_protocol", 0) = n
      BY <1>5, <2>3
    <2>7. Moves(conv, r)
      BY <1>2, <2>3, <2>4, StillOpen
    <2>8. ASSUME Step(q, "Running") PROVE ConvInv' /\ Moves(conv, conv')
      <3>1. conv' = r /\ session' = "Running" /\ draft' = {}
        BY <1>3, <2>5, <2>8 DEF Step
      <3>2. GroundedBy(r, b)
        BY <1>5, <2>4, <2>6 DEF GroundedBy
      <3>3. fact(r, b.task, "approval", "none") \notin {"pending", "reconfirm"}
        BY <1>5, <2>4, <2>6
      <3>4. ConvInv'
        BY <2>3, <2>4, <3>1, <3>2, <3>3, Settled DEF SessionStatus
      <3> QED BY <2>7, <3>1, <3>4
    <2>9. ASSUME Step(record_chat_approval(q, a.task, "reconfirm"), "WaitingApproval")
          PROVE  ConvInv' /\ Moves(conv, conv')
      <3> DEFINE s == record(r, t, "approval", "reconfirm")
      <3>1. conv' = s /\ session' = "WaitingApproval" /\ draft' = {}
        BY <1>3, <2>5, <2>9 DEF Step, record_chat_approval
      <3>2. t \in 1..Len(r.cog.tasks)
        BY <1>4, <2>3
      <3> HIDE DEF t
      <3>3. /\ ConvOK(s) /\ s.turns = r.turns /\ s.active = r.active /\ s.cog.tasks = r.cog.tasks
            /\ \A d : fact(s, t, "approval", d) = "reconfirm"
            /\ \A u, other, d : other # "approval" => fact(s, u, other, d) = fact(r, u, other, d)
        BY <2>3, <3>2, RecordFields
      <3> HIDE DEF s
      <3>4. /\ fact(s, t, "approval", "none") = "reconfirm"
            /\ fact(s, t, "action_count", 0) = n /\ fact(s, t, "action_protocol", 0) = n
        BY <2>6, <3>3
      <3>5. GroundedBy(s, b)
        BY <1>5, <2>4, <3>4 DEF GroundedBy, t
      <3>6. ConvInv'
        BY <2>4, <3>1, <3>3, <3>5, Settled DEF SessionStatus
      <3>7. Moves(conv, s)
        BY <1>2, <2>3, <2>4, <3>3, StillOpen
      <3> QED BY <3>1, <3>6, <3>7
    <2> QED BY <2>8, <2>9
  <1>8. CASE \E v \in Suspended(conv, a, N(a), done) :
                \/ Step(v, "Running")
                \/ External(a) /\ Step(record_chat_approval(v, a.task, "reconfirm"),
                                       "WaitingApproval")
    BY <1>7, <1>8 DEF n
  <1> QED BY <1>1, <1>6, <1>8

(* A turn without a pending journal that runs has its plan verified.       *)
LEMMA RunsGrounded ==
    ASSUME ConvInv, session = "Running", NEW a \in conv.active, Ready(conv, a),
           NEW r, r.turns = conv.turns, r.cog = conv.cog, ConvOK(r),
           NEW b, r.active = {b}, b.task = a.task, b.synthesis = a.synthesis, b.fabric = a.fabric
    PROVE  /\ GroundedBy(r, b)
           /\ fact(r, b.task, "approval", "none") \notin {"pending", "reconfirm"}
  <1>1. GroundedBy(conv, a)
        /\ fact(conv, a.task, "approval", "none") \notin {"pending", "reconfirm"}
    BY DEF ConvInv, ServedOK
  <1>2. \A name, x : fact(r, b.task, name, x) = fact(conv, a.task, name, x)
    BY DEF fact
  <1> QED BY <1>1, <1>2 DEF GroundedBy, Ready

LEMMA EventStep ==
    ASSUME ConvInv, next_chat_event
    PROVE  ConvInv' /\ Moves(conv, conv')
  <1> DEFINE V(a, text) == append_generated(conv, a, text)
             B(a, text) == CHOOSE b \in V(a, text).active : TRUE
             Full(a, text, eos) == eos \/ B(a, text).tokens = MaxNewTokens
             Q(a, text, eos) ==
                CASE ~Full(a, text, eos) -> Step(V(a, text), "Running")
                  [] Full(a, text, eos) /\ CanComplete(V(a, text), B(a, text)) ->
                        Step(complete_turn(V(a, text), B(a, text)), "None")
                  [] OTHER -> Step(V(a, text), "Failed")
  <1>1. PICK a \in conv.active :
           Ready(conv, a) /\ a.tokens < MaxNewTokens /\ \E text, eos \in BOOLEAN : Q(a, text, eos)
    BY DEF next_chat_event
  <1>2. PICK text \in BOOLEAN, eos \in BOOLEAN : Q(a, text, eos)
    BY <1>1
  <1>3. ConvOK(conv) /\ a \in ActiveTurn /\ a.tokens \in Nat /\ a.text \in BOOLEAN
    BY DEF ConvInv, ConvOK, ShapeOK, ActiveTurn
  <1>4. draft = {} /\ session = "Running"
    BY DEF next_chat_event, ConvInv, ServedOK
  <1> DEFINE v == V(a, text)
             b == [a EXCEPT !.tokens = @ + 1, !.text = @ \/ text]
  <1>5. /\ b \in ActiveTurn /\ b.task = a.task /\ b.message = a.message
        /\ b.tokens = a.tokens + 1 /\ b.synthesis = a.synthesis /\ b.fabric = a.fabric
    <2> DEFINE x == a.text \/ text
               n == a.tokens + 1
    <2>1. x \in BOOLEAN /\ n \in Nat
      BY <1>3
    <2>2. b = [a EXCEPT !.tokens = n, !.text = x]
      OBVIOUS
    <2> HIDE DEF x, n, b
    <2>3. /\ b \in ActiveTurn /\ b.task = a.task /\ b.message = a.message
          /\ b.tokens = n /\ b.synthesis = a.synthesis /\ b.fabric = a.fabric
      BY <1>3, <2>1, <2>2 DEF ActiveTurn
    <2> QED BY <2>3 DEF n
  <1>6. b.tokens <= MaxNewTokens
    BY <1>1, <1>3, <1>5, ConversationAssumption
  <1>7. v = [conv EXCEPT !.active = {b}]
    BY DEF append_generated
  <1> HIDE DEF b
  <1>8. ConvOK(v) /\ v.turns = conv.turns /\ v.active = {b} /\ v.cog = conv.cog
    <2> DEFINE r == [conv EXCEPT !.active = {b}]
    <2>1. /\ ConvOK(r) /\ r.turns = conv.turns /\ r.active = {b} /\ r.cog = conv.cog
          /\ \A u, other, d : fact(r, u, other, d) = fact(conv, u, other, d)
      BY <1>3, <1>5, <1>6, ActiveChanges
    <2> HIDE DEF r
    <2> QED BY <1>7, <2>1 DEF r
  <1> HIDE DEF V
  <1>9. B(a, text) = b
    BY <1>8
  <1>10. /\ GroundedBy(v, b)
         /\ fact(v, b.task, "approval", "none") \notin {"pending", "reconfirm"}
    BY <1>1, <1>4, <1>5, <1>8, RunsGrounded
  <1>11. Moves(conv, v)
    BY <1>3, <1>5, <1>8, StillOpen
  <1> HIDE DEF B, v
  <1>12. \/ Step(v, "Running") \/ Step(v, "Failed")
         \/ CanComplete(v, b) /\ Step(complete_turn(v, b), "None")
    BY <1>2, <1>9 DEF v
  <1>13. CASE Step(v, "Running") \/ Step(v, "Failed")
    <2>1. conv' = v /\ session' \in {"Running", "Failed"} /\ draft' = {}
      BY <1>4, <1>13 DEF Step
    <2>2. ConvInv'
      BY <1>8, <1>10, <2>1, Settled DEF SessionStatus
    <2> QED BY <1>11, <2>1, <2>2
  <1>14. CASE CanComplete(v, b) /\ Step(complete_turn(v, b), "None")
    <2> DEFINE r == complete_turn(v, b)
    <2>1. conv' = r /\ session' = "None" /\ draft' = {}
      BY <1>4, <1>14 DEF Step
    <2>2. b \in v.active
      BY <1>8
    <2>3. ConvOK(r) /\ r.turns = v.turns \o Exchange(b.message) /\ r.active = {}
      BY <1>8, <1>14, <2>2, CompleteFields
    <2> HIDE DEF r
    <2>4. ConvInv'
      BY <2>1, <2>3, Settled DEF SessionStatus
    <2>5. r.turns = conv.turns \o Exchange(a.message)
      BY <1>5, <1>8, <2>3
    <2>6. Moves(conv, r)
      BY <1>3, <2>3, <2>5, AnsweredOpen
    <2> QED BY <2>1, <2>4, <2>6
  <1> QED BY <1>12, <1>13, <1>14

LEMMA FullStep ==
    ASSUME ConvInv, next_chat_event_full
    PROVE  ConvInv' /\ Moves(conv, conv')
  <1>1. PICK a \in conv.active :
           /\ Ready(conv, a)
           /\ IF CanComplete(conv, a) THEN Step(complete_turn(conv, a), "None")
                                      ELSE Step(conv, "Failed")
    BY DEF next_chat_event_full
  <1>2. ConvOK(conv) /\ draft = {} /\ session = "Running"
    BY DEF ConvInv, ServedOK, next_chat_event_full
  <1>3. CASE CanComplete(conv, a)
    <2> DEFINE r == complete_turn(conv, a)
    <2>1. conv' = r /\ session' = "None" /\ draft' = {}
      BY <1>1, <1>2, <1>3 DEF Step
    <2>2. ConvOK(r) /\ r.turns = conv.turns \o Exchange(a.message) /\ r.active = {}
      BY <1>2, <1>3, CompleteFields
    <2> HIDE DEF r
    <2>3. ConvInv'
      BY <2>1, <2>2, Settled DEF SessionStatus
    <2>4. Moves(conv, r)
      BY <1>2, <2>2, AnsweredOpen
    <2> QED BY <2>1, <2>3, <2>4
  <1>4. CASE ~CanComplete(conv, a)
    <2>1. conv' = conv /\ session' = "Failed" /\ draft' = {}
      BY <1>1, <1>2, <1>4 DEF Step
    <2>2. ConvInv'
      BY <1>2, <2>1, Settled DEF SessionStatus, ConvInv
    <2> QED BY <2>1, <2>2 DEF Moves
  <1> QED BY <1>3, <1>4

LEMMA OtherStep ==
    ASSUME ConvInv, submit_chat_fails \/ next_chat_event_error \/ UNCHANGED convVars
    PROVE  ConvInv' /\ Moves(conv, conv')
  <1>1. conv' = conv
    BY DEF submit_chat_fails, next_chat_event_error, Step, convVars
  <1>2. Moves(conv, conv')
    BY <1>1 DEF Moves
  <1>3. CASE submit_chat_fails
    <2>1. draft' = {} /\ session' = session
      BY <1>3 DEF submit_chat_fails
    <2> QED BY <1>1, <1>2, <2>1 DEF ConvInv, ServedOK
  <1>4. CASE next_chat_event_error
    <2>1. draft' = {} /\ session' = "Failed"
      BY <1>4 DEF next_chat_event_error, Step, ConvInv, ServedOK
    <2> QED BY <1>1, <1>2, <2>1 DEF ConvInv, ServedOK, SessionStatus
  <1>5. CASE UNCHANGED convVars
    <2>1. draft' = draft /\ session' = session
      BY <1>5 DEF convVars
    <2> QED BY <1>1, <1>2, <2>1 DEF ConvInv, ServedOK
  <1> QED BY <1>3, <1>4, <1>5

LEMMA CancelStep ==
    ASSUME ConvInv, cancel_chat
    PROVE  ConvInv' /\ Moves(conv, conv')
  <1>1. PICK a \in conv.active : Step(cancel_turn(conv, a), "None")
    BY DEF cancel_chat
  <1>2. ConvOK(conv) /\ draft = {}
    BY DEF ConvInv, ServedOK, cancel_chat
  <1> DEFINE r == cancel_turn(conv, a)
  <1>3. conv' = r /\ session' = "None" /\ draft' = {}
    BY <1>1, <1>2 DEF Step
  <1>4. ConvOK(r) /\ r.turns = conv.turns /\ r.active = {}
    BY <1>2, CancelFields
  <1> HIDE DEF r
  <1>5. ConvInv'
    BY <1>3, <1>4, Settled DEF SessionStatus
  <1>6. Moves(conv, r)
    BY <1>4, GivenUp
  <1> QED BY <1>3, <1>5, <1>6

LEMMA RestoreStep ==
    ASSUME ConvInv, restore_chat_checkpoint
    PROVE  ConvInv' /\ Moves(conv, conv')
  <1>1. ConvOK(conv) /\ draft' = {}
    BY DEF ConvInv, restore_chat_checkpoint
  <1>2. decode_conversation_checkpoint(encode_conversation_checkpoint(conv)) = conv
    BY <1>1, ConversationRoundTrip
  <1>3. \/ conv.active = {} /\ conv' = conv /\ session' = "None"
        \/ \E a \in conv.active :
              /\ conv' = IF approval(conv, a.task) = "approved-executing"
                         THEN record_chat_approval(conv, a.task, "reconfirm") ELSE conv
              /\ session' = IF approval(conv, a.task) \in Pending THEN "WaitingApproval"
                                                                  ELSE "Running"
    BY <1>2 DEF restore_chat_checkpoint
  <1>4. CASE conv.active = {} /\ conv' = conv /\ session' = "None"
    <2>1. ConvInv'
      BY <1>1, <1>4, Settled DEF SessionStatus
    <2> QED BY <1>4, <2>1 DEF Moves
  <1>5. CASE \E a \in conv.active :
              /\ conv' = IF approval(conv, a.task) = "approved-executing"
                         THEN record_chat_approval(conv, a.task, "reconfirm") ELSE conv
              /\ session' = IF approval(conv, a.task) \in Pending THEN "WaitingApproval"
                                                                  ELSE "Running"
    <2>1. PICK a \in conv.active :
              /\ conv' = IF approval(conv, a.task) = "approved-executing"
                         THEN record_chat_approval(conv, a.task, "reconfirm") ELSE conv
              /\ session' = IF approval(conv, a.task) \in Pending THEN "WaitingApproval"
                                                                  ELSE "Running"
      BY <1>5
    <2>2. GroundedBy(conv, a) /\ conv.active = {a}
      BY DEF ConvInv, ConvOK, ShapeOK
    <2> DEFINE t == a.task
    <2>3. t \in 1..Len(conv.cog.tasks)
      BY <1>1 DEF ConvOK, ActiveOK, WorksOn
    <2>4. session' \in SessionStatus
      BY <2>1 DEF SessionStatus
    <2>5. CASE approval(conv, t) = "approved-executing"
      <3> DEFINE s == record(conv, t, "approval", "reconfirm")
      <3>1. conv' = s /\ session' = "WaitingApproval"
        BY <2>1, <2>5 DEF record_chat_approval, Pending
      <3> HIDE DEF t
      <3>2. /\ ConvOK(s) /\ s.turns = conv.turns /\ s.active = conv.active
            /\ s.cog.tasks = conv.cog.tasks
            /\ \A d : fact(s, t, "approval", d) = "reconfirm"
            /\ \A u, other, d : other # "approval" => fact(s, u, other, d) = fact(conv, u, other, d)
        BY <1>1, <2>3, RecordFields
      <3> HIDE DEF s
      <3>3. /\ fact(s, t, "approval", "none") = "reconfirm"
            /\ fact(s, t, "action_count", 0) = fact(conv, t, "action_count", 0)
            /\ fact(s, t, "action_protocol", 0) = fact(conv, t, "action_protocol", 0)
        BY <3>2
      <3>4. GroundedBy(s, a)
        BY <2>2, <2>5, <3>3 DEF GroundedBy, approval, t
      <3>5. ConvInv'
        BY <1>1, <2>2, <3>1, <3>2, <3>4, Settled DEF SessionStatus
      <3>6. Moves(conv, s)
        BY <1>1, <2>2, <3>2, StillOpen
      <3> QED BY <3>1, <3>5, <3>6
    <2>6. CASE approval(conv, t) # "approved-executing"
      <3>1. conv' = conv
        BY <2>1, <2>6
      <3>2. session' = "Running" => approval(conv, t) \notin {"pending", "reconfirm"}
        BY <2>1 DEF Pending
      <3>3. ConvInv'
        BY <1>1, <2>2, <2>4, <3>1, <3>2, Settled DEF approval
      <3> QED BY <3>1, <3>3 DEF Moves
    <2> QED BY <2>5, <2>6
  <1> QED BY <1>3, <1>4, <1>5

LEMMA ConversationStep ==
    ConvInv /\ [ConversationNext]_convVars => ConvInv' /\ Moves(conv, conv')
  BY SubmitStep, ReasoningStep, CommitStep, ResolveStep, AdvanceStep, EventStep, FullStep,
     OtherStep, CancelStep, RestoreStep DEF ConversationNext

LEMMA ConversationStarts == ConversationInit => ConvInv
  <1> SUFFICES ASSUME ConversationInit PROVE ConvInv
    OBVIOUS
  <1>1. /\ conv = [cog |-> CognitiveState, turns |-> <<>>, active |-> {}]
        /\ draft = {} /\ session = "None"
    BY DEF ConversationInit
  <1>2. conv.cog = CognitiveState /\ conv.turns = <<>> /\ conv.active = {}
    BY <1>1
  <1>3. /\ CognitiveState.tasks = <<>> /\ CognitiveState.world = <<>>
        /\ DOMAIN CognitiveState.memory.records = {}
    BY DEF CognitiveState, EmptyMemory
  <1>4. ShapeOK(conv)
    <2>1. CogOK(CognitiveState, ChatTasks)
      BY FreshState
    <2>2. validate_turns(<<>>)
      BY ConversationAssumption DEF validate_turns
    <2>3. <<>> \in Seq(Turn)
      OBVIOUS
    <2> QED BY <1>1, <1>2, <2>1, <2>2, <2>3 DEF ShapeOK
  <1>5. ActiveOK(conv) /\ StatusesOK(conv) /\ KeysOK(conv)
    BY <1>2, <1>3 DEF ActiveOK, StatusesOK, KeysOK
  <1>6. MatchOK(conv.cog, conv.turns)
    <2>1. Answered(conv.cog.tasks) = {} /\ Dialogues(conv.cog.memory) = {}
      BY <1>2, <1>3 DEF Answered, Dialogues
    <2>2. Cardinality({}) = 0
      BY FS_EmptySet
    <2> QED BY <1>2, <2>1, <2>2 DEF MatchOK
  <1> QED BY <1>1, <1>2, <1>4, <1>5, <1>6 DEF ConvInv, ConvOK, ServedOK, SessionStatus

LEMMA ConversationInductive == ConversationSpec => []ConvInv
  BY ConversationStarts, ConversationStep, PTL DEF ConversationSpec

(* Every conversation, and every copy a submit works on, can be            *)
(* checkpointed, and comes back from its NCS97 image unchanged: for any    *)
(* number of turns, tasks, facts and memories.                             *)
THEOREM CheckpointsRestore == ConversationSpec => []Checkpointable
  <1>1. ConvInv => Checkpointable
    BY ConversationRoundTrip DEF ConvInv, DraftOK, Checkpointable
  <1> QED BY <1>1, ConversationInductive, PTL

(* The history, the completed tasks and the dialogue memories agree, and   *)
(* only the active turn's task is at work.                                 *)
THEOREM TurnsAreTasks == ConversationSpec => []TurnsMatchTasks
  <1>1. ConvInv => TurnsMatchTasks
    <2> SUFFICES ASSUME ConvInv PROVE TurnsMatchTasks
      OBVIOUS
    <2>1. ConvOK(conv)
      BY DEF ConvInv
    <2>2. DOMAIN conv.cog.tasks = 1..Len(conv.cog.tasks)
      BY <2>1, LenProperties DEF ConvOK, ShapeOK, CogOK
    <2>3. MatchOK(conv.cog, conv.turns)
      BY <2>1 DEF ConvOK
    <2>4. {t \in DOMAIN conv.cog.tasks : conv.cog.tasks[t].status \in {"Planned", "Running"}}
             = {a.task : a \in conv.active}
      BY <2>1, <2>2 DEF ConvOK, StatusesOK, ActiveOK, WorksOn
    <2> QED BY <2>2, <2>3, <2>4 DEF TurnsMatchTasks, MatchOK, Answered, Place, Dialogues
  <1> QED BY <1>1, ConversationInductive, PTL

(* No token is generated for a turn with a plan before all of the plan is  *)
(* verified and, if it is external, approved.                              *)
THEOREM AnswersAreGrounded == ConversationSpec => []AnswerIsGrounded
  <1>1. ConvInv => AnswerIsGrounded
    <2> SUFFICES ASSUME ConvInv, NEW a \in conv.active,
                        a.tokens > 0, fact(conv, a.task, "action_count", 0) > 0
                 PROVE  /\ a.synthesis
                        /\ fact(conv, a.task, "verified_action_count", 0)
                              = fact(conv, a.task, "action_count", 0)
                        /\ approval(conv, a.task) \in {"none", "approved"}
      BY DEF AnswerIsGrounded
    <2>1. GroundedBy(conv, a) /\ a.tokens # 0
      BY DEF ConvInv
    <2> QED BY <2>1 DEF GroundedBy, approval
  <1> QED BY <1>1, ConversationInductive, PTL

(* The conversation implements the dialogue its user sees: a restart, a    *)
(* refused submit or a failed event changes nothing of it.                 *)
THEOREM DialogueImplemented == ConversationSpec => ImplementsDialogue
  <1>1. ConversationInit => D!DialogueInit
    <2> SUFFICES ASSUME ConversationInit PROVE D!DialogueInit
      OBVIOUS
    <2>1. conv.turns = <<>> /\ conv.active = {}
      BY DEF ConversationInit
    <2> QED BY <2>1 DEF D!DialogueInit
  <1>2. Moves(conv, conv') =>
          [D!Ask \/ D!Answer \/ D!Abandon]_
            <<[n \in 1 .. Len(conv.turns) \div 2 |-> conv.turns[2 * n].about],
              {a.message : a \in conv.active}>>
    BY DEF Moves, Hist, Open, D!Ask, D!Answer, D!Abandon
  <1> QED BY <1>1, <1>2, ConversationStep, ConversationInductive, PTL
       DEF ConversationSpec, ImplementsDialogue, D!DialogueSpec
=============================================================================
