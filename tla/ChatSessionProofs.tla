------------------------- MODULE ChatSessionProofs --------------------------
(***************************************************************************)
(* Theorems about the chat protocol: for any number of activities, tasks,  *)
(* tokens, recreations and deaths, with a disk that fails or not; the last *)
(* two are about one activity, which is all they hold for.                 *)
(***************************************************************************)
EXTENDS ChatSession, FiniteSetTheorems, SequenceTheorems, TLAPS

-----------------------------------------------------------------------------
(* Conversations.                                                          *)

(* The active turn is that of a running task; a committed turn is that of  *)
(* a completed task, and there is one for each.                            *)
Good(c) ==
    /\ c \in Conversation
    /\ c.active \in 0..Len(c.tasks)
    /\ c.active # 0 => c.tasks[c.active].status = "Running"
    /\ \A i \in 1..Len(c.turns) :
          c.turns[i] \in 1..Len(c.tasks) /\ c.tasks[c.turns[i]].status = "Completed"
    /\ \A i, j \in 1..Len(c.turns) : c.turns[i] = c.turns[j] => i = j

LEMMA NewGood == Good(NewConversation)
  <1>1. NewConversation \in Conversation
    BY ChatAssumption DEF NewConversation, Conversation, NoTask, Fabric
  <1> QED BY <1>1 DEF Good, NewConversation, NoTask

LEMMA GoodFields ==
    ASSUME NEW c, Good(c)
    PROVE  /\ c.tasks \in Seq(Task) /\ Len(c.tasks) \in Nat /\ DOMAIN c.tasks = 1..Len(c.tasks)
           /\ c.turns \in Seq(Nat) /\ Len(c.turns) \in Nat /\ DOMAIN c.turns = 1..Len(c.turns)
           /\ c.active \in Nat /\ c.tokens \in 0..MaxTokens /\ c.text \in BOOLEAN
           /\ c.fabric \in Fabric
           /\ c = [tasks |-> c.tasks, turns |-> c.turns, active |-> c.active,
                   tokens |-> c.tokens, text |-> c.text, fabric |-> c.fabric]
           /\ \A t \in 1..Len(c.tasks) : c.tasks[t] \in Task
           /\ c.active # 0 => c.active \in 1..Len(c.tasks)
  <1>1. /\ c.tasks \in Seq(Task) /\ c.turns \in Seq(Nat)
        /\ c.active \in Nat /\ c.tokens \in 0..MaxTokens /\ c.text \in BOOLEAN
        /\ c.fabric \in Fabric
        /\ c = [tasks |-> c.tasks, turns |-> c.turns, active |-> c.active,
                tokens |-> c.tokens, text |-> c.text, fabric |-> c.fabric]
    BY DEF Good, Conversation
  <1>2. \A t \in 1..Len(c.tasks) : c.tasks[t] \in Task
    BY <1>1, ElementOfSeq
  <1>3. c.active # 0 => c.active \in 1..Len(c.tasks)
    BY <1>1, LenProperties DEF Good
  <1> QED BY <1>1, <1>2, <1>3, LenProperties

(* The tasks of a conversation with one of them changed.                   *)
LEMMA TaskEdit ==
    ASSUME NEW ts \in Seq(Task), NEW t \in 1..Len(ts), NEW x \in Task
    PROVE  LET new == [ts EXCEPT ![t] = x] IN
           /\ new \in Seq(Task) /\ Len(new) = Len(ts) /\ new[t] = x
           /\ \A u \in 1..Len(ts) : u # t => new[u] = ts[u]
  BY ExceptSeq, LenProperties

EditStatus(ts, t, s) == [ts EXCEPT ![t] = [ts[t] EXCEPT !.status = s]]
EditApproval(ts, t, s) == [ts EXCEPT ![t] = [ts[t] EXCEPT !.approval = s]]

LEMMA StatusEdit ==
    ASSUME NEW ts \in Seq(Task), NEW t \in 1..Len(ts),
           NEW s \in {"Running", "Paused", "Completed"}
    PROVE  LET new == EditStatus(ts, t, s) IN
           /\ new \in Seq(Task) /\ Len(new) = Len(ts)
           /\ new[t].status = s /\ new[t].kind = ts[t].kind /\ new[t].approval = ts[t].approval
           /\ \A u \in 1..Len(ts) : u # t => new[u] = ts[u]
  <1> DEFINE old == ts[t]
             x == [old EXCEPT !.status = s]
             new == [ts EXCEPT ![t] = x]
  <1>1. old \in Task
    BY ElementOfSeq
  <1> HIDE DEF old
  <1>2. x \in Task /\ x.status = s /\ x.kind = old.kind /\ x.approval = old.approval
    BY <1>1 DEF Task
  <1> HIDE DEF x
  <1>3. /\ new \in Seq(Task) /\ Len(new) = Len(ts) /\ new[t] = x
        /\ \A u \in 1..Len(ts) : u # t => new[u] = ts[u]
    BY <1>2, TaskEdit
  <1> HIDE DEF new
  <1>4. EditStatus(ts, t, s) = new
    BY DEF EditStatus, new, x, old
  <1> QED BY <1>2, <1>3, <1>4 DEF old

LEMMA ApprovalEdit ==
    ASSUME NEW ts \in Seq(Task), NEW t \in 1..Len(ts), NEW s \in Approval
    PROVE  LET new == EditApproval(ts, t, s) IN
           /\ new \in Seq(Task) /\ Len(new) = Len(ts)
           /\ new[t].approval = s /\ new[t].kind = ts[t].kind /\ new[t].status = ts[t].status
           /\ \A u \in 1..Len(ts) : u # t => new[u] = ts[u]
  <1> DEFINE old == ts[t]
             x == [old EXCEPT !.approval = s]
             new == [ts EXCEPT ![t] = x]
  <1>1. old \in Task
    BY ElementOfSeq
  <1> HIDE DEF old
  <1>2. x \in Task /\ x.approval = s /\ x.kind = old.kind /\ x.status = old.status
    BY <1>1 DEF Task
  <1> HIDE DEF x
  <1>3. /\ new \in Seq(Task) /\ Len(new) = Len(ts) /\ new[t] = x
        /\ \A u \in 1..Len(ts) : u # t => new[u] = ts[u]
    BY <1>2, TaskEdit
  <1> HIDE DEF new
  <1>4. EditApproval(ts, t, s) = new
    BY DEF EditApproval, new, x, old
  <1> QED BY <1>2, <1>3, <1>4 DEF old

(* What the operations make of a conversation.                             *)
LEMMA ClearedIs ==
    ASSUME NEW c \in Conversation, NEW r, r = Cleared(c)
    PROVE  r = [tasks |-> c.tasks, turns |-> c.turns, active |-> 0,
                tokens |-> 0, text |-> FALSE, fabric |-> "none"]
  BY DEF Cleared, NoTask, Conversation

LEMMA ClearedOK ==
    ASSUME NEW c \in Conversation
    PROVE  LET r == Cleared(c) IN
           /\ r \in Conversation /\ r.tasks = c.tasks /\ r.turns = c.turns /\ r.active = 0
           /\ r.fabric = "none"
  <1> DEFINE r == Cleared(c)
  <1>1. r = [tasks |-> c.tasks, turns |-> c.turns, active |-> 0,
             tokens |-> 0, text |-> FALSE, fabric |-> "none"]
    BY ClearedIs
  <1> HIDE DEF r
  <1>2. c.tasks \in Seq(Task) /\ c.turns \in Seq(Nat)
    BY DEF Conversation
  <1>3. r \in Conversation
    BY <1>1, <1>2, ChatAssumption DEF Conversation, Fabric
  <1>4. r.tasks = c.tasks /\ r.turns = c.turns /\ r.active = 0 /\ r.fabric = "none"
    BY <1>1
  <1> QED BY <1>3, <1>4 DEF r

LEMMA TasksOK ==
    ASSUME NEW c \in Conversation, NEW ts \in Seq(Task), NEW r, r = [c EXCEPT !.tasks = ts]
    PROVE  /\ r \in Conversation /\ r.tasks = ts /\ r.turns = c.turns /\ r.active = c.active
           /\ r.fabric = c.fabric
  BY DEF Conversation

LEMMA FabricOK ==
    ASSUME NEW c \in Conversation, NEW f \in Fabric, NEW r, r = [c EXCEPT !.fabric = f]
    PROVE  /\ r \in Conversation /\ r.tasks = c.tasks /\ r.turns = c.turns
           /\ r.active = c.active /\ r.fabric = f
  BY DEF Conversation

(* The active turn is cancelled.                                           *)
LEMMA CancelGood ==
    ASSUME NEW c, Good(c), NEW t, t = c.active, t # 0
    PROVE  LET r == cancel_turn(c, t) IN
           Good(r) /\ r.active = 0 /\ Len(r.tasks) = Len(c.tasks) /\ r.fabric = "none"
  <1> DEFINE r == cancel_turn(c, t)
             ts == EditStatus(c.tasks, t, "Paused")
             d == Cleared(c)
  <1>1. c.tasks \in Seq(Task) /\ t \in 1..Len(c.tasks) /\ Len(c.tasks) \in Nat
    BY GoodFields
  <1>2. /\ d \in Conversation /\ d.tasks = c.tasks /\ d.turns = c.turns /\ d.active = 0
        /\ d.fabric = "none"
    BY ClearedOK DEF Good
  <1> HIDE DEF d
  <1>3. r = [d EXCEPT !.tasks = ts]
    BY <1>2 DEF cancel_turn, EditStatus, d
  <1>4. /\ ts \in Seq(Task) /\ Len(ts) = Len(c.tasks) /\ ts[t].status = "Paused"
        /\ \A u \in 1..Len(c.tasks) : u # t => ts[u] = c.tasks[u]
    BY <1>1, StatusEdit
  <1> HIDE DEF r, ts
  <1>5. /\ r \in Conversation /\ r.tasks = ts /\ r.turns = d.turns /\ r.active = d.active
        /\ r.fabric = d.fabric
    BY <1>2, <1>3, <1>4, TasksOK
  <1>6. \A i \in 1..Len(c.turns) : c.turns[i] # t
    BY DEF Good
  <1>7. Good(r)
    BY <1>1, <1>2, <1>4, <1>5, <1>6 DEF Good
  <1> QED BY <1>2, <1>4, <1>5, <1>7 DEF r

(* The active turn is committed.                                           *)
LEMMA CompleteGood ==
    ASSUME NEW c, Good(c), NEW t, t = c.active, t # 0
    PROVE  LET r == complete_turn(c, t) IN
           Good(r) /\ r.active = 0 /\ Len(r.tasks) = Len(c.tasks) /\ r.fabric = "none"
  <1> DEFINE r == complete_turn(c, t)
             ts == EditStatus(c.tasks, t, "Completed")
             more == Append(c.turns, t)
             d == Cleared(c)
  <1>1. /\ c.tasks \in Seq(Task) /\ c.turns \in Seq(Nat) /\ t \in 1..Len(c.tasks) /\ t \in Nat
        /\ Len(c.tasks) \in Nat /\ Len(c.turns) \in Nat
    BY GoodFields
  <1>2. /\ d \in Conversation /\ d.tasks = c.tasks /\ d.turns = c.turns /\ d.active = 0
        /\ d.fabric = "none"
    BY ClearedOK DEF Good
  <1> HIDE DEF d
  <1>3. r = [d EXCEPT !.tasks = ts, !.turns = more]
    BY <1>2 DEF complete_turn, EditStatus, d
  <1>4. /\ ts \in Seq(Task) /\ Len(ts) = Len(c.tasks) /\ ts[t].status = "Completed"
        /\ \A u \in 1..Len(c.tasks) : u # t => ts[u] = c.tasks[u]
    BY <1>1, StatusEdit
  <1>5. /\ more \in Seq(Nat) /\ Len(more) = Len(c.turns) + 1 /\ more[Len(c.turns) + 1] = t
        /\ \A i \in 1..Len(c.turns) : more[i] = c.turns[i]
    BY <1>1, AppendProperties
  <1> HIDE DEF r, ts, more
  <1>6. /\ r \in Conversation /\ r.tasks = ts /\ r.turns = more /\ r.active = d.active
        /\ r.fabric = d.fabric
    <2>1. d \in Conversation
      BY <1>2
    <2>2. ts \in Seq(Task)
      BY <1>4
    <2>3. more \in Seq(Nat)
      BY <1>5
    <2> QED BY <1>3, <2>1, <2>2, <2>3 DEF Conversation
  <1>7. \A i \in 1..Len(c.turns) :
          c.turns[i] # t /\ c.turns[i] \in 1..Len(c.tasks) /\ c.tasks[c.turns[i]].status = "Completed"
    BY DEF Good
  <1>8. \A i \in 1..Len(more) : i = Len(c.turns) + 1 \/ i \in 1..Len(c.turns)
    BY <1>1, <1>5
  <1>9. ASSUME NEW i \in 1..Len(more)
        PROVE  more[i] \in 1..Len(ts) /\ ts[more[i]].status = "Completed"
    <2>1. CASE i = Len(c.turns) + 1
      BY <1>1, <1>4, <1>5, <2>1
    <2>2. CASE i \in 1..Len(c.turns)
      <3>1. more[i] # t /\ more[i] \in 1..Len(c.tasks) /\ c.tasks[more[i]].status = "Completed"
        BY <1>5, <1>7, <2>2
      <3> QED BY <1>4, <3>1
    <2> QED BY <1>8, <2>1, <2>2
  <1>10. \A i, j \in 1..Len(more) : more[i] = more[j] => i = j
    BY <1>5, <1>7, <1>8 DEF Good
  <1>11. Good(r)
    BY <1>1, <1>2, <1>4, <1>6, <1>9, <1>10 DEF Good
  <1> QED BY <1>2, <1>4, <1>6, <1>11 DEF r

(* A token is appended.                                                    *)
LEMMA AppendGood ==
    ASSUME NEW c, Good(c), c.tokens < MaxTokens, NEW blank \in BOOLEAN
    PROVE  LET r == append_generated(c, blank) IN
           Good(r) /\ r.active = c.active /\ r.tasks = c.tasks /\ r.fabric = c.fabric
  <1> DEFINE r == append_generated(c, blank)
             n == c.tokens + 1
             x == c.text \/ ~blank
  <1>1. /\ c.tasks \in Seq(Task) /\ c.turns \in Seq(Nat) /\ c.active \in Nat
        /\ c.tokens \in 0..MaxTokens /\ c.fabric \in Fabric
        /\ c = [tasks |-> c.tasks, turns |-> c.turns, active |-> c.active,
                tokens |-> c.tokens, text |-> c.text, fabric |-> c.fabric]
    BY GoodFields
  <1>2. n \in 0..MaxTokens /\ x \in BOOLEAN
    BY <1>1, ChatAssumption
  <1>3. r = [c EXCEPT !.tokens = n, !.text = x]
    BY DEF append_generated
  <1> HIDE DEF r, n, x
  <1>4. r = [tasks |-> c.tasks, turns |-> c.turns, active |-> c.active,
             tokens |-> n, text |-> x, fabric |-> c.fabric]
    BY <1>1, <1>3
  <1>5. r \in Conversation
    BY <1>1, <1>2, <1>4 DEF Conversation
  <1>6. r.tasks = c.tasks /\ r.turns = c.turns /\ r.active = c.active /\ r.fabric = c.fabric
    BY <1>4
  <1>7. Good(r)
    BY <1>5, <1>6 DEF Good
  <1> QED BY <1>6, <1>7 DEF r

(* The approval of a task, and the state of its action, change.            *)
LEMMA ApprovalGood ==
    ASSUME NEW c, Good(c), NEW t \in 1..Len(c.tasks), NEW s \in Approval
    PROVE  LET r == set_chat_approval_status(c, t, s) IN
           /\ Good(r) /\ r.active = c.active /\ r.fabric = c.fabric /\ Len(r.tasks) = Len(c.tasks)
           /\ r.tasks[t].approval = s /\ r.tasks[t].kind = c.tasks[t].kind
           /\ r.tasks[t].status = c.tasks[t].status
  <1> DEFINE r == set_chat_approval_status(c, t, s)
             ts == EditApproval(c.tasks, t, s)
  <1>1. /\ c.tasks \in Seq(Task) /\ c.turns \in Seq(Nat) /\ c.active \in Nat
        /\ c.tokens \in 0..MaxTokens /\ c.text \in BOOLEAN /\ c.fabric \in Fabric
        /\ c = [tasks |-> c.tasks, turns |-> c.turns, active |-> c.active,
                tokens |-> c.tokens, text |-> c.text, fabric |-> c.fabric]
        /\ Len(c.tasks) \in Nat
    BY GoodFields
  <1>2. r = [c EXCEPT !.tasks = ts]
    BY DEF set_chat_approval_status, EditApproval
  <1>3. /\ ts \in Seq(Task) /\ Len(ts) = Len(c.tasks)
        /\ ts[t].approval = s /\ ts[t].kind = c.tasks[t].kind
        /\ ts[t].status = c.tasks[t].status
        /\ \A u \in 1..Len(c.tasks) : u # t => ts[u] = c.tasks[u]
    BY <1>1, ApprovalEdit
  <1> HIDE DEF r, ts
  <1>4. r = [tasks |-> ts, turns |-> c.turns, active |-> c.active,
             tokens |-> c.tokens, text |-> c.text, fabric |-> c.fabric]
    BY <1>1, <1>2
  <1>5. r \in Conversation
    BY <1>1, <1>3, <1>4 DEF Conversation
  <1>6. r.tasks = ts /\ r.turns = c.turns /\ r.active = c.active /\ r.fabric = c.fabric
    BY <1>4
  <1>7. \A u \in 1..Len(c.tasks) : ts[u].status = c.tasks[u].status
    BY <1>3
  <1>8. Good(r)
    <2>1. r.active \in 0..Len(r.tasks) /\ (r.active # 0 => r.tasks[r.active].status = "Running")
      BY <1>1, <1>3, <1>6, <1>7, SMTT(40) DEF Good
    <2>2. \A i \in 1..Len(r.turns) :
             r.turns[i] \in 1..Len(r.tasks) /\ r.tasks[r.turns[i]].status = "Completed"
      BY <1>3, <1>6, <1>7 DEF Good
    <2> QED BY <1>5, <1>6, <2>1, <2>2 DEF Good
  <1> QED BY <1>3, <1>6, <1>8 DEF r

LEMMA FabricGood ==
    ASSUME NEW c, Good(c), NEW f \in Fabric
    PROVE  LET r == [c EXCEPT !.fabric = f] IN
           Good(r) /\ r.active = c.active /\ r.tasks = c.tasks /\ r.fabric = f
  <1> DEFINE r == [c EXCEPT !.fabric = f]
  <1>1. c \in Conversation
    BY DEF Good
  <1>2. r = [c EXCEPT !.fabric = f]
    OBVIOUS
  <1> HIDE DEF r
  <1>3. /\ r \in Conversation /\ r.tasks = c.tasks /\ r.turns = c.turns
        /\ r.active = c.active /\ r.fabric = f
    BY <1>1, <1>2, FabricOK
  <1>4. Good(r)
    BY <1>3 DEF Good
  <1> QED BY <1>3, <1>4 DEF r

-----------------------------------------------------------------------------
(* The executors.                                                          *)

(* An executor's local state is what its place in the code promises: the   *)
(* snapshot or the copy it holds is a conversation, the turn it is about   *)
(* to write is one.                                                        *)
Claim(c) ==
    /\ External(c, c.active) /\ c.fabric # "Suspended"
    /\ c.tasks[c.active].approval = "approved-executing"

(* What an adapter's run makes of the conversation it was given.           *)
Follows(b, c) ==
    /\ c.active = b.active /\ Len(c.tasks) = Len(b.tasks)
    /\ c.tasks[b.active].approval \in {"approved", "reconfirm", b.tasks[b.active].approval}

Afters == {"idle", "stopped", "poll", "panel", "refused", "checkpointed"}

Held(x) ==
    /\ x.after \in Afters
    /\ x.pc \in {"reasoning", "acting"} => Good(x.base)
    /\ x.pc \in {"writing", "decoding", "approving", "denying", "acted"} => Good(x.copy)
    /\ x.pc \in {"full", "generated"} => x.task # 0
    /\ x.pc = "approving" =>
          /\ x.task # 0 /\ x.copy.active = x.task
          /\ x.copy.tasks[x.task].approval = "approved-executing"
    /\ x.pc = "acting" =>
          x.base.active # 0 /\ (Fresh(x.base) => Claim(x.base))
    /\ x.pc = "acted" => x.copy.active # 0 /\ ~Claim(x.copy) /\ Follows(x.base, x.copy)

Busy == {"reasoning", "acting", "writing", "decoding", "approving", "denying", "acted",
         "full", "generated"}

WorkersOK(f, n) ==
    /\ f \in [Workers -> WorkerType]
    /\ \A w \in Workers : f[w].req < n /\ Held(f[w])
    /\ \A v, w \in Workers : v # w /\ f[v].req # 0 => f[v].req # f[w].req

SaveAt(r, pc) ==
    [pc |-> "saving", req |-> r, task |-> NoTask, base |-> None, copy |-> None, after |-> pc]

LEMMA AtOK ==
    ASSUME NEW pc \in PC, NEW r \in Nat
    PROVE  /\ At(pc, r) \in WorkerType /\ At(pc, r).req = r /\ At(pc, r).pc = pc
           /\ pc \notin Busy => Held(At(pc, r))
  <1>1. "idle" \in PC
    BY DEF PC, AtRest
  <1>2. At(pc, r) \in WorkerType
    BY <1>1 DEF At, WorkerType, NoTask
  <1>3. At(pc, r).req = r /\ At(pc, r).pc = pc /\ At(pc, r).after = "idle"
    BY DEF At
  <1>4. pc \notin Busy => Held(At(pc, r))
    BY <1>3 DEF Held, Busy, Afters
  <1> QED BY <1>2, <1>3, <1>4

LEMMA SaveAtOK ==
    ASSUME NEW pc \in Afters, NEW r \in Nat
    PROVE  /\ SaveAt(r, pc) \in WorkerType /\ Held(SaveAt(r, pc))
           /\ SaveAt(r, pc).req = r /\ SaveAt(r, pc).pc = "saving" /\ SaveAt(r, pc).after = pc
  <1>1. "saving" \in PC /\ pc \in PC
    BY DEF PC, Streaming, Polling, AtRest, Afters
  <1>2. SaveAt(r, pc) \in WorkerType
    BY <1>1 DEF SaveAt, WorkerType, NoTask
  <1>3. SaveAt(r, pc).req = r /\ SaveAt(r, pc).pc = "saving" /\ SaveAt(r, pc).after = pc
    BY DEF SaveAt
  <1> QED BY <1>2, <1>3 DEF Held

(* Executor w goes to local state x, the others stay.                      *)
Moves(w, x) == worker' = [worker EXCEPT ![w] = x]

LEMMA GotoMoves ==
    ASSUME NEW w \in Workers, worker \in [Workers -> WorkerType], NEW pc, Goto(w, pc)
    PROVE  Moves(w, At(pc, worker[w].req))
  BY DEF Goto, Moves

LEMMA SaveMoves ==
    ASSUME NEW w \in Workers, worker \in [Workers -> WorkerType], NEW pc, SaveThen(w, pc)
    PROVE  Moves(w, SaveAt(worker[w].req, pc))
  <1> DEFINE a == At("saving", worker[w].req)
             x == [a EXCEPT !.after = pc]
  <1>1. a = [pc |-> "saving", req |-> worker[w].req, task |-> NoTask, base |-> None,
             copy |-> None, after |-> "idle"]
    BY DEF At
  <1>2. worker' = [worker EXCEPT ![w] = x]
    BY DEF SaveThen
  <1> HIDE DEF a
  <1>3. x = SaveAt(worker[w].req, pc)
    BY <1>1 DEF SaveAt
  <1> HIDE DEF x
  <1> QED BY <1>2, <1>3 DEF Moves

(* What every move keeps: the others are where they were, and the requests *)
(* stay apart, because a new one is a fresh number.                        *)
LEMMA MovesOK ==
    ASSUME NEW w \in Workers, NEW n \in Nat, NEW m \in Nat, WorkersOK(worker, n),
           NEW x \in WorkerType, Moves(w, x), Held(x), n <= m, x.req < m,
           \/ x.req \in {0, worker[w].req}
           \/ x.req = n
    PROVE  /\ WorkersOK(worker', m)
           /\ worker'[w] = x /\ \A v \in Workers : v # w => worker'[v] = worker[v]
  <1>1. worker \in [Workers -> WorkerType]
    BY DEF WorkersOK
  <1>2. /\ worker' \in [Workers -> WorkerType] /\ worker'[w] = x
        /\ \A v \in Workers : v # w => worker'[v] = worker[v]
    BY <1>1 DEF Moves
  <1>3. \A v \in Workers : worker[v].req \in Nat /\ x.req \in Nat
    BY <1>1 DEF WorkerType
  <1>4. \A v \in Workers : worker[v].req < n /\ Held(worker[v])
    BY DEF WorkersOK
  <1>5. \A v \in Workers : worker'[v].req < m /\ Held(worker'[v])
    BY <1>2, <1>3, <1>4
  <1>6. \A u, v \in Workers : u # v /\ worker[u].req # 0 => worker[u].req # worker[v].req
    BY DEF WorkersOK
  <1>7. \A u, v \in Workers : u # v /\ worker'[u].req # 0 => worker'[u].req # worker'[v].req
    BY <1>2, <1>3, <1>4, <1>6
  <1> QED BY <1>2, <1>5, <1>7 DEF WorkersOK

(* The places an executor may be at with nothing in its hands.             *)
Quiet == PC \ Busy

LEMMA QuietPlaces ==
    /\ "idle" \in Quiet /\ "stopped" \in Quiet /\ "waiting" \in Quiet /\ "refused" \in Quiet
    /\ "restoring" \in Quiet /\ "reserved" \in Quiet /\ "rejected" \in Quiet
    /\ "submitted" \in Quiet /\ "returned" \in Quiet /\ "poll" \in Quiet /\ "pending" \in Quiet
    /\ "next" \in Quiet /\ "failing" \in Quiet /\ "panel" \in Quiet /\ "cancel" \in Quiet
    /\ "checkpointed" \in Quiet /\ "cancel_flag" \in Quiet /\ "cancel_write" \in Quiet
  BY DEF Quiet, PC, Busy, Streaming, Polling, AtRest

LEMMA BusyPlaces == Busy \subseteq PC /\ "saving" \in PC
  BY DEF PC, Busy, Streaming, Polling

(* Executor w is now at pc with request r; the others have not moved.      *)
Went(w, pc, r) ==
    /\ worker'[w].pc = pc /\ worker'[w].req = r
    /\ \A v \in Workers : v # w => worker'[v] = worker[v]

LEMMA ResetOK ==
    ASSUME NEW n \in Nat, WorkersOK(worker, n), NEW w \in Workers, NEW pc \in Quiet,
           NEW r \in Nat, NEW m \in Nat, n <= m, r < m, r \in {0, worker[w].req} \/ r = n,
           worker' = [worker EXCEPT ![w] = At(pc, r)]
    PROVE  WorkersOK(worker', m) /\ Went(w, pc, r) /\ worker'[w].after = "idle"
  <1> DEFINE x == At(pc, r)
  <1>1. x \in WorkerType /\ x.req = r /\ x.pc = pc /\ Held(x)
    BY AtOK DEF Quiet
  <1>2. Moves(w, x)
    BY DEF Moves
  <1>3. x.after = "idle"
    BY DEF At
  <1> HIDE DEF x
  <1>4. x.req < m /\ (x.req \in {0, worker[w].req} \/ x.req = n)
    BY <1>1
  <1>5. x \in WorkerType /\ Held(x)
    BY <1>1
  <1>6. /\ WorkersOK(worker', m)
        /\ worker'[w] = x /\ \A v \in Workers : v # w => worker'[v] = worker[v]
    BY <1>2, <1>4, <1>5, MovesOK
  <1> QED BY <1>1, <1>3, <1>6 DEF Went

LEMMA RequestSize ==
    ASSUME NEW n \in Nat, WorkersOK(worker, n), NEW w \in Workers
    PROVE  worker[w] \in WorkerType /\ worker[w].req \in Nat /\ worker[w].req < n
  BY DEF WorkersOK, WorkerType

LEMMA GoesOK ==
    ASSUME NEW n \in Nat, WorkersOK(worker, n), NEW w \in Workers, NEW pc \in Quiet, Goto(w, pc)
    PROVE  WorkersOK(worker', n) /\ Went(w, pc, worker[w].req) /\ worker'[w].after = "idle"
  <1> DEFINE r == worker[w].req
  <1>1. r \in Nat /\ r < n /\ n <= n
    BY RequestSize
  <1>2. worker' = [worker EXCEPT ![w] = At(pc, r)]
    BY DEF Goto
  <1>3. r \in {0, worker[w].req}
    OBVIOUS
  <1> HIDE DEF r
  <1>4. WorkersOK(worker', n) /\ Went(w, pc, r) /\ worker'[w].after = "idle"
    BY <1>1, <1>2, <1>3, ResetOK
  <1> QED BY <1>4 DEF r

LEMMA SavesOK ==
    ASSUME NEW n \in Nat, WorkersOK(worker, n), NEW w \in Workers, NEW pc \in Afters,
           SaveThen(w, pc)
    PROVE  /\ WorkersOK(worker', n) /\ Went(w, "saving", worker[w].req)
           /\ worker'[w].after = pc
  <1> DEFINE x == SaveAt(worker[w].req, pc)
  <1>1. worker[w].req \in Nat /\ worker[w].req < n /\ n <= n
    BY RequestSize
  <1>2. /\ x \in WorkerType /\ Held(x) /\ x.req = worker[w].req /\ x.pc = "saving"
        /\ x.after = pc
    BY <1>1, SaveAtOK
  <1>3. Moves(w, x)
    BY SaveMoves DEF WorkersOK
  <1> HIDE DEF x
  <1>4. x.req < n /\ x.req \in {0, worker[w].req}
    BY <1>1, <1>2
  <1>5. x \in WorkerType /\ Held(x)
    BY <1>2
  <1>6. /\ WorkersOK(worker', n)
        /\ worker'[w] = x /\ \A v \in Workers : v # w => worker'[v] = worker[v]
    BY <1>1, <1>3, <1>4, <1>5, MovesOK
  <1> QED BY <1>2, <1>6 DEF Went

(* An executor that changes some of its fields and keeps its request.      *)
LEMMA FieldsOK ==
    ASSUME NEW n \in Nat, WorkersOK(worker, n), NEW w \in Workers,
           NEW x \in WorkerType, Moves(w, x), x.req = worker[w].req, Held(x)
    PROVE  /\ WorkersOK(worker', n) /\ worker'[w] = x /\ Went(w, x.pc, worker[w].req)
  <1>1. worker[w].req \in Nat /\ worker[w].req < n /\ n <= n
    BY RequestSize
  <1>2. x.req < n /\ x.req \in {0, worker[w].req}
    BY <1>1
  <1>3. /\ WorkersOK(worker', n)
        /\ worker'[w] = x /\ \A v \in Workers : v # w => worker'[v] = worker[v]
    BY <1>1, <1>2, MovesOK
  <1> QED BY <1>3 DEF Went

-----------------------------------------------------------------------------
(* The base invariant: what every variable holds.                          *)

NativeOK(c, s, n, flags) ==
    /\ Good(c)
    /\ s \in Session \cup {None}
    /\ n \in Nat \ {0}
    /\ flags \subseteq Nat
    /\ s # None => s.request < n

DiskOK(d) == d = None \/ Good(d)

UiOK(u) ==
    /\ u \in [pc : {"idle", "cancel_read", "cancel_flag", "cancel_write", "writing", "destroying"},
              req : Nat, task : Nat, copy : Conversation \cup {None}]
    /\ u.pc \in {"writing", "destroying"} => Good(u.copy)

JavaOK ==
    /\ front \in Workers
    /\ conversationRestored \subseteq Workers
    /\ chatCancelRequested \subseteq Workers
    /\ interrupted \subseteq Workers
    /\ recreations \in 0..MaxRecreations
    /\ deaths \in 0..MaxDeaths

Base ==
    /\ NativeOK(conversation, chat_session, next_chat_request_id, cancelled)
    /\ chat_submit_in_progress \in BOOLEAN
    /\ DiskOK(disk)
    /\ WorkersOK(worker, next_chat_request_id)
    /\ UiOK(ui)
    /\ JavaOK
    /\ licence \in [1..MaxTasks -> Int]

LEMMA BaseTypes == Base => TypeOK
  BY DEF Base, NativeOK, DiskOK, WorkersOK, UiOK, JavaOK, TypeOK, Good

LEMMA BaseInit == Init => Base
  <1> SUFFICES ASSUME Init PROVE Base
    OBVIOUS
  <1>1. NativeOK(conversation, chat_session, next_chat_request_id, cancelled)
    BY NewGood DEF Init, NativeOK
  <1>2. WorkersOK(worker, next_chat_request_id)
    <2>1. \A w \in Workers : \E pc \in Quiet : worker[w] = At(pc, 0)
      BY QuietPlaces DEF Init
    <2>2. \A pc \in Quiet : pc \in PC /\ pc \notin Busy
      BY DEF Quiet
    <2>3. \A w \in Workers : worker[w] \in WorkerType /\ worker[w].req = 0 /\ Held(worker[w])
      BY <2>1, <2>2, AtOK
    <2>4. worker = [w \in Workers |-> worker[w]]
      BY DEF Init
    <2>5. worker \in [Workers -> WorkerType]
      BY <2>3, <2>4
    <2> QED BY <2>3, <2>5 DEF WorkersOK, Init
  <1>3. UiOK(ui)
    BY DEF Init, UiOK, UiIdle, NoTask
  <1>4. JavaOK
    BY ChatAssumption DEF Init, JavaOK
  <1>5. licence \in [1..MaxTasks -> Int]
    BY DEF Init
  <1>6. DiskOK(disk) /\ chat_submit_in_progress \in BOOLEAN
    BY DEF Init, DiskOK
  <1> QED BY <1>1, <1>2, <1>3, <1>4, <1>5, <1>6 DEF Base

-----------------------------------------------------------------------------
(* What each action does to the executor, and that it keeps Base.          *)

LEMMA BaseParts ==
    ASSUME Base
    PROVE  /\ next_chat_request_id \in Nat
           /\ WorkersOK(worker, next_chat_request_id)
           /\ Good(conversation) /\ DiskOK(disk)
           /\ chat_session # None =>
                /\ chat_session \in Session /\ chat_session.request < next_chat_request_id
                /\ chat_session.request \in Nat \ {0} /\ chat_session.task \in Nat \ {0}
  BY DEF Base, NativeOK, Session

LEMMA SessionStatus ==
    ASSUME NEW s \in Session, NEW status \in ChatStatus, NEW r, r = [s EXCEPT !.status = status]
    PROVE  r \in Session /\ r.request = s.request /\ r.task = s.task /\ r.status = status
  BY DEF Session

LEMMA SavingBase ==
    ASSUME Base, NEW w \in Workers, saving(w)
    PROVE  Base' /\ Went(w, "writing", worker[w].req) /\ worker'[w].after = worker[w].after
  <1> DEFINE y == worker[w]
             x == [y EXCEPT !.pc = "writing", !.copy = conversation]
             n == next_chat_request_id
  <1>1. n \in Nat /\ WorkersOK(worker, n) /\ y \in WorkerType /\ conversation \in Conversation
    BY BaseParts, RequestSize DEF Good
  <1>2. Moves(w, x)
    BY DEF saving, Moves
  <1>3. "writing" \in PC
    BY BusyPlaces DEF Busy
  <1> HIDE DEF y
  <1>4. x \in WorkerType /\ x.req = y.req /\ x.pc = "writing" /\ x.copy = conversation
        /\ x.after = y.after
    BY <1>1, <1>3 DEF WorkerType
  <1> HIDE DEF x
  <1>5. Held(x)
    BY <1>1, <1>4, BaseParts DEF Held, WorkersOK, y
  <1>6. x \in WorkerType /\ x.req = worker[w].req
    BY <1>4 DEF y
  <1>7. WorkersOK(worker', n) /\ worker'[w] = x /\ Went(w, x.pc, worker[w].req)
    BY <1>1, <1>2, <1>5, <1>6, FieldsOK
  <1>8. JavaOK'
    BY DEF saving, activity, Base, JavaOK
  <1>9. Base'
    BY <1>7, <1>8 DEF saving, native, Base
  <1> QED BY <1>4, <1>7, <1>9 DEF y

(* Resume ends an executor that was shut down, goes on with the stream, or *)
(* lets go of the request.                                                 *)
LEMMA ResumeOK ==
    ASSUME NEW n \in Nat, n # 0, WorkersOK(worker, n), NEW w \in Workers, NEW pc \in Afters,
           worker' = [worker EXCEPT ![w] = Resume(w, pc)]
    PROVE  /\ WorkersOK(worker', n) /\ worker'[w].after = "idle"
           /\ \/ Went(w, "stopped", 0) /\ (pc = "stopped" \/ w \in interrupted)
              \/ Went(w, "idle", 0) /\ pc = "idle"
              \/ Went(w, "poll", worker[w].req) /\ pc \in {"poll", "checkpointed"}
              \/ Went(w, pc, worker[w].req) /\ pc \in {"panel", "refused"}
  <1> DEFINE r == worker[w].req
  <1>1. r \in Nat /\ r < n /\ n <= n /\ 0 < n
    BY RequestSize
  <1>2. \/ Resume(w, pc) = At("stopped", 0) /\ (pc = "stopped" \/ w \in interrupted)
        \/ Resume(w, pc) = At("idle", 0) /\ pc = "idle"
        \/ Resume(w, pc) = At("poll", r) /\ pc \in {"poll", "checkpointed"}
        \/ Resume(w, pc) = At(pc, r) /\ pc \in {"panel", "refused"}
    BY DEF Resume, Afters, AtRest
  <1>3. r \in {0, worker[w].req} /\ 0 \in {0, worker[w].req}
    OBVIOUS
  <1> HIDE DEF r
  <1>4. CASE Resume(w, pc) = At("stopped", 0) /\ (pc = "stopped" \/ w \in interrupted)
    <2>1. WorkersOK(worker', n) /\ Went(w, "stopped", 0) /\ worker'[w].after = "idle"
      BY <1>1, <1>3, <1>4, ResetOK, QuietPlaces
    <2> QED BY <1>4, <2>1
  <1>5. CASE Resume(w, pc) = At("idle", 0) /\ pc = "idle"
    <2>1. WorkersOK(worker', n) /\ Went(w, "idle", 0) /\ worker'[w].after = "idle"
      BY <1>1, <1>3, <1>5, ResetOK, QuietPlaces
    <2> QED BY <1>5, <2>1
  <1>6. CASE Resume(w, pc) = At("poll", r) /\ pc \in {"poll", "checkpointed"}
    <2>1. WorkersOK(worker', n) /\ Went(w, "poll", r) /\ worker'[w].after = "idle"
      BY <1>1, <1>3, <1>6, ResetOK, QuietPlaces
    <2> QED BY <1>6, <2>1 DEF r
  <1>7. CASE Resume(w, pc) = At(pc, r) /\ pc \in {"panel", "refused"}
    <2>1. pc \in Quiet
      BY <1>7, QuietPlaces
    <2>2. WorkersOK(worker', n) /\ Went(w, pc, r) /\ worker'[w].after = "idle"
      BY <1>1, <1>3, <1>7, <2>1, ResetOK
    <2> QED BY <1>7, <2>2 DEF r
  <1> QED BY <1>2, <1>4, <1>5, <1>6, <1>7

LEMMA WritingBase ==
    ASSUME Base, NEW w \in Workers, NEW written \in BOOLEAN, writing(w, written)
    PROVE  /\ Base'
           /\ \/ Went(w, "saving", worker[w].req) /\ worker'[w].after = "idle"
                 /\ worker[w].after = "checkpointed" /\ DiskMayFail
              \/ Went(w, "stopped", 0) /\ (worker[w].after = "stopped" \/ w \in interrupted)
              \/ Went(w, "idle", 0) /\ worker[w].after = "idle"
              \/ Went(w, "poll", worker[w].req) /\ worker[w].after \in {"poll", "checkpointed"}
              \/ Went(w, worker[w].after, worker[w].req) /\ worker[w].after \in {"panel", "refused"}
  <1> DEFINE n == next_chat_request_id
             a == worker[w].after
  <1>1. n \in Nat /\ n # 0 /\ WorkersOK(worker, n)
    BY DEF Base, NativeOK
  <1>2. a \in Afters /\ Good(worker[w].copy)
    BY <1>1 DEF WorkersOK, Held, writing
  <1>3. /\ WorkersOK(worker', n)
        /\ \/ Went(w, "saving", worker[w].req) /\ worker'[w].after = "idle"
                 /\ a = "checkpointed" /\ DiskMayFail
           \/ Went(w, "stopped", 0) /\ (a = "stopped" \/ w \in interrupted)
           \/ Went(w, "idle", 0) /\ a = "idle"
           \/ Went(w, "poll", worker[w].req) /\ a \in {"poll", "checkpointed"}
           \/ Went(w, a, worker[w].req) /\ a \in {"panel", "refused"}
    <2>1. CASE a = "checkpointed" /\ ~written
      <3>1. SaveThen(w, "idle") /\ "idle" \in Afters
        BY <2>1 DEF writing, finishChatUi, Afters
      <3>2. WorkersOK(worker', n) /\ Went(w, "saving", worker[w].req) /\ worker'[w].after = "idle"
        BY <1>1, <3>1, SavesOK
      <3> QED BY <2>1, <3>2 DEF writing
    <2>2. CASE ~(a = "checkpointed" /\ ~written)
      <3>1. worker' = [worker EXCEPT ![w] = Resume(w, a)]
        BY <2>2 DEF writing
      <3> HIDE DEF a
      <3> QED BY <1>1, <1>2, <3>1, ResumeOK
    <2> QED BY <2>1, <2>2
  <1>4. DiskOK(disk')
    BY <1>2 DEF writing, DiskOK, Base
  <1>5. JavaOK'
    BY DEF writing, java, activity, Base, JavaOK
  <1>6. Base'
    BY <1>3, <1>4, <1>5 DEF writing, native, Base
  <1> QED BY <1>3, <1>6

LEMMA SubmitBase ==
    ASSUME Base, NEW w \in Workers, submit_chat(w)
    PROVE  /\ Base'
           /\ \/ Went(w, "saving", worker[w].req) /\ worker'[w].after = "idle"
                 /\ UNCHANGED <<conversation, chat_session>>
              \/ Went(w, "reserved", worker[w].req) /\ ~chat_session_active
                 /\ \/ UNCHANGED <<conversation, chat_session>>
                    \/ chat_session' = None /\ conversation'.active = 0
                       /\ Len(conversation'.tasks) = Len(conversation.tasks)
  <1> DEFINE n == next_chat_request_id
  <1>1. n \in Nat /\ WorkersOK(worker, n)
    BY BaseParts
  <1>2. CASE chat_submit_in_progress \/ chat_session_active
    <2>1. SaveThen(w, "idle") /\ "idle" \in Afters
      BY <1>2 DEF submit_chat, finishChatUi, Afters
    <2>2. WorkersOK(worker', n) /\ Went(w, "saving", worker[w].req) /\ worker'[w].after = "idle"
      BY <1>1, <2>1, SavesOK
    <2>3. JavaOK'
      BY DEF submit_chat, activity, Base, JavaOK
    <2>4. Base' /\ UNCHANGED <<conversation, chat_session>>
      BY <1>2, <2>2, <2>3 DEF submit_chat, Base
    <2> QED BY <2>2, <2>4
  <1>3. CASE ~(chat_submit_in_progress \/ chat_session_active)
    <2>1. Goto(w, "reserved")
      BY <1>3 DEF submit_chat
    <2>2. WorkersOK(worker', n) /\ Went(w, "reserved", worker[w].req)
      BY <1>1, <2>1, GoesOK, QuietPlaces
    <2>3. JavaOK'
      BY DEF submit_chat, activity, Base, JavaOK
    <2>4. \/ UNCHANGED <<conversation, chat_session>>
          \/ chat_session' = None /\ conversation'.active = 0 /\ Good(conversation')
             /\ Len(conversation'.tasks) = Len(conversation.tasks)
      <3>1. conversation.active # 0 =>
              /\ Good(cancel_turn(conversation, conversation.active))
              /\ cancel_turn(conversation, conversation.active).active = 0
              /\ Len(cancel_turn(conversation, conversation.active).tasks) =
                   Len(conversation.tasks)
        BY BaseParts, CancelGood
      <3> QED BY <1>3, <3>1 DEF submit_chat, NoTask
    <2>5. NativeOK(conversation, chat_session, next_chat_request_id, cancelled)'
      BY <2>4 DEF submit_chat, Base, NativeOK
    <2>6. chat_submit_in_progress' \in BOOLEAN
      BY <1>3 DEF submit_chat
    <2>7. Base'
      BY <2>2, <2>3, <2>5, <2>6 DEF submit_chat, Base
    <2> QED BY <1>3, <2>2, <2>4, <2>7
  <1> QED BY <1>2, <1>3

(* Many actions only move the executor.                                    *)
LEMMA OnlyWorker ==
    ASSUME Base, UNCHANGED <<native, disk, java, ui, licence>>,
           WorkersOK(worker', next_chat_request_id)
    PROVE  Base'
  <1>1. JavaOK'
    BY DEF java, activity, Base, JavaOK
  <1> QED BY <1>1 DEF native, Base

LEMMA SnapshotBase ==
    ASSUME Base, NEW w \in Workers, submit_chat_snapshot(w)
    PROVE  /\ Base'
           /\ \/ Went(w, "rejected", worker[w].req)
              \/ Went(w, "reasoning", worker[w].req)
           /\ worker'[w].after \in {"idle", worker[w].after}
  <1> DEFINE n == next_chat_request_id
             y == worker[w]
             x == [y EXCEPT !.pc = "reasoning", !.base = conversation]
  <1>1. n \in Nat /\ WorkersOK(worker, n) /\ y \in WorkerType /\ conversation \in Conversation
    BY BaseParts, RequestSize DEF Good
  <1>2. CASE Goto(w, "rejected")
    <2>1. /\ WorkersOK(worker', n) /\ Went(w, "rejected", worker[w].req)
          /\ worker'[w].after = "idle"
      BY <1>1, <1>2, GoesOK, QuietPlaces
    <2> QED BY <2>1, OnlyWorker DEF submit_chat_snapshot
  <1>3. CASE worker' = [worker EXCEPT ![w].pc = "reasoning", ![w].base = conversation]
    <2>1. Moves(w, x)
      BY <1>3 DEF Moves
    <2>2. "reasoning" \in PC
      BY BusyPlaces DEF Busy
    <2> HIDE DEF y
    <2>3. x \in WorkerType /\ x.req = y.req /\ x.pc = "reasoning" /\ x.base = conversation
          /\ x.after = y.after
      BY <1>1, <2>2 DEF WorkerType
    <2> HIDE DEF x
    <2>4. Held(x)
      BY <1>1, <2>3, BaseParts DEF Held, WorkersOK, y
    <2>5. x \in WorkerType /\ x.req = worker[w].req
      BY <2>3 DEF y
    <2>6. WorkersOK(worker', n) /\ worker'[w] = x /\ Went(w, x.pc, worker[w].req)
      BY <1>1, <2>1, <2>4, <2>5, FieldsOK
    <2> QED BY <2>3, <2>6, OnlyWorker DEF submit_chat_snapshot, y
  <1> QED BY <1>2, <1>3 DEF submit_chat_snapshot

LEMMA FailedBase ==
    ASSUME Base, NEW w \in Workers, submit_chat_failed(w)
    PROVE  Base' /\ Went(w, "rejected", worker[w].req) /\ worker'[w].after = "idle"
  <1>1. /\ WorkersOK(worker', next_chat_request_id) /\ Went(w, "rejected", worker[w].req)
        /\ worker'[w].after = "idle"
    BY BaseParts, GoesOK, QuietPlaces DEF submit_chat_failed
  <1> QED BY <1>1, OnlyWorker DEF submit_chat_failed

(* A turn begins: its task is a new one.                                   *)
LEMMA PlannedGood ==
    ASSUME NEW c, Good(c), NEW kind \in Kinds, NEW f \in Fabric
    PROVE  LET r == Planned(c, kind, f) IN
           /\ Good(r) /\ r.active = Len(c.tasks) + 1 /\ r.fabric = f
           /\ Len(r.tasks) = Len(c.tasks) + 1
           /\ r.tasks[r.active].kind = kind
           /\ r.tasks[r.active].approval = IF kind = "external" THEN "pending" ELSE "none"
  <1> DEFINE k == [kind |-> kind, status |-> "Running",
                   approval |-> IF kind = "external" THEN "pending" ELSE "none"]
             ts == Append(c.tasks, k)
             n == Len(c.tasks) + 1
             b == begin_turn(c, kind)
             r == [b EXCEPT !.fabric = f]
  <1>1. c \in Conversation /\ c.tasks \in Seq(Task) /\ Len(c.tasks) \in Nat
    BY GoodFields DEF Good
  <1>2. /\ k \in Task /\ k.kind = kind /\ k.status = "Running"
        /\ k.approval = IF kind = "external" THEN "pending" ELSE "none"
    BY ChatAssumption DEF Task, Approval
  <1> HIDE DEF k
  <1>3. /\ ts \in Seq(Task) /\ Len(ts) = n /\ ts[n] = k
        /\ \A u \in 1..Len(c.tasks) : ts[u] = c.tasks[u]
    BY <1>1, <1>2, AppendProperties
  <1>4. b = [c EXCEPT !.tasks = ts, !.active = n]
    BY DEF begin_turn, k
  <1>5. n \in Nat
    BY <1>1
  <1> HIDE DEF ts, n, b
  <1>6. b \in Conversation /\ b.tasks = ts /\ b.turns = c.turns /\ b.active = n
    BY <1>1, <1>3, <1>4, <1>5 DEF Conversation
  <1>7. r = [b EXCEPT !.fabric = f]
    OBVIOUS
  <1> HIDE DEF r
  <1>8. /\ r \in Conversation /\ r.tasks = b.tasks /\ r.turns = b.turns
        /\ r.active = b.active /\ r.fabric = f
    BY <1>6, <1>7, FabricOK
  <1>9. r.tasks = ts /\ r.turns = c.turns /\ r.active = n
    BY <1>6, <1>8
  <1>10. \A i \in 1..Len(c.turns) :
           c.turns[i] \in 1..Len(ts) /\ ts[c.turns[i]].status = "Completed"
    <2>1. 1..Len(c.tasks) \subseteq 1..Len(ts)
      BY <1>1, <1>3 DEF n
    <2>2. \A i \in 1..Len(c.turns) :
            c.turns[i] \in 1..Len(c.tasks) /\ c.tasks[c.turns[i]].status = "Completed"
      BY DEF Good
    <2> QED BY <1>3, <2>1, <2>2
  <1>11. \A i, j \in 1..Len(c.turns) : c.turns[i] = c.turns[j] => i = j
    BY DEF Good
  <1>12. n \in 0..Len(ts) /\ ts[n].status = "Running"
    BY <1>2, <1>3, <1>5
  <1>13. Good(r)
    BY <1>8, <1>9, <1>10, <1>11, <1>12 DEF Good
  <1>14. Planned(c, kind, f) = r
    BY <1>7 DEF Planned, b
  <1> QED BY <1>2, <1>3, <1>8, <1>9, <1>13, <1>14 DEF n

LEMMA CommitBase ==
    ASSUME Base, NEW w \in Workers, NEW kind \in Kinds, NEW fabric \in Fabric,
           submit_chat_commit(w, kind, fabric)
    PROVE  /\ Base' /\ Went(w, "submitted", next_chat_request_id) /\ worker'[w].after = "idle"
           /\ conversation'.active = chat_session'.task
           /\ conversation'.active = Len(conversation.tasks) + 1
           /\ Len(conversation'.tasks) = Len(conversation.tasks) + 1
           /\ conversation'.active \in Nat \ {0}
           /\ chat_session'.request = next_chat_request_id /\ chat_session' \in Session
           /\ conversation'.tasks[conversation'.active].kind = kind
           /\ conversation'.tasks[conversation'.active].approval =
                IF kind = "external" THEN "pending" ELSE "none"
           /\ chat_session'.status = IF kind = "external" THEN "WaitingApproval" ELSE "Running"
  <1> DEFINE n == next_chat_request_id
             c == Planned(conversation, kind, fabric)
  <1>1. n \in Nat \ {0} /\ n \in Nat /\ WorkersOK(worker, n)
    BY DEF Base, NativeOK
  <1>2. /\ Good(c) /\ c.active = Len(conversation.tasks) + 1 /\ c.fabric = fabric
        /\ Len(c.tasks) = Len(conversation.tasks) + 1
        /\ c.tasks[c.active].kind = kind
        /\ c.tasks[c.active].approval = IF kind = "external" THEN "pending" ELSE "none"
    BY BaseParts, PlannedGood
  <1>3. conversation' = c
    BY DEF submit_chat_commit
  <1>4. c.active \in Nat \ {0}
    BY <1>2, BaseParts, GoodFields
  <1> HIDE DEF c
  <1>5. chat_session' = [request |-> n, task |-> c.active,
                         status |-> IF kind = "external" THEN "WaitingApproval" ELSE "Running"]
    BY <1>3 DEF submit_chat_commit
  <1>6. /\ chat_session' \in Session /\ chat_session'.request = n
        /\ chat_session'.task = c.active
        /\ chat_session'.status = IF kind = "external" THEN "WaitingApproval" ELSE "Running"
    BY <1>1, <1>4, <1>5 DEF Session, ChatStatus
  <1>7. next_chat_request_id' = n + 1 /\ n + 1 \in Nat \ {0} /\ n < n + 1 /\ n <= n + 1
    BY <1>1 DEF submit_chat_commit
  <1>8. worker' = [worker EXCEPT ![w] = At("submitted", n)]
    BY DEF submit_chat_commit
  <1>9. WorkersOK(worker', n + 1) /\ Went(w, "submitted", n) /\ worker'[w].after = "idle"
    <2>1. n + 1 \in Nat /\ "submitted" \in Quiet
      BY <1>7, QuietPlaces
    <2> QED BY <1>1, <1>7, <1>8, <2>1, ResetOK
  <1>10. NativeOK(conversation, chat_session, next_chat_request_id, cancelled)'
    <2>1. cancelled' \subseteq Nat
      BY DEF submit_chat_commit, Base, NativeOK
    <2> QED BY <1>2, <1>3, <1>6, <1>7, <2>1 DEF NativeOK
  <1>11. JavaOK'
    BY DEF submit_chat_commit, java, activity, Base, JavaOK
  <1>12. Base'
    BY <1>7, <1>9, <1>10, <1>11 DEF submit_chat_commit, Base
  <1> QED BY <1>2, <1>3, <1>4, <1>6, <1>9, <1>12

LEMMA ReleaseBase ==
    ASSUME Base, NEW w \in Workers, submit_chat_release(w)
    PROVE  /\ Base'
           /\ \/ Went(w, "returned", worker[w].req) /\ worker[w].pc = "submitted"
              \/ Went(w, "saving", worker[w].req) /\ worker[w].pc = "rejected"
                 /\ worker'[w].after = "idle"
  <1> DEFINE n == next_chat_request_id
  <1>1. n \in Nat /\ WorkersOK(worker, n)
    BY BaseParts
  <1>2. /\ WorkersOK(worker', n)
        /\ \/ Went(w, "returned", worker[w].req) /\ worker[w].pc = "submitted"
           \/ Went(w, "saving", worker[w].req) /\ worker[w].pc = "rejected"
              /\ worker'[w].after = "idle"
    <2>1. CASE worker[w].pc = "submitted"
      <3>1. Goto(w, "returned")
        BY <2>1 DEF submit_chat_release
      <3>2. WorkersOK(worker', n) /\ Went(w, "returned", worker[w].req)
        BY <1>1, <3>1, GoesOK, QuietPlaces
      <3> QED BY <2>1, <3>2
    <2>2. CASE worker[w].pc = "rejected"
      <3>1. SaveThen(w, "idle") /\ "idle" \in Afters
        BY <2>2 DEF submit_chat_release, finishChatUi, Afters
      <3>2. WorkersOK(worker', n) /\ Went(w, "saving", worker[w].req) /\ worker'[w].after = "idle"
        BY <1>1, <3>1, SavesOK
      <3> QED BY <2>2, <3>2
    <2> QED BY <2>1, <2>2 DEF submit_chat_release
  <1>3. JavaOK'
    BY DEF submit_chat_release, java, activity, Base, JavaOK
  <1>4. Base'
    BY <1>2, <1>3 DEF submit_chat_release, Base
  <1> QED BY <1>2, <1>4

LEMMA SubmitChatBase ==
    ASSUME Base, NEW w \in Workers, submitChat(w)
    PROVE  /\ Base'
           /\ \/ Went(w, "cancel", worker[w].req) /\ w \in chatCancelRequested
                 /\ worker'[w].after = "poll"
              \/ Went(w, "poll", worker[w].req) /\ w \notin chatCancelRequested
  <1> DEFINE n == next_chat_request_id
             r == worker[w].req
             a == At("cancel", r)
             x == [a EXCEPT !.after = "poll"]
  <1>1. n \in Nat /\ WorkersOK(worker, n) /\ r \in Nat
    BY BaseParts, RequestSize
  <1>2. CASE w \in chatCancelRequested
    <2>1. Moves(w, x)
      BY <1>2 DEF submitChat, Moves
    <2>2. "cancel" \in PC /\ "poll" \in PC /\ "cancel" \notin Busy
      BY QuietPlaces DEF Quiet
    <2>3. a \in WorkerType /\ a.req = r /\ a.pc = "cancel"
      BY <1>1, <2>2, AtOK
    <2> HIDE DEF a
    <2>4. x \in WorkerType /\ x.req = r /\ x.pc = "cancel" /\ x.after = "poll"
      BY <2>2, <2>3 DEF WorkerType
    <2> HIDE DEF x
    <2>5. Held(x)
      BY <2>4 DEF Held, Afters
    <2>6. x \in WorkerType /\ x.req = worker[w].req
      BY <2>4
    <2>7. WorkersOK(worker', n) /\ worker'[w] = x /\ Went(w, x.pc, worker[w].req)
      BY <1>1, <2>1, <2>5, <2>6, FieldsOK
    <2> QED BY <1>2, <2>4, <2>7, OnlyWorker DEF submitChat
  <1>3. CASE w \notin chatCancelRequested
    <2>1. Goto(w, "poll")
      BY <1>3 DEF submitChat, Goto
    <2>2. WorkersOK(worker', n) /\ Went(w, "poll", worker[w].req)
      BY <1>1, <2>1, GoesOK, QuietPlaces
    <2> QED BY <1>3, <2>2, OnlyWorker DEF submitChat
  <1> QED BY <1>2, <1>3

LEMMA TerminalBase ==
    ASSUME Base, NEW w \in Workers, terminal_chat_event(w)
    PROVE  /\ Base'
           /\ \/ Went(w, "saving", worker[w].req) /\ w \in interrupted
                 /\ worker'[w].after = "stopped"
              \/ Went(w, "stopped", worker[w].req) /\ w \in interrupted
              \/ Went(w, "pending", worker[w].req)
              \/ Went(w, "saving", worker[w].req) /\ MineIs(w, "WaitingApproval")
                 /\ worker'[w].after = "panel"
              \/ Went(w, "saving", worker[w].req) /\ ~chat_session_active
                 /\ worker'[w].after = "idle"
  <1> DEFINE n == next_chat_request_id
  <1>1. n \in Nat /\ WorkersOK(worker, n)
    BY BaseParts
  <1>2. "stopped" \in Afters /\ "panel" \in Afters /\ "idle" \in Afters
    BY DEF Afters
  <1>3. CASE w \in interrupted /\ SaveThen(w, "stopped")
    <2>1. WorkersOK(worker', n) /\ Went(w, "saving", worker[w].req) /\ worker'[w].after = "stopped"
      BY <1>1, <1>2, <1>3, SavesOK
    <2> QED BY <1>3, <2>1, OnlyWorker DEF terminal_chat_event
  <1>4. CASE w \in interrupted /\ Goto(w, "stopped")
    <2>1. WorkersOK(worker', n) /\ Went(w, "stopped", worker[w].req)
      BY <1>1, <1>4, GoesOK, QuietPlaces
    <2> QED BY <1>4, <2>1, OnlyWorker DEF terminal_chat_event
  <1>5. CASE Goto(w, "pending")
    <2>1. WorkersOK(worker', n) /\ Went(w, "pending", worker[w].req)
      BY <1>1, <1>5, GoesOK, QuietPlaces
    <2> QED BY <2>1, OnlyWorker DEF terminal_chat_event
  <1>6. CASE MineIs(w, "WaitingApproval") /\ SaveThen(w, "panel")
    <2>1. WorkersOK(worker', n) /\ Went(w, "saving", worker[w].req) /\ worker'[w].after = "panel"
      BY <1>1, <1>2, <1>6, SavesOK
    <2> QED BY <1>6, <2>1, OnlyWorker DEF terminal_chat_event
  <1>7. CASE ~chat_session_active /\ finishChatUi(w)
    <2>1. WorkersOK(worker', n) /\ Went(w, "saving", worker[w].req) /\ worker'[w].after = "idle"
      BY <1>1, <1>2, <1>7, SavesOK DEF finishChatUi
    <2> QED BY <1>7, <2>1, OnlyWorker DEF terminal_chat_event
  <1> QED BY <1>3, <1>4, <1>5, <1>6, <1>7 DEF terminal_chat_event

(* The plan runs on the conversation as it is, an external one only on an  *)
(* approval.                                                               *)
LEMMA AdvanceBase ==
    ASSUME Base, NEW w \in Workers, advance_pending_chat_actions(w)
    PROVE  /\ Base'
           /\ \/ Went(w, "failing", worker[w].req)
              \/ Went(w, "next", worker[w].req) /\ MineIs(w, "Running")
              \/ Went(w, "acting", worker[w].req) /\ MineIs(w, "Running")
                 /\ worker'[w].base = conversation
                 /\ conversation.active = chat_session.task
                 /\ (Fresh(conversation) => Claim(conversation))
           /\ worker'[w].after \in {"idle", worker[w].after}
  <1> DEFINE n == next_chat_request_id
             y == worker[w]
             x == [y EXCEPT !.pc = "acting", !.base = conversation]
  <1>1. n \in Nat /\ WorkersOK(worker, n) /\ y \in WorkerType /\ conversation \in Conversation
    BY BaseParts, RequestSize DEF Good
  <1>2. CASE Goto(w, "failing")
    <2>1. /\ WorkersOK(worker', n) /\ Went(w, "failing", worker[w].req)
          /\ worker'[w].after = "idle"
      BY <1>1, <1>2, GoesOK, QuietPlaces
    <2> QED BY <2>1, OnlyWorker DEF advance_pending_chat_actions
  <1>3. CASE Goto(w, "next") /\ MineIs(w, "Running")
    <2>1. WorkersOK(worker', n) /\ Went(w, "next", worker[w].req) /\ worker'[w].after = "idle"
      BY <1>1, <1>3, GoesOK, QuietPlaces
    <2> QED BY <1>3, <2>1, OnlyWorker DEF advance_pending_chat_actions
  <1>4. CASE /\ MineIs(w, "Running") /\ conversation.active = chat_session.task
             /\ ~( /\ External(conversation, chat_session.task)
                   /\ conversation.tasks[chat_session.task].approval # "approved-executing")
             /\ worker' = [worker EXCEPT ![w].pc = "acting", ![w].base = conversation]
    <2>1. Moves(w, x)
      BY <1>4 DEF Moves
    <2>2. "acting" \in PC
      BY BusyPlaces DEF Busy
    <2> HIDE DEF y
    <2>3. x \in WorkerType /\ x.req = y.req /\ x.pc = "acting" /\ x.base = conversation
          /\ x.after = y.after
      BY <1>1, <2>2 DEF WorkerType
    <2> HIDE DEF x
    <2>4. Fresh(conversation) => Claim(conversation)
      BY <1>4 DEF Fresh, Claim
    <2>5. conversation.active # 0
      BY <1>4, BaseParts DEF MineIs, Mine
    <2>6. Held(x)
      BY <1>1, <2>3, <2>4, <2>5, BaseParts DEF Held, WorkersOK, y
    <2>7. x \in WorkerType /\ x.req = worker[w].req
      BY <2>3 DEF y
    <2>8. WorkersOK(worker', n) /\ worker'[w] = x /\ Went(w, x.pc, worker[w].req)
      BY <1>1, <2>1, <2>6, <2>7, FieldsOK
    <2>9. Base'
      BY <2>8, OnlyWorker DEF advance_pending_chat_actions
    <2> QED BY <1>4, <2>3, <2>4, <2>8, <2>9 DEF y
  <1> QED BY <1>2, <1>3, <1>4 DEF advance_pending_chat_actions

(* What an adapter's run leaves is a conversation that claims no further   *)
(* call: the write is done, suspended, or to be confirmed again.           *)
LEMMA AdvancedGood ==
    ASSUME NEW c, Good(c), c.active # 0, Fresh(c) => Claim(c),
           NEW o \in {"Completed", "Suspended", "Retryable"}
    PROVE  /\ Good(Advanced(c, o)) /\ Advanced(c, o).active = c.active
           /\ ~Claim(Advanced(c, o)) /\ Follows(c, Advanced(c, o))
  <1> DEFINE f == IF o = "Completed" THEN "none" ELSE o
             s == [c EXCEPT !.fabric = f]
             a == c.active
  <1>1. f \in Fabric
    BY DEF Fabric
  <1>2. a \in 1..Len(c.tasks) /\ c.tasks[a] \in Task
    BY GoodFields
  <1> HIDE DEF f, a
  <1>3. Good(s) /\ s.active = c.active /\ s.tasks = c.tasks /\ s.fabric = f
    BY <1>1, FabricGood
  <1> HIDE DEF s
  <1>4. \/ /\ o = "Completed" /\ External(c, a)
           /\ Advanced(c, o) = set_chat_approval_status(s, a, "approved")
        \/ /\ External(s, a) /\ s.fabric = "Retryable"
           /\ Advanced(c, o) = set_chat_approval_status(s, a, "reconfirm")
        \/ /\ ~(o = "Completed" /\ External(c, a)) /\ ~(External(s, a) /\ s.fabric = "Retryable")
           /\ Advanced(c, o) = s
    <2>1. Advanced(c, o) = CASE o = "Completed" /\ External(c, a) ->
                                  set_chat_approval_status(s, a, "approved")
                             [] External(s, a) /\ s.fabric = "Retryable" ->
                                  set_chat_approval_status(s, a, "reconfirm")
                             [] OTHER -> s
      BY <1>3 DEF Advanced, action_checkpoint_requires_reconfirm, s, f, a
    <2>2. ~(o = "Completed" /\ External(s, a) /\ s.fabric = "Retryable")
      BY <1>3 DEF f
    <2> QED BY <2>1, <2>2
  <1>5. ASSUME NEW st \in {"approved", "reconfirm"}
        PROVE  LET r == set_chat_approval_status(s, a, st) IN
               Good(r) /\ r.active = c.active /\ ~Claim(r) /\ Follows(c, r)
    <2> DEFINE r == set_chat_approval_status(s, a, st)
    <2>1. a \in 1..Len(s.tasks) /\ st \in Approval
      BY <1>2, <1>3 DEF Approval
    <2>2. /\ Good(r) /\ r.active = s.active /\ r.fabric = s.fabric /\ Len(r.tasks) = Len(s.tasks)
          /\ r.tasks[a].approval = st /\ r.tasks[a].kind = s.tasks[a].kind
          /\ r.tasks[a].status = s.tasks[a].status
      BY <1>3, <2>1, ApprovalGood
    <2> HIDE DEF r
    <2>3. r.active = a
      BY <1>3, <2>2 DEF a
    <2>4. ~Claim(r)
      BY <2>2, <2>3 DEF Claim
    <2>5. Follows(c, r)
      BY <1>3, <2>2, <2>3 DEF Follows
    <2> QED BY <2>2, <2>4, <2>5, <1>3 DEF r
  <1>6. ~(o = "Completed" /\ External(c, a)) /\ ~(External(s, a) /\ s.fabric = "Retryable") => ~Claim(s)
    BY <1>3 DEF Claim, External, f, a
  <1>7. Follows(c, s)
    BY <1>3 DEF Follows
  <1> QED BY <1>3, <1>4, <1>5, <1>6, <1>7

LEMMA SpendOK ==
    ASSUME NEW c, licence \in [1..MaxTasks -> Int], Spend(c)
    PROVE  licence' \in [1..MaxTasks -> Int]
  <1> DEFINE a == c.active
             D == 1..MaxTasks
  <1>1. licence' = licence \/ licence' = [licence EXCEPT ![a] = licence[a] - 1]
    BY DEF Spend
  <1> HIDE DEF a, D
  <1>2. licence \in [D -> Int]
    BY DEF D
  <1>3. a \in D => licence[a] - 1 \in Int
    <2> DEFINE l == licence[a]
    <2>1. a \in D => l \in Int
      BY <1>2
    <2> HIDE DEF l
    <2>2. a \in D => l - 1 \in Int
      BY <2>1
    <2> QED BY <2>2 DEF l
  <1>4. licence' \in [D -> Int]
    BY <1>1, <1>2, <1>3
  <1> QED BY <1>4 DEF D

LEMMA ExecuteBase ==
    ASSUME Base, NEW w \in Workers, NEW o \in {"Completed", "Suspended", "Retryable"},
           execute_android_verified_actions(w, o)
    PROVE  Base' /\ Went(w, "acted", worker[w].req) /\ worker'[w].after = worker[w].after
  <1> DEFINE n == next_chat_request_id
             y == worker[w]
             c == Advanced(y.base, o)
             x == [y EXCEPT !.pc = "acted", !.copy = c]
  <1>1. n \in Nat /\ WorkersOK(worker, n) /\ y \in WorkerType
    BY BaseParts, RequestSize
  <1>2. /\ Good(y.base) /\ y.base.active # 0 /\ (Fresh(y.base) => Claim(y.base))
        /\ y.after \in Afters
    BY <1>1 DEF WorkersOK, Held, execute_android_verified_actions
  <1>3. Moves(w, x)
    BY DEF execute_android_verified_actions, Moves
  <1>4. "acted" \in PC
    BY BusyPlaces DEF Busy
  <1>5. licence' \in [1..MaxTasks -> Int]
    BY SpendOK DEF execute_android_verified_actions, Base
  <1> HIDE DEF y
  <1>6. /\ Good(c) /\ c.active = y.base.active /\ ~Claim(c) /\ c \in Conversation
        /\ Follows(y.base, c)
    BY <1>2, AdvancedGood, ZenonT(60) DEF Good
  <1> HIDE DEF c
  <1>7. /\ x \in WorkerType /\ x.req = y.req /\ x.pc = "acted" /\ x.copy = c
        /\ x.after = y.after /\ x.base = y.base
    BY <1>1, <1>4, <1>6 DEF WorkerType
  <1> HIDE DEF x
  <1>8. Held(x)
    BY <1>2, <1>6, <1>7 DEF Held
  <1>9. x \in WorkerType /\ x.req = worker[w].req
    BY <1>7 DEF y
  <1>10. WorkersOK(worker', n) /\ worker'[w] = x /\ Went(w, x.pc, worker[w].req)
    BY <1>1, <1>3, <1>8, <1>9, FieldsOK
  <1>11. JavaOK'
    BY DEF execute_android_verified_actions, java, activity, Base, JavaOK
  <1>12. Base'
    BY <1>5, <1>10, <1>11 DEF execute_android_verified_actions, native, Base
  <1> QED BY <1>7, <1>10, <1>12 DEF y

LEMMA ExecuteFailsBase ==
    ASSUME Base, NEW w \in Workers, NEW acted \in BOOLEAN,
           execute_android_verified_actions_fails(w, acted)
    PROVE  Base' /\ Went(w, "failing", worker[w].req) /\ worker'[w].after = "idle"
  <1>1. /\ WorkersOK(worker', next_chat_request_id) /\ Went(w, "failing", worker[w].req)
        /\ worker'[w].after = "idle"
    BY BaseParts, GoesOK, QuietPlaces DEF execute_android_verified_actions_fails
  <1>2. licence' \in [1..MaxTasks -> Int]
    BY SpendOK DEF execute_android_verified_actions_fails, Base
  <1>3. JavaOK'
    BY DEF execute_android_verified_actions_fails, java, activity, Base, JavaOK
  <1>4. Base'
    BY <1>1, <1>2, <1>3 DEF execute_android_verified_actions_fails, native, Base
  <1> QED BY <1>1, <1>4

(* Actions that leave everything outside the native state alone.           *)
LEMMA NativeAndWorker ==
    ASSUME Base, UNCHANGED <<chat_submit_in_progress, next_chat_request_id, disk, java, ui>>,
           Good(conversation'), cancelled' \subseteq Nat,
           \/ chat_session' = chat_session
           \/ chat_session' \in Session /\ chat_session'.request < next_chat_request_id,
           licence' \in [1..MaxTasks -> Int],
           WorkersOK(worker', next_chat_request_id)
    PROVE  Base'
  <1>1. JavaOK'
    BY DEF java, activity, Base, JavaOK
  <1>2. NativeOK(conversation, chat_session, next_chat_request_id, cancelled)'
    BY DEF NativeOK, Base
  <1> QED BY <1>1, <1>2 DEF Base

(* The session with another status is still that session.                  *)
LEMMA StatusOK ==
    ASSUME Base, chat_session # None, NEW status \in ChatStatus,
           chat_session' = [chat_session EXCEPT !.status = status]
    PROVE  /\ chat_session' \in Session /\ chat_session'.request < next_chat_request_id
           /\ chat_session'.request = chat_session.request
           /\ chat_session'.task = chat_session.task
           /\ chat_session'.status = status
  <1>1. chat_session \in Session /\ chat_session.request < next_chat_request_id
    BY BaseParts
  <1>2. /\ chat_session' \in Session /\ chat_session'.request = chat_session.request
        /\ chat_session'.task = chat_session.task /\ chat_session'.status = status
    BY <1>1, SessionStatus
  <1> QED BY <1>1, <1>2

LEMMA ActedBase ==
    ASSUME Base, NEW w \in Workers, advance_pending_chat_actions_commit(w)
    PROVE  /\ Base'
           /\ \/ /\ Went(w, "saving", worker[w].req) /\ worker'[w].after = "checkpointed"
                 /\ conversation = worker[w].base /\ MineIs(w, "Running")
                 /\ conversation' = worker[w].copy
                 /\ chat_session' \in Session
                 /\ chat_session'.request = chat_session.request
                 /\ chat_session'.task = chat_session.task
                 /\ chat_session'.status =
                      IF conversation'.tasks[chat_session.task].approval = "reconfirm"
                        THEN "WaitingApproval" ELSE "Running"
              \/ Went(w, "failing", worker[w].req) /\ UNCHANGED <<conversation, chat_session>>
  <1> DEFINE n == next_chat_request_id
  <1>1. n \in Nat /\ WorkersOK(worker, n)
    BY BaseParts
  <1>2. Good(worker[w].copy)
    BY <1>1 DEF WorkersOK, Held, advance_pending_chat_actions_commit
  <1>3. cancelled' \subseteq Nat /\ licence' \in [1..MaxTasks -> Int]
    BY DEF advance_pending_chat_actions_commit, Base, NativeOK
  <1>4. UNCHANGED <<chat_submit_in_progress, next_chat_request_id, disk, java, ui>>
    BY DEF advance_pending_chat_actions_commit
  <1>5. CASE conversation = worker[w].base /\ MineIs(w, "Running")
    <2>1. SaveThen(w, "checkpointed") /\ "checkpointed" \in Afters
      BY <1>5 DEF advance_pending_chat_actions_commit, Afters
    <2>2. /\ WorkersOK(worker', n) /\ Went(w, "saving", worker[w].req)
          /\ worker'[w].after = "checkpointed"
      BY <1>1, <2>1, SavesOK
    <2>3. conversation' = worker[w].copy
      BY <1>5 DEF advance_pending_chat_actions_commit
    <2>4. chat_session # None /\ chat_session \in Session /\ chat_session.status = "Running"
          /\ chat_session.request < n
      BY <1>5, BaseParts DEF MineIs, Mine
    <2>5. /\ chat_session' \in Session /\ chat_session'.request < n
          /\ chat_session'.request = chat_session.request
          /\ chat_session'.task = chat_session.task
          /\ chat_session'.status =
                IF conversation'.tasks[chat_session.task].approval = "reconfirm"
                  THEN "WaitingApproval" ELSE "Running"
      <3>1. CASE conversation'.tasks[chat_session.task].approval = "reconfirm"
        <4>1. chat_session' = [chat_session EXCEPT !.status = "WaitingApproval"]
          BY <1>5, <3>1 DEF advance_pending_chat_actions_commit
        <4>2. "WaitingApproval" \in ChatStatus
          BY DEF ChatStatus
        <4> QED BY <2>4, <3>1, <4>1, <4>2, StatusOK
      <3>2. CASE conversation'.tasks[chat_session.task].approval # "reconfirm"
        BY <1>5, <2>4, <3>2 DEF advance_pending_chat_actions_commit
      <3> QED BY <3>1, <3>2
    <2>6. Base'
      BY <1>2, <1>3, <1>4, <2>2, <2>3, <2>5, NativeAndWorker
    <2> QED BY <1>5, <2>2, <2>3, <2>5, <2>6
  <1>6. CASE ~(conversation = worker[w].base /\ MineIs(w, "Running"))
    <2>1. Goto(w, "failing") /\ UNCHANGED <<conversation, chat_session>>
      BY <1>6 DEF advance_pending_chat_actions_commit
    <2>2. WorkersOK(worker', n) /\ Went(w, "failing", worker[w].req)
      BY <1>1, <2>1, GoesOK, QuietPlaces
    <2>3. Good(conversation') /\ chat_session' = chat_session
      BY <2>1, BaseParts
    <2>4. Base'
      BY <1>3, <1>4, <2>2, <2>3, NativeAndWorker
    <2> QED BY <2>1, <2>2, <2>4
  <1> QED BY <1>5, <1>6

LEMMA NextEventBase ==
    ASSUME Base, NEW w \in Workers, next_chat_event(w)
    PROVE  /\ Base'
           /\ \/ Went(w, "full", worker[w].req) /\ worker'[w].task = chat_session.task /\ Mine(w)
              \/ Went(w, "cancel", worker[w].req)
              \/ Went(w, "generated", worker[w].req)
                 /\ worker'[w].task = chat_session.task /\ Mine(w)
              \/ Went(w, "failing", worker[w].req)
           /\ worker'[w].after \in {"idle", worker[w].after}
  <1> DEFINE n == next_chat_request_id
             y == worker[w]
             t == chat_session.task
             p == IF conversation.tokens >= MaxTokens THEN "full"
                  ELSE IF worker[w].req \in cancelled THEN "cancel" ELSE "generated"
             x == [y EXCEPT !.task = t, !.pc = p]
  <1>1. n \in Nat /\ WorkersOK(worker, n) /\ y \in WorkerType
    BY BaseParts, RequestSize
  <1>2. CASE Mine(w) /\ conversation.active = chat_session.task /\ ~Goto(w, "failing")
    <2>1. Moves(w, x)
      BY <1>2 DEF next_chat_event, Moves
    <2>2. p \in PC /\ p \in {"full", "cancel", "generated"}
      BY BusyPlaces, QuietPlaces DEF Busy, Quiet
    <2>3. t \in Nat \ {0}
      BY <1>2, BaseParts DEF Mine
    <2> HIDE DEF y, p, t
    <2>4. x \in WorkerType /\ x.req = y.req /\ x.pc = p /\ x.task = t /\ x.after = y.after
      BY <1>1, <2>2, <2>3 DEF WorkerType
    <2> HIDE DEF x
    <2>5. y.after \in Afters
      BY <1>1 DEF WorkersOK, Held, y
    <2>6. Held(x)
      BY <2>2, <2>3, <2>4, <2>5 DEF Held
    <2>7. x \in WorkerType /\ x.req = worker[w].req
      BY <2>4 DEF y
    <2>8. WorkersOK(worker', n) /\ worker'[w] = x /\ Went(w, x.pc, worker[w].req)
      BY <1>1, <2>1, <2>6, <2>7, FieldsOK
    <2>9. Base'
      BY <2>8, OnlyWorker DEF next_chat_event
    <2> QED BY <1>2, <2>2, <2>4, <2>8, <2>9 DEF y, t
  <1>3. CASE Goto(w, "failing")
    <2>1. /\ WorkersOK(worker', n) /\ Went(w, "failing", worker[w].req)
          /\ worker'[w].after = "idle"
      BY <1>1, <1>3, GoesOK, QuietPlaces
    <2> QED BY <2>1, OnlyWorker DEF next_chat_event
  <1> QED BY <1>2, <1>3 DEF next_chat_event

LEMMA FullBase ==
    ASSUME Base, NEW w \in Workers, next_chat_event_full(w)
    PROVE  /\ Base'
           /\ \/ /\ Went(w, "saving", worker[w].req) /\ worker'[w].after = "idle"
                 /\ conversation.active = worker[w].task
                 /\ conversation'.active = 0
                 /\ Len(conversation'.tasks) = Len(conversation.tasks)
                 /\ IF Mine(w)
                      THEN /\ chat_session' \in Session
                           /\ chat_session'.request = chat_session.request
                           /\ chat_session'.status = "Complete"
                      ELSE chat_session' = chat_session
              \/ Went(w, "failing", worker[w].req) /\ UNCHANGED <<conversation, chat_session>>
  <1> DEFINE n == next_chat_request_id
             t == worker[w].task
  <1>1. n \in Nat /\ WorkersOK(worker, n)
    BY BaseParts
  <1>2. t # 0
    BY <1>1 DEF WorkersOK, Held, next_chat_event_full
  <1>3. cancelled' \subseteq Nat /\ licence' \in [1..MaxTasks -> Int]
    BY DEF next_chat_event_full, Base, NativeOK
  <1>4. UNCHANGED <<chat_submit_in_progress, next_chat_request_id, disk, java, ui>>
    BY DEF next_chat_event_full
  <1>5. CASE CanComplete(conversation, t)
    <2>1. SaveThen(w, "idle") /\ "idle" \in Afters
      BY <1>5 DEF next_chat_event_full, finishChatUi, Afters
    <2>2. WorkersOK(worker', n) /\ Went(w, "saving", worker[w].req) /\ worker'[w].after = "idle"
      BY <1>1, <2>1, SavesOK
    <2>3. t = conversation.active /\ conversation' = complete_turn(conversation, t)
      BY <1>5 DEF next_chat_event_full, CanComplete
    <2> HIDE DEF t
    <2>4. /\ Good(conversation') /\ conversation'.active = 0
          /\ Len(conversation'.tasks) = Len(conversation.tasks)
      BY <1>2, <2>3, BaseParts, CompleteGood
    <2>5. chat_session' = Finished(w)
      BY <1>5 DEF next_chat_event_full, t
    <2>6. CASE Mine(w)
      <3>1. /\ chat_session' \in Session /\ chat_session'.request < next_chat_request_id
            /\ chat_session'.request = chat_session.request
            /\ chat_session'.task = chat_session.task
            /\ chat_session'.status = "Complete"
        BY <2>5, <2>6, StatusOK DEF Finished, Mine, ChatStatus
      <3>2. Base'
        BY <1>3, <1>4, <2>2, <2>4, <3>1, NativeAndWorker
      <3> QED BY <2>2, <2>3, <2>4, <2>6, <3>1, <3>2 DEF t
    <2>7. CASE ~Mine(w)
      <3>1. chat_session' = chat_session
        BY <2>5, <2>7 DEF Finished
      <3>2. Base'
        BY <1>3, <1>4, <2>2, <2>4, <3>1, NativeAndWorker
      <3> QED BY <2>2, <2>3, <2>4, <2>7, <3>1, <3>2 DEF t
    <2> QED BY <2>6, <2>7
  <1>6. CASE ~CanComplete(conversation, t)
    <2>1. Goto(w, "failing") /\ UNCHANGED <<conversation, chat_session>>
      BY <1>6 DEF next_chat_event_full
    <2>2. WorkersOK(worker', n) /\ Went(w, "failing", worker[w].req)
      BY <1>1, <2>1, GoesOK, QuietPlaces
    <2>3. Good(conversation') /\ chat_session' = chat_session
      BY <2>1, BaseParts
    <2>4. Base'
      BY <1>3, <1>4, <2>2, <2>3, NativeAndWorker
    <2> QED BY <2>1, <2>2, <2>4
  <1> QED BY <1>5, <1>6

LEMMA TokenBase ==
    ASSUME Base, NEW w \in Workers, NEW blank \in BOOLEAN, NEW eos \in BOOLEAN,
           next_chat_event_token(w, blank, eos)
    PROVE  /\ Base'
           /\ \/ Went(w, "saving", worker[w].req) /\ UNCHANGED <<conversation, chat_session>>
                 /\ worker'[w].after = "idle"
                 /\ (~MineIs(w, "Running") \/ worker[w].req \in cancelled)
              \/ Went(w, "failing", worker[w].req) /\ UNCHANGED <<conversation, chat_session>>
              \/ /\ Went(w, "saving", worker[w].req) /\ worker'[w].after = "poll"
                 /\ MineIs(w, "Running") /\ conversation'.active = 0
                 /\ Len(conversation'.tasks) = Len(conversation.tasks)
                 /\ chat_session' \in Session /\ chat_session'.request = chat_session.request
                 /\ chat_session'.status = "Complete"
              \/ /\ \/ Went(w, "saving", worker[w].req) /\ worker'[w].after = "poll"
                    \/ Went(w, "failing", worker[w].req)
                 /\ MineIs(w, "Running") /\ chat_session' = chat_session
                 /\ conversation'.active = conversation.active
                 /\ conversation'.tasks = conversation.tasks
                 /\ conversation'.fabric = conversation.fabric
  <1> DEFINE n == next_chat_request_id
             t == worker[w].task
             stopped == ~MineIs(w, "Running") \/ worker[w].req \in cancelled
             appended == append_generated(conversation, blank)
             complete == eos \/ appended.tokens >= MaxTokens
  <1>1. n \in Nat /\ WorkersOK(worker, n)
    BY BaseParts
  <1>2. t # 0
    BY <1>1 DEF WorkersOK, Held, next_chat_event_token
  <1>3. cancelled' \subseteq Nat /\ licence' \in [1..MaxTasks -> Int]
    BY DEF next_chat_event_token, Base, NativeOK
  <1>4. UNCHANGED <<chat_submit_in_progress, next_chat_request_id, disk, java, ui>>
    BY DEF next_chat_event_token
  <1>5. "idle" \in Afters /\ "poll" \in Afters
    BY DEF Afters
  <1>6. \/ stopped /\ finishChatUi(w) /\ UNCHANGED <<conversation, chat_session>>
        \/ Goto(w, "failing") /\ UNCHANGED <<conversation, chat_session>>
        \/ /\ ~stopped /\ conversation.active = t /\ conversation.tokens < MaxTokens
           /\ \/ /\ conversation' = appended /\ chat_session' = chat_session
                 /\ SaveThen(w, "poll") \/ Goto(w, "failing")
              \/ /\ CanComplete(appended, t) /\ conversation' = complete_turn(appended, t)
                 /\ chat_session' = Finished(w) /\ SaveThen(w, "poll")
    <2>1. conversation.tokens \in Nat /\ MaxTokens \in Nat
      BY BaseParts, GoodFields, ChatAssumption
    <2>2. CASE stopped
      BY <2>2 DEF next_chat_event_token
    <2>3. CASE ~stopped /\ (conversation.active # t \/ conversation.tokens >= MaxTokens)
      BY <2>3 DEF next_chat_event_token
    <2>4. CASE ~stopped /\ ~(conversation.active # t \/ conversation.tokens >= MaxTokens)
      <3>1. \/ ~complete /\ conversation' = appended /\ SaveThen(w, "poll")
               /\ UNCHANGED chat_session
            \/ /\ CanComplete(appended, t) /\ conversation' = complete_turn(appended, t)
               /\ chat_session' = Finished(w) /\ SaveThen(w, "poll")
            \/ conversation' = appended /\ Goto(w, "failing") /\ UNCHANGED chat_session
        BY <2>4 DEF next_chat_event_token
      <3> QED BY <2>1, <2>4, <3>1
    <2> QED BY <2>2, <2>3, <2>4
  <1>7. CASE stopped /\ finishChatUi(w) /\ UNCHANGED <<conversation, chat_session>>
    <2>1. WorkersOK(worker', n) /\ Went(w, "saving", worker[w].req) /\ worker'[w].after = "idle"
      BY <1>1, <1>5, <1>7, SavesOK DEF finishChatUi
    <2>2. Good(conversation') /\ chat_session' = chat_session
      BY <1>7, BaseParts
    <2>3. Base'
      BY <1>3, <1>4, <2>1, <2>2, NativeAndWorker
    <2> QED BY <1>7, <2>1, <2>3
  <1>8. CASE Goto(w, "failing") /\ UNCHANGED <<conversation, chat_session>>
    <2>1. WorkersOK(worker', n) /\ Went(w, "failing", worker[w].req)
      BY <1>1, <1>8, GoesOK, QuietPlaces
    <2>2. Good(conversation') /\ chat_session' = chat_session
      BY <1>8, BaseParts
    <2>3. Base'
      BY <1>3, <1>4, <2>1, <2>2, NativeAndWorker
    <2> QED BY <1>8, <2>1, <2>3
  <1>9. CASE /\ ~stopped /\ conversation.active = t /\ conversation.tokens < MaxTokens
             /\ \/ /\ conversation' = appended /\ chat_session' = chat_session
                   /\ SaveThen(w, "poll") \/ Goto(w, "failing")
                \/ /\ CanComplete(appended, t) /\ conversation' = complete_turn(appended, t)
                   /\ chat_session' = Finished(w) /\ SaveThen(w, "poll")
    <2>1. /\ Good(appended) /\ appended.active = conversation.active
          /\ appended.tasks = conversation.tasks /\ appended.fabric = conversation.fabric
      BY <1>9, BaseParts, AppendGood
    <2> HIDE DEF appended
    <2>2. MineIs(w, "Running")
      BY <1>9
    <2>3. CASE conversation' = appended /\ chat_session' = chat_session /\ SaveThen(w, "poll")
      <3>1. WorkersOK(worker', n) /\ Went(w, "saving", worker[w].req) /\ worker'[w].after = "poll"
        BY <1>1, <1>5, <2>3, SavesOK
      <3>2. Good(conversation')
        BY <2>1, <2>3
      <3>3. Base'
        BY <1>3, <1>4, <2>3, <3>1, <3>2, NativeAndWorker
      <3> QED BY <2>1, <2>2, <2>3, <3>1, <3>3
    <2>4. CASE conversation' = appended /\ chat_session' = chat_session /\ Goto(w, "failing")
      <3>1. WorkersOK(worker', n) /\ Went(w, "failing", worker[w].req)
        BY <1>1, <2>4, GoesOK, QuietPlaces
      <3>2. Good(conversation')
        BY <2>1, <2>4
      <3>3. Base'
        BY <1>3, <1>4, <2>4, <3>1, <3>2, NativeAndWorker
      <3> QED BY <2>1, <2>2, <2>4, <3>1, <3>3
    <2>5. CASE /\ CanComplete(appended, t) /\ conversation' = complete_turn(appended, t)
               /\ chat_session' = Finished(w) /\ SaveThen(w, "poll")
      <3>1. WorkersOK(worker', n) /\ Went(w, "saving", worker[w].req) /\ worker'[w].after = "poll"
        BY <1>1, <1>5, <2>5, SavesOK
      <3>2. t = appended.active
        BY <2>5 DEF CanComplete
      <3> HIDE DEF t
      <3>3. /\ Good(conversation') /\ conversation'.active = 0
            /\ Len(conversation'.tasks) = Len(conversation.tasks)
        BY <1>2, <2>1, <2>5, <3>2, CompleteGood
      <3>4. /\ chat_session' \in Session /\ chat_session'.request < next_chat_request_id
            /\ chat_session'.request = chat_session.request
            /\ chat_session'.task = chat_session.task
            /\ chat_session'.status = "Complete"
        BY <2>2, <2>5, StatusOK DEF Finished, Mine, MineIs, ChatStatus
      <3>5. Base'
        BY <1>3, <1>4, <3>1, <3>3, <3>4, NativeAndWorker
      <3> QED BY <2>2, <3>1, <3>3, <3>4, <3>5
    <2> QED BY <1>9, <2>3, <2>4, <2>5
  <1> QED BY <1>6, <1>7, <1>8, <1>9

LEMMA ErrorBase ==
    ASSUME Base, NEW w \in Workers, nativeNextChatEvent_error(w)
    PROVE  /\ Base' /\ Went(w, "saving", worker[w].req) /\ worker'[w].after = "idle"
           /\ conversation' = conversation
           /\ IF Mine(w)
                THEN /\ chat_session' \in Session
                     /\ chat_session'.request = chat_session.request
                     /\ chat_session'.status = "Failed"
                ELSE chat_session' = chat_session
  <1> DEFINE n == next_chat_request_id
  <1>1. n \in Nat /\ WorkersOK(worker, n) /\ "idle" \in Afters
    BY BaseParts DEF Afters
  <1>2. WorkersOK(worker', n) /\ Went(w, "saving", worker[w].req) /\ worker'[w].after = "idle"
    BY <1>1, SavesOK DEF nativeNextChatEvent_error, finishChatUi
  <1>3. cancelled' \subseteq Nat /\ licence' \in [1..MaxTasks -> Int]
    BY DEF nativeNextChatEvent_error, Base, NativeOK
  <1>4. UNCHANGED <<chat_submit_in_progress, next_chat_request_id, disk, java, ui>>
    BY DEF nativeNextChatEvent_error
  <1>5. Good(conversation') /\ conversation' = conversation
    BY BaseParts DEF nativeNextChatEvent_error
  <1>6. CASE Mine(w)
    <2>1. /\ chat_session' \in Session /\ chat_session'.request < next_chat_request_id
          /\ chat_session'.request = chat_session.request
          /\ chat_session'.task = chat_session.task
          /\ chat_session'.status = "Failed"
      BY <1>6, StatusOK DEF nativeNextChatEvent_error, Mine, ChatStatus
    <2>2. Base'
      BY <1>2, <1>3, <1>4, <1>5, <2>1, NativeAndWorker
    <2> QED BY <1>2, <1>5, <1>6, <2>1, <2>2
  <1>7. CASE ~Mine(w)
    <2>1. chat_session' = chat_session
      BY <1>7 DEF nativeNextChatEvent_error
    <2>2. Base'
      BY <1>2, <1>3, <1>4, <1>5, <2>1, NativeAndWorker
    <2> QED BY <1>2, <1>5, <1>7, <2>1, <2>2
  <1> QED BY <1>6, <1>7

(* Cancelling ends the session of the request and the turn of the task.    *)
LEMMA CancelTurnOK ==
    ASSUME Base, NEW req, NEW task, CancelTurn(req, task)
    PROVE  /\ Good(conversation') /\ Len(conversation'.tasks) = Len(conversation.tasks)
           /\ \/ conversation' = conversation /\ ~(task # 0 /\ conversation.active = task)
              \/ conversation'.active = 0 /\ task # 0 /\ conversation.active = task
           /\ \/ /\ chat_session # None /\ chat_session.request = req
                 /\ chat_session' \in Session /\ chat_session'.request < next_chat_request_id
                 /\ chat_session'.request = req
                 /\ chat_session'.status = "Cancelled"
              \/ chat_session' = chat_session /\ (chat_session = None \/ chat_session.request # req)
  <1>1. /\ Good(conversation') /\ Len(conversation'.tasks) = Len(conversation.tasks)
        /\ \/ conversation' = conversation /\ ~(task # 0 /\ conversation.active = task)
           \/ conversation'.active = 0 /\ task # 0 /\ conversation.active = task
    <2>1. CASE task # 0 /\ conversation.active = task
      <3>1. conversation' = cancel_turn(conversation, task) /\ task = conversation.active
        BY <2>1 DEF CancelTurn, NoTask
      <3>2. /\ Good(conversation') /\ conversation'.active = 0
            /\ Len(conversation'.tasks) = Len(conversation.tasks)
        BY <2>1, <3>1, BaseParts, CancelGood
      <3> QED BY <2>1, <3>2
    <2>2. CASE ~(task # 0 /\ conversation.active = task)
      BY <2>2, BaseParts DEF CancelTurn, NoTask
    <2> QED BY <2>1, <2>2
  <1>2. CASE chat_session # None /\ chat_session.request = req
    <2>1. /\ chat_session' \in Session /\ chat_session'.request < next_chat_request_id
          /\ chat_session'.request = chat_session.request
          /\ chat_session'.task = chat_session.task
          /\ chat_session'.status = "Cancelled"
      BY <1>2, StatusOK DEF CancelTurn, ChatStatus
    <2> QED BY <1>1, <1>2, <2>1
  <1>3. CASE ~(chat_session # None /\ chat_session.request = req)
    BY <1>1, <1>3 DEF CancelTurn
  <1> QED BY <1>2, <1>3

LEMMA AfterCancelOK ==
    ASSUME NEW n \in Nat, WorkersOK(worker, n), NEW w \in Workers, AfterCancel(w)
    PROVE  /\ WorkersOK(worker', n)
           /\ \/ Went(w, "poll", worker[w].req) /\ worker[w].after = "poll"
              \/ Went(w, "saving", worker[w].req) /\ worker'[w].after = "idle"
  <1>1. CASE worker[w].after = "poll"
    <2>1. Goto(w, "poll")
      BY <1>1 DEF AfterCancel
    <2>2. WorkersOK(worker', n) /\ Went(w, "poll", worker[w].req)
      BY <2>1, GoesOK, QuietPlaces
    <2> QED BY <1>1, <2>2
  <1>2. CASE worker[w].after # "poll"
    <2>1. SaveThen(w, "idle") /\ "idle" \in Afters
      BY <1>2 DEF AfterCancel, finishChatUi, Afters
    <2>2. WorkersOK(worker', n) /\ Went(w, "saving", worker[w].req) /\ worker'[w].after = "idle"
      BY <2>1, SavesOK
    <2> QED BY <2>2
  <1> QED BY <1>1, <1>2

LEMMA CancelChatBase ==
    ASSUME Base, NEW w \in Workers, cancel_chat(w)
    PROVE  /\ Base'
           /\ \/ /\ worker[w].pc = "cancel" /\ Cancellable(worker[w].req)
                 /\ Went(w, "cancel_flag", worker[w].req) /\ worker'[w].task = chat_session.task
                 /\ worker'[w].after = worker[w].after
                 /\ UNCHANGED <<conversation, chat_session, cancelled>>
              \/ /\ worker[w].pc = "cancel" /\ ~Cancellable(worker[w].req)
                 /\ \/ Went(w, "poll", worker[w].req)
                    \/ Went(w, "saving", worker[w].req) /\ worker'[w].after = "idle"
                 /\ UNCHANGED <<conversation, chat_session, cancelled>>
              \/ /\ worker[w].pc = "cancel_flag"
                 /\ Went(w, "cancel_write", worker[w].req) /\ worker'[w].task = worker[w].task
                 /\ worker'[w].after = worker[w].after
                 /\ cancelled' = cancelled \cup {worker[w].req}
                 /\ UNCHANGED <<conversation, chat_session>>
              \/ /\ worker[w].pc = "cancel_write"
                 /\ \/ Went(w, "poll", worker[w].req)
                    \/ Went(w, "saving", worker[w].req) /\ worker'[w].after = "idle"
                 /\ CancelTurn(worker[w].req, worker[w].task) /\ cancelled' = cancelled
  <1> DEFINE n == next_chat_request_id
             y == worker[w]
  <1>1. n \in Nat /\ WorkersOK(worker, n) /\ y \in WorkerType
    BY BaseParts, RequestSize
  <1>2. licence' \in [1..MaxTasks -> Int] /\ cancelled \subseteq Nat
    BY DEF cancel_chat, Base, NativeOK
  <1>3. UNCHANGED <<chat_submit_in_progress, next_chat_request_id, disk, java, ui>>
    BY DEF cancel_chat
  <1>4. y.after \in Afters /\ y.req \in Nat
    BY <1>1, RequestSize DEF WorkersOK, Held
  <1>5. "cancel_flag" \in PC /\ "cancel_write" \in PC
    BY QuietPlaces DEF Quiet
  <1>6. CASE /\ y.pc = "cancel" /\ Cancellable(y.req)
             /\ UNCHANGED <<conversation, chat_session, cancelled>>
             /\ worker' = [worker EXCEPT ![w].pc = "cancel_flag", ![w].task = chat_session.task]
    <2> DEFINE t == chat_session.task
               x == [y EXCEPT !.pc = "cancel_flag", !.task = t]
    <2>1. Moves(w, x)
      BY <1>6 DEF Moves
    <2>2. t \in Nat
      BY <1>6, BaseParts DEF Cancellable
    <2>3. x \in WorkerType /\ x.req = y.req /\ x.pc = "cancel_flag" /\ x.task = t /\ x.after = y.after
      <3> HIDE DEF y, t
      <3> QED BY <1>1, <1>5, <2>2 DEF WorkerType
    <2> HIDE DEF x, y, t
    <2>4. Held(x)
      BY <1>4, <2>3 DEF Held
    <2>5. x \in WorkerType /\ x.req = worker[w].req
      BY <2>3 DEF y
    <2>6. WorkersOK(worker', n) /\ worker'[w] = x /\ Went(w, x.pc, worker[w].req)
      BY <1>1, <2>1, <2>4, <2>5, FieldsOK
    <2>7. Good(conversation') /\ chat_session' = chat_session /\ cancelled' \subseteq Nat
      BY <1>2, <1>6, BaseParts
    <2>8. Base'
      BY <1>2, <1>3, <2>6, <2>7, NativeAndWorker
    <2> QED BY <1>6, <2>3, <2>6, <2>8 DEF y, t
  <1>7. CASE /\ y.pc = "cancel" /\ ~Cancellable(y.req)
             /\ UNCHANGED <<conversation, chat_session, cancelled>> /\ AfterCancel(w)
    <2>1. /\ WorkersOK(worker', n)
          /\ \/ Went(w, "poll", worker[w].req) /\ worker[w].after = "poll"
             \/ Went(w, "saving", worker[w].req) /\ worker'[w].after = "idle"
      BY <1>1, <1>7, AfterCancelOK
    <2>2. Good(conversation') /\ chat_session' = chat_session /\ cancelled' \subseteq Nat
      BY <1>2, <1>7, BaseParts
    <2>3. Base'
      BY <1>2, <1>3, <2>1, <2>2, NativeAndWorker
    <2> QED BY <1>7, <2>1, <2>3
  <1>8. CASE /\ y.pc = "cancel_flag" /\ cancelled' = cancelled \cup {y.req}
             /\ worker' = [worker EXCEPT ![w].pc = "cancel_write"]
             /\ UNCHANGED <<conversation, chat_session>>
    <2> DEFINE x == [y EXCEPT !.pc = "cancel_write"]
    <2>1. Moves(w, x)
      BY <1>8 DEF Moves
    <2>2. x \in WorkerType /\ x.req = y.req /\ x.pc = "cancel_write" /\ x.task = y.task
          /\ x.after = y.after
      <3> HIDE DEF y
      <3> QED BY <1>1, <1>5 DEF WorkerType
    <2> HIDE DEF x, y
    <2>3. Held(x)
      BY <1>4, <2>2 DEF Held
    <2>4. x \in WorkerType /\ x.req = worker[w].req
      BY <2>2 DEF y
    <2>5. WorkersOK(worker', n) /\ worker'[w] = x /\ Went(w, x.pc, worker[w].req)
      BY <1>1, <2>1, <2>3, <2>4, FieldsOK
    <2>6. Good(conversation') /\ chat_session' = chat_session /\ cancelled' \subseteq Nat
      BY <1>2, <1>4, <1>8, BaseParts
    <2>7. Base'
      BY <1>2, <1>3, <2>5, <2>6, NativeAndWorker
    <2> QED BY <1>8, <2>2, <2>5, <2>7 DEF y
  <1>9. CASE /\ y.pc = "cancel_write" /\ CancelTurn(y.req, y.task)
             /\ AfterCancel(w) /\ UNCHANGED cancelled
    <2>1. /\ WorkersOK(worker', n)
          /\ \/ Went(w, "poll", worker[w].req) /\ worker[w].after = "poll"
             \/ Went(w, "saving", worker[w].req) /\ worker'[w].after = "idle"
      BY <1>1, <1>9, AfterCancelOK
    <2>2. /\ Good(conversation')
          /\ \/ chat_session' = chat_session
             \/ chat_session' \in Session /\ chat_session'.request < next_chat_request_id
          /\ cancelled' \subseteq Nat
      BY <1>2, <1>9, CancelTurnOK
    <2>3. Base'
      BY <1>2, <1>3, <2>1, <2>2, NativeAndWorker
    <2> QED BY <1>9, <2>1, <2>3
  <1> QED BY <1>6, <1>7, <1>8, <1>9 DEF cancel_chat

(* The Stop button.                                                        *)
LEMMA StopBase ==
    ASSUME Base, cancelChat
    PROVE  Base'
  <1>1. UNCHANGED <<chat_submit_in_progress, next_chat_request_id, disk, worker, activity,
                    conversationRestored, licence>>
    BY DEF cancelChat
  <1>2. JavaOK'
    <2>1. chatCancelRequested' \subseteq Workers
      BY DEF cancelChat, Base, JavaOK
    <2> QED BY <1>1, <2>1 DEF activity, Base, JavaOK
  <1>3. UiOK(ui')
    <2>1. UiOK(ui) /\ UiOK(UiIdle)
      BY DEF Base, UiOK, UiIdle, NoTask
    <2>2. UiOK([UiIdle EXCEPT !.pc = "cancel_read"])
      <3> DEFINE u == UiIdle
                 v == [u EXCEPT !.pc = "cancel_read"]
      <3>1. UiOK(u)
        BY <2>1
      <3> HIDE DEF u
      <3>2. UiOK(v)
        BY <3>1 DEF UiOK
      <3> QED BY <3>2 DEF u
    <2>3. ASSUME activeChatRequestId(front) # 0, Cancellable(activeChatRequestId(front))
          PROVE  UiOK([UiIdle EXCEPT !.pc = "cancel_flag", !.req = activeChatRequestId(front),
                                     !.task = chat_session.task])
      <3> DEFINE u == UiIdle
                 r == activeChatRequestId(front)
                 t == chat_session.task
                 v == [u EXCEPT !.pc = "cancel_flag", !.req = r, !.task = t]
      <3>1. t \in Nat /\ r \in Nat
        BY <2>3, BaseParts DEF Cancellable
      <3>2. UiOK(u)
        BY <2>1
      <3> HIDE DEF u, r, t
      <3>3. v.pc = "cancel_flag" /\ UiOK(v)
        BY <3>1, <3>2 DEF UiOK
      <3> QED BY <3>3 DEF u, r, t
    <2>4. UiOK([ui EXCEPT !.pc = "cancel_write"])
      BY <2>1 DEF UiOK
    <2> QED BY <2>1, <2>2, <2>3, <2>4 DEF cancelChat
  <1>4. NativeOK(conversation, chat_session, next_chat_request_id, cancelled)'
    <2>1. NativeOK(conversation, chat_session, next_chat_request_id, cancelled)
      BY DEF Base
    <2>2. CASE UNCHANGED <<conversation, chat_session, cancelled>>
      BY <1>1, <2>1, <2>2
    <2>3. CASE ui.pc = "cancel_flag" /\ cancelled' = cancelled \cup {ui.req}
               /\ UNCHANGED <<conversation, chat_session>>
      <3>1. ui.req \in Nat
        BY DEF Base, UiOK
      <3> QED BY <1>1, <2>1, <2>3, <3>1 DEF NativeOK
    <2>4. CASE CancelTurn(ui.req, ui.task) /\ UNCHANGED cancelled
      <3>1. /\ Good(conversation')
            /\ \/ chat_session' = chat_session
               \/ chat_session' \in Session /\ chat_session'.request < next_chat_request_id
        BY <2>4, CancelTurnOK
      <3> QED BY <1>1, <2>1, <2>4, <3>1 DEF NativeOK
    <2> QED BY <2>2, <2>3, <2>4 DEF cancelChat
  <1> QED BY <1>1, <1>2, <1>3, <1>4 DEF Base

LEMMA PanelBase ==
    ASSUME Base, NEW w \in Workers, showPanel(w)
    PROVE  Base' /\ Went(w, "waiting", worker[w].req)
  <1>1. WorkersOK(worker', next_chat_request_id) /\ Went(w, "waiting", worker[w].req)
    BY BaseParts, GoesOK, QuietPlaces DEF showPanel
  <1> QED BY <1>1, OnlyWorker DEF showPanel

(* The copy an approval or a denial commits.                               *)
LEMMA PreparedGood ==
    ASSUME NEW c, Good(c), NEW t, t = c.active, t # 0
    PROVE  /\ Good(Prepared(c, t)) /\ Prepared(c, t).active = t
           /\ Prepared(c, t).tasks[t].approval = "approved-executing"
           /\ Len(Prepared(c, t).tasks) = Len(c.tasks)
           /\ Prepared(c, t).tasks[t].kind = c.tasks[t].kind
  <1> DEFINE s == set_chat_approval_status(c, t, "approved-executing")
             f == IF s.fabric = "none" THEN "Prepared" ELSE s.fabric
             r == [s EXCEPT !.fabric = f]
  <1>1. t \in 1..Len(c.tasks) /\ "approved-executing" \in Approval
    BY GoodFields DEF Approval
  <1>2. /\ Good(s) /\ s.active = c.active /\ s.fabric = c.fabric /\ Len(s.tasks) = Len(c.tasks)
        /\ s.tasks[t].approval = "approved-executing" /\ s.tasks[t].kind = c.tasks[t].kind
        /\ s.tasks[t].status = c.tasks[t].status
    BY <1>1, ApprovalGood
  <1>3. Prepared(c, t) = r
    BY DEF Prepared
  <1> HIDE DEF s
  <1>4. f \in Fabric
    BY <1>2, GoodFields DEF Fabric
  <1> HIDE DEF f
  <1>5. Good(r) /\ r.active = s.active /\ r.tasks = s.tasks /\ r.fabric = f
    BY <1>2, <1>4, FabricGood
  <1> HIDE DEF r
  <1> QED BY <1>2, <1>3, <1>5

LEMMA DeniedGood ==
    ASSUME NEW c, Good(c), NEW t, t = c.active, t # 0
    PROVE  Good(Denied(c, t)) /\ Denied(c, t).active = 0 /\ Len(Denied(c, t).tasks) = Len(c.tasks)
  <1> DEFINE s == set_chat_approval_status(c, t, "denied")
  <1>1. t \in 1..Len(c.tasks) /\ "denied" \in Approval
    BY GoodFields DEF Approval
  <1>2. /\ Good(s) /\ s.active = c.active /\ s.fabric = c.fabric /\ Len(s.tasks) = Len(c.tasks)
        /\ s.tasks[t].approval = "denied" /\ s.tasks[t].kind = c.tasks[t].kind
        /\ s.tasks[t].status = c.tasks[t].status
    BY <1>1, ApprovalGood
  <1>3. Denied(c, t) = cancel_turn(s, t)
    BY DEF Denied
  <1> HIDE DEF s
  <1>4. Good(s) /\ t = s.active
    BY <1>2
  <1>5. /\ Good(cancel_turn(s, t)) /\ cancel_turn(s, t).active = 0
        /\ Len(cancel_turn(s, t).tasks) = Len(s.tasks)
    BY <1>4, CancelGood
  <1> QED BY <1>2, <1>3, <1>5

LEMMA ResolveBase ==
    ASSUME Base, NEW w \in Workers, NEW approved \in BOOLEAN, resolve_chat_approval(w, approved)
    PROVE  /\ Base'
           /\ \/ /\ Went(w, IF approved THEN "approving" ELSE "denying", worker[w].req)
                 /\ MineIs(w, "WaitingApproval") /\ worker'[w].task = chat_session.task
                 /\ conversation.active = chat_session.task
                 /\ Len(worker'[w].copy.tasks) = Len(conversation.tasks)
              \/ Went(w, "saving", worker[w].req) /\ worker'[w].after = "refused"
  <1> DEFINE n == next_chat_request_id
             y == worker[w]
             t == chat_session.task
             p == IF approved THEN "approving" ELSE "denying"
             c == IF approved THEN Prepared(conversation, t) ELSE Denied(conversation, t)
             x == [y EXCEPT !.pc = p, !.task = t, !.copy = c]
  <1>1. n \in Nat /\ WorkersOK(worker, n) /\ y \in WorkerType
    BY BaseParts, RequestSize
  <1>2. CASE /\ MineIs(w, "WaitingApproval") /\ conversation.active = t
             /\ worker' = [worker EXCEPT ![w].pc = p, ![w].task = t, ![w].copy = c]
    <2>1. Moves(w, x)
      BY <1>2 DEF Moves
    <2>2. p \in PC /\ p \in {"approving", "denying"} /\ (p = "approving" => approved)
      BY BusyPlaces DEF Busy
    <2>3. t \in Nat \ {0} /\ t = conversation.active /\ Good(conversation)
      BY <1>2, BaseParts DEF Mine, MineIs
    <2>4. y.after \in Afters
      BY <1>1 DEF WorkersOK, Held
    <2> HIDE DEF t
    <2>5. /\ Good(c) /\ Len(c.tasks) = Len(conversation.tasks)
          /\ approved => c.active = t /\ c.tasks[t].approval = "approved-executing"
      <3>1. CASE approved
        BY <2>3, <3>1, PreparedGood
      <3>2. CASE ~approved
        BY <2>3, <3>2, DeniedGood
      <3> QED BY <3>1, <3>2
    <2> HIDE DEF y, p, c
    <2>6. c \in Conversation /\ t \in Nat
      BY <2>3, <2>5 DEF Good
    <2>7. x \in WorkerType /\ x.req = y.req /\ x.pc = p /\ x.task = t /\ x.copy = c
          /\ x.after = y.after
      BY <1>1, <2>2, <2>6 DEF WorkerType
    <2> HIDE DEF x
    <2>8. Held(x)
      BY <2>2, <2>3, <2>4, <2>5, <2>7 DEF Held
    <2>9. x \in WorkerType /\ x.req = worker[w].req
      BY <2>7 DEF y
    <2>10. WorkersOK(worker', n) /\ worker'[w] = x /\ Went(w, x.pc, worker[w].req)
      BY <1>1, <2>1, <2>8, <2>9, FieldsOK
    <2>11. Base'
      BY <2>10, OnlyWorker DEF resolve_chat_approval
    <2> QED BY <1>2, <2>5, <2>7, <2>10, <2>11 DEF p, t
  <1>3. CASE SaveThen(w, "refused")
    <2>1. "refused" \in Afters
      BY DEF Afters
    <2>2. /\ WorkersOK(worker', n) /\ Went(w, "saving", worker[w].req)
          /\ worker'[w].after = "refused"
      BY <1>1, <1>3, <2>1, SavesOK
    <2> QED BY <2>2, OnlyWorker DEF resolve_chat_approval
  <1> QED BY <1>2, <1>3 DEF resolve_chat_approval

LEMMA DeniedBase ==
    ASSUME Base, NEW w \in Workers, resolve_chat_approval_denied(w)
    PROVE  /\ Base'
           /\ \/ /\ Went(w, "saving", worker[w].req) /\ worker'[w].after = "idle" /\ Mine(w)
                 /\ chat_session' \in Session /\ chat_session'.request = chat_session.request
                 /\ chat_session'.status = "Cancelled"
              \/ /\ Went(w, "saving", worker[w].req) /\ worker'[w].after = "refused" /\ ~Mine(w)
                 /\ UNCHANGED <<conversation, chat_session>>
  <1> DEFINE n == next_chat_request_id
  <1>1. n \in Nat /\ WorkersOK(worker, n) /\ "idle" \in Afters /\ "refused" \in Afters
    BY BaseParts DEF Afters
  <1>2. cancelled' \subseteq Nat /\ licence' \in [1..MaxTasks -> Int]
    BY DEF resolve_chat_approval_denied, Base, NativeOK
  <1>3. UNCHANGED <<chat_submit_in_progress, next_chat_request_id, disk, java, ui>>
    BY DEF resolve_chat_approval_denied
  <1>4. Good(worker[w].copy)
    BY <1>1 DEF WorkersOK, Held, resolve_chat_approval_denied
  <1>5. CASE Mine(w)
    <2>1. WorkersOK(worker', n) /\ Went(w, "saving", worker[w].req) /\ worker'[w].after = "idle"
      BY <1>1, <1>5, SavesOK DEF resolve_chat_approval_denied, finishChatUi
    <2>2. /\ chat_session' \in Session /\ chat_session'.request < next_chat_request_id
          /\ chat_session'.request = chat_session.request
          /\ chat_session'.task = chat_session.task
          /\ chat_session'.status = "Cancelled"
      BY <1>5, StatusOK DEF resolve_chat_approval_denied, Mine, ChatStatus
    <2>3. Good(conversation')
      BY <1>4, <1>5 DEF resolve_chat_approval_denied
    <2>4. Base'
      BY <1>2, <1>3, <2>1, <2>2, <2>3, NativeAndWorker
    <2> QED BY <1>5, <2>1, <2>2, <2>4
  <1>6. CASE ~Mine(w)
    <2>1. SaveThen(w, "refused") /\ UNCHANGED <<conversation, chat_session>>
      BY <1>6 DEF resolve_chat_approval_denied
    <2>2. WorkersOK(worker', n) /\ Went(w, "saving", worker[w].req) /\ worker'[w].after = "refused"
      BY <1>1, <2>1, SavesOK
    <2>3. Good(conversation') /\ chat_session' = chat_session
      BY <2>1, BaseParts
    <2>4. Base'
      BY <1>2, <1>3, <2>2, <2>3, NativeAndWorker
    <2> QED BY <1>6, <2>1, <2>2, <2>4
  <1> QED BY <1>5, <1>6

LEMMA GrantOK ==
    ASSUME NEW t, licence \in [1..MaxTasks -> Int],
           licence' = [licence EXCEPT ![t] = @ + 1]
    PROVE  licence' \in [1..MaxTasks -> Int]
  <1> DEFINE D == 1..MaxTasks
             l == licence[t]
  <1>1. licence \in [D -> Int]
    OBVIOUS
  <1>2. licence' = [licence EXCEPT ![t] = l + 1]
    OBVIOUS
  <1> HIDE DEF D
  <1>3. t \in D => l \in Int
    BY <1>1
  <1> HIDE DEF l
  <1>4. t \in D => l + 1 \in Int
    BY <1>3
  <1>5. licence' \in [D -> Int]
    BY <1>1, <1>2, <1>4
  <1> QED BY <1>5 DEF D

LEMMA ApprovedBase ==
    ASSUME Base, NEW w \in Workers, resolve_chat_approval_approved(w)
    PROVE  /\ Base'
           /\ \/ /\ Went(w, "saving", worker[w].req) /\ worker'[w].after = "poll"
                 /\ MineIs(w, "WaitingApproval") /\ chat_session.task = worker[w].task
                 /\ conversation' = worker[w].copy /\ conversation'.active = worker[w].task
                 /\ chat_session' \in Session /\ chat_session'.request = chat_session.request
                 /\ chat_session'.task = chat_session.task
                 /\ chat_session'.status = "Running"
                 /\ licence' = IF Fresh(conversation')
                                 THEN [licence EXCEPT ![conversation'.active] = @ + 1] ELSE licence
              \/ /\ Went(w, "saving", worker[w].req) /\ worker'[w].after = "refused"
                 /\ UNCHANGED <<conversation, chat_session, licence>>
  <1> DEFINE n == next_chat_request_id
  <1>1. n \in Nat /\ WorkersOK(worker, n) /\ "poll" \in Afters /\ "refused" \in Afters
    BY BaseParts DEF Afters
  <1>2. cancelled' \subseteq Nat
    BY DEF resolve_chat_approval_approved, Base, NativeOK
  <1>3. UNCHANGED <<chat_submit_in_progress, next_chat_request_id, disk, java, ui>>
    BY DEF resolve_chat_approval_approved
  <1>4. Good(worker[w].copy) /\ worker[w].copy.active = worker[w].task
    BY <1>1 DEF WorkersOK, Held, resolve_chat_approval_approved
  <1>5. CASE MineIs(w, "WaitingApproval") /\ chat_session.task = worker[w].task
    <2>1. WorkersOK(worker', n) /\ Went(w, "saving", worker[w].req) /\ worker'[w].after = "poll"
      BY <1>1, <1>5, SavesOK DEF resolve_chat_approval_approved
    <2>2. /\ chat_session' \in Session /\ chat_session'.request < next_chat_request_id
          /\ chat_session'.request = chat_session.request
          /\ chat_session'.task = chat_session.task
          /\ chat_session'.status = "Running"
      BY <1>5, StatusOK DEF resolve_chat_approval_approved, MineIs, Mine, ChatStatus
    <2>3. conversation' = worker[w].copy /\ Good(conversation')
      BY <1>4, <1>5 DEF resolve_chat_approval_approved
    <2>4. licence' = IF Fresh(conversation')
                       THEN [licence EXCEPT ![conversation'.active] = @ + 1] ELSE licence
      BY <1>4, <1>5, <2>3 DEF resolve_chat_approval_approved
    <2>5. licence' \in [1..MaxTasks -> Int]
      <3>1. licence \in [1..MaxTasks -> Int]
        BY DEF Base
      <3>2. CASE Fresh(conversation')
        <4> DEFINE t == conversation'.active
        <4>1. licence' = [licence EXCEPT ![t] = @ + 1]
          BY <2>4, <3>2
        <4> HIDE DEF t
        <4> QED BY <3>1, <4>1, GrantOK
      <3> QED BY <2>4, <3>1, <3>2
    <2>6. Base'
      BY <1>2, <1>3, <2>1, <2>2, <2>3, <2>5, NativeAndWorker
    <2> QED BY <1>4, <1>5, <2>1, <2>2, <2>3, <2>4, <2>6
  <1>6. CASE ~(MineIs(w, "WaitingApproval") /\ chat_session.task = worker[w].task)
    <2>1. SaveThen(w, "refused") /\ UNCHANGED <<conversation, chat_session, licence>>
      BY <1>6 DEF resolve_chat_approval_approved
    <2>2. WorkersOK(worker', n) /\ Went(w, "saving", worker[w].req) /\ worker'[w].after = "refused"
      BY <1>1, <2>1, SavesOK
    <2>3. Good(conversation') /\ chat_session' = chat_session /\ licence' \in [1..MaxTasks -> Int]
      BY <2>1, BaseParts DEF Base
    <2>4. Base'
      BY <1>2, <1>3, <2>2, <2>3, NativeAndWorker
    <2> QED BY <2>1, <2>2, <2>4
  <1> QED BY <1>5, <1>6

LEMMA ApproveFailsBase ==
    ASSUME Base, NEW w \in Workers, resolve_chat_approval_fails(w)
    PROVE  Base' /\ Went(w, "saving", worker[w].req) /\ worker'[w].after = "refused"
  <1>1. "refused" \in Afters
    BY DEF Afters
  <1>2. /\ WorkersOK(worker', next_chat_request_id) /\ Went(w, "saving", worker[w].req)
        /\ worker'[w].after = "refused"
    BY <1>1, BaseParts, SavesOK DEF resolve_chat_approval_fails
  <1> QED BY <1>2, OnlyWorker DEF resolve_chat_approval_fails

(* onPause saves the conversation it has read.                             *)
LEMMA UiCopyOK ==
    ASSUME NEW p \in {"writing", "destroying"}, Good(conversation)
    PROVE  UiOK([UiIdle EXCEPT !.pc = p, !.copy = conversation])
  <1> DEFINE u == UiIdle
             c == conversation
             v == [u EXCEPT !.pc = p, !.copy = c]
  <1>1. UiOK(u) /\ c \in Conversation /\ Good(c)
    BY DEF UiOK, UiIdle, NoTask, Good
  <1> HIDE DEF u, c
  <1>2. UiOK(v)
    BY <1>1 DEF UiOK
  <1> QED BY <1>2 DEF u, c

LEMMA PauseBase ==
    ASSUME Base, NEW written \in BOOLEAN, onPause(written)
    PROVE  Base'
  <1>1. UNCHANGED <<native, worker, java, licence>>
    BY DEF onPause
  <1>2. JavaOK'
    BY <1>1 DEF java, activity, Base, JavaOK
  <1>3. DiskOK(disk') /\ UiOK(ui')
    <2>1. CASE ui.pc = "idle" /\ ui' = [UiIdle EXCEPT !.pc = "writing", !.copy = conversation]
               /\ UNCHANGED disk
      BY <2>1, BaseParts, UiCopyOK
    <2>2. CASE ui.pc = "writing" /\ disk' = (IF written THEN ui.copy ELSE disk) /\ ui' = UiIdle
      <3>1. Good(ui.copy) /\ DiskOK(disk)
        BY <2>2 DEF Base, UiOK
      <3>2. UiOK(UiIdle)
        BY DEF UiOK, UiIdle, NoTask
      <3> QED BY <2>2, <3>1, <3>2 DEF DiskOK
    <2> QED BY <2>1, <2>2 DEF onPause
  <1> QED BY <1>1, <1>2, <1>3 DEF native, Base

LEMMA RestoreBase ==
    ASSUME Base, NEW w \in Workers, restoreConversation(w)
    PROVE  /\ Base'
           /\ \/ Went(w, "idle", 0)
              \/ Went(w, "stopped", 0) /\ w \in interrupted
              \/ Went(w, "decoding", 0) /\ disk # None /\ worker'[w].copy = disk
  <1> DEFINE n == next_chat_request_id
  <1>1. n \in Nat /\ n # 0 /\ WorkersOK(worker, n)
    BY DEF Base, NativeOK
  <1>2. UNCHANGED <<native, disk, activity, chatCancelRequested, ui, licence>>
    BY DEF restoreConversation
  <1>3. JavaOK'
    <2>1. conversationRestored' \subseteq Workers
      BY DEF restoreConversation, Base, JavaOK
    <2> QED BY <1>2, <2>1 DEF activity, Base, JavaOK
  <1>4. CASE worker' = [worker EXCEPT ![w] = Resume(w, "idle")]
    <2>1. "idle" \in Afters
      BY DEF Afters
    <2>2. /\ WorkersOK(worker', n)
          /\ (Went(w, "stopped", 0) /\ w \in interrupted) \/ Went(w, "idle", 0)
      BY <1>1, <1>4, <2>1, ResumeOK
    <2>3. Base'
      BY <1>2, <1>3, <2>2 DEF native, Base
    <2> QED BY <2>2, <2>3
  <1>5. CASE /\ disk # None
             /\ worker' = [worker EXCEPT ![w] = [At("decoding", 0) EXCEPT !.copy = disk]]
    <2> DEFINE a == At("decoding", 0)
               x == [a EXCEPT !.copy = disk]
    <2>1. Moves(w, x)
      BY <1>5 DEF Moves
    <2>2. "decoding" \in PC
      BY BusyPlaces DEF Busy
    <2>3. a \in WorkerType /\ a.req = 0 /\ a.pc = "decoding"
      BY <2>2, AtOK
    <2>4. a.after = "idle"
      BY DEF At
    <2>5. Good(disk) /\ disk \in Conversation
      BY <1>5, BaseParts DEF DiskOK, Good
    <2> HIDE DEF a
    <2>6. x \in WorkerType /\ x.req = 0 /\ x.pc = "decoding" /\ x.after = "idle" /\ x.copy = disk
      BY <2>3, <2>4, <2>5 DEF WorkerType
    <2> HIDE DEF x
    <2>7. Held(x)
      BY <2>5, <2>6 DEF Held, Afters
    <2>8. n <= n /\ x.req < n /\ x.req \in {0, worker[w].req}
      BY <1>1, <2>6
    <2>9. x \in WorkerType
      BY <2>6
    <2>10. /\ WorkersOK(worker', n)
           /\ worker'[w] = x /\ \A v \in Workers : v # w => worker'[v] = worker[v]
      BY <1>1, <2>1, <2>7, <2>8, <2>9, MovesOK
    <2>11. Base'
      BY <1>2, <1>3, <2>10 DEF native, Base
    <2> QED BY <1>5, <2>6, <2>10, <2>11 DEF Went
  <1> QED BY <1>4, <1>5 DEF restoreConversation

(* The restored turn waits for approval or runs without one.               *)
LEMMA ReconfirmedGood ==
    ASSUME NEW c, Good(c), c.active # 0
    PROVE  /\ Good(Reconfirmed(c)) /\ Reconfirmed(c).active = c.active
           /\ Reconfirmed(c).tasks[c.active].approval =
                IF c.tasks[c.active].approval = "approved-executing" THEN "reconfirm"
                ELSE c.tasks[c.active].approval
  <1> DEFINE a == c.active
             r == set_chat_approval_status(c, a, "reconfirm")
  <1>1. a \in 1..Len(c.tasks) /\ "reconfirm" \in Approval
    BY GoodFields DEF Approval
  <1> HIDE DEF a
  <1>2. /\ Good(r) /\ r.active = c.active /\ r.fabric = c.fabric /\ Len(r.tasks) = Len(c.tasks)
        /\ r.tasks[a].approval = "reconfirm" /\ r.tasks[a].kind = c.tasks[a].kind
        /\ r.tasks[a].status = c.tasks[a].status
    BY <1>1, ApprovalGood
  <1>3. Reconfirmed(c) = IF c.tasks[a].approval = "approved-executing" THEN r ELSE c
    BY DEF Reconfirmed, a
  <1> HIDE DEF r
  <1> QED BY <1>2, <1>3 DEF a

LEMMA CheckpointBase ==
    ASSUME Base, NEW w \in Workers, restore_chat_checkpoint(w)
    PROVE  /\ Base'
           /\ \/ /\ conversation'.active = 0 /\ chat_session' = None
                 /\ Went(w, "idle", 0) \/ (Went(w, "stopped", 0) /\ w \in interrupted)
                 /\ next_chat_request_id' = next_chat_request_id
                 /\ chatCancelRequested' = chatCancelRequested
              \/ /\ Went(w, "poll", next_chat_request_id)
                 /\ next_chat_request_id' = next_chat_request_id + 1
                 /\ conversation'.active # 0
                 /\ chat_session' \in Session /\ chat_session'.request = next_chat_request_id
                 /\ chat_session'.task = conversation'.active
                 /\ conversation'.tasks[conversation'.active].approval # "approved-executing"
                 /\ chat_session'.status =
                      IF conversation'.tasks[conversation'.active].approval
                           \in {"pending", "reconfirm"} THEN "WaitingApproval" ELSE "Running"
                 /\ chatCancelRequested' = chatCancelRequested \ {w}
  <1> DEFINE n == next_chat_request_id
             file == worker[w].copy
  <1>1. n \in Nat /\ n # 0 /\ WorkersOK(worker, n)
    BY DEF Base, NativeOK
  <1>2. Good(file)
    BY <1>1 DEF WorkersOK, Held, restore_chat_checkpoint
  <1>3. cancelled' \subseteq Nat
    BY BaseParts DEF restore_chat_checkpoint, Base, NativeOK
  <1>4. UNCHANGED <<chat_submit_in_progress, disk, activity, ui, licence>>
    BY DEF restore_chat_checkpoint
  <1>5. JavaOK'
    <2>1. conversationRestored' \subseteq Workers /\ chatCancelRequested' \subseteq Workers
      BY DEF restore_chat_checkpoint, Base, JavaOK
    <2> QED BY <1>4, <2>1 DEF activity, Base, JavaOK
  <1>6. CASE file.active = NoTask
    <2>1. /\ conversation' = file /\ chat_session' = None /\ next_chat_request_id' = n
          /\ worker' = [worker EXCEPT ![w] = Resume(w, "idle")]
          /\ chatCancelRequested' = chatCancelRequested
      BY <1>6 DEF restore_chat_checkpoint
    <2>2. "idle" \in Afters
      BY DEF Afters
    <2>3. /\ WorkersOK(worker', n)
          /\ (Went(w, "stopped", 0) /\ w \in interrupted) \/ Went(w, "idle", 0)
      BY <1>1, <2>1, <2>2, ResumeOK
    <2>4. NativeOK(conversation, chat_session, next_chat_request_id, cancelled)'
      BY <1>1, <1>2, <1>3, <2>1 DEF NativeOK
    <2>5. Base'
      BY <1>4, <1>5, <2>1, <2>3, <2>4 DEF Base
    <2>6. conversation'.active = 0
      BY <1>6, <2>1 DEF NoTask
    <2>7. /\ chat_session' = None /\ next_chat_request_id' = n
          /\ chatCancelRequested' = chatCancelRequested
      BY <2>1
    <2>8. Went(w, "idle", 0) \/ (Went(w, "stopped", 0) /\ w \in interrupted)
      BY <2>3
    <2> QED BY <2>5, <2>6, <2>7, <2>8
  <1>7. CASE file.active # NoTask
    <2>1. /\ conversation' = Reconfirmed(file) /\ next_chat_request_id' = n + 1
          /\ chat_session' = [request |-> n, task |-> file.active,
                              status |-> IF waiting_approval(file.tasks[file.active].approval)
                                           THEN "WaitingApproval" ELSE "Running"]
          /\ worker' = [worker EXCEPT ![w] = At("poll", n)]
          /\ chatCancelRequested' = chatCancelRequested \ {w}
      BY <1>7 DEF restore_chat_checkpoint
    <2>2. file.active # 0
      BY <1>7 DEF NoTask
    <2> HIDE DEF file
    <2>3. /\ Good(conversation') /\ conversation'.active = file.active
          /\ conversation'.tasks[file.active].approval =
               IF file.tasks[file.active].approval = "approved-executing" THEN "reconfirm"
               ELSE file.tasks[file.active].approval
      BY <1>2, <2>1, <2>2, ReconfirmedGood
    <2>4. file.active \in Nat \ {0}
      BY <1>2, <2>2, GoodFields
    <2>5. /\ chat_session' \in Session /\ chat_session'.request = n
          /\ chat_session'.task = file.active
          /\ chat_session'.status = IF waiting_approval(file.tasks[file.active].approval)
                                      THEN "WaitingApproval" ELSE "Running"
      BY <1>1, <2>1, <2>4 DEF Session, ChatStatus
    <2>6. /\ conversation'.tasks[conversation'.active].approval # "approved-executing"
          /\ chat_session'.status =
               IF conversation'.tasks[conversation'.active].approval \in {"pending", "reconfirm"}
                 THEN "WaitingApproval" ELSE "Running"
      BY <2>3, <2>5 DEF waiting_approval
    <2>7. n + 1 \in Nat /\ n + 1 # 0 /\ n < n + 1 /\ n <= n + 1 /\ "poll" \in Quiet
      BY <1>1, QuietPlaces
    <2>8. WorkersOK(worker', n + 1) /\ Went(w, "poll", n) /\ worker'[w].after = "idle"
      BY <1>1, <2>1, <2>7, ResetOK
    <2>9. NativeOK(conversation, chat_session, next_chat_request_id, cancelled)'
      BY <1>1, <1>3, <2>1, <2>3, <2>5, <2>7 DEF NativeOK
    <2>10. Base'
      BY <1>4, <1>5, <2>1, <2>8, <2>9 DEF Base
    <2> QED BY <2>1, <2>2, <2>3, <2>5, <2>6, <2>8, <2>10
  <1> QED BY <1>6, <1>7

(* The activity is recreated: its executor ends if it is at rest, that of  *)
(* the next one restores.                                                  *)
LEMMA RecreateOK ==
    ASSUME Base, NEW w \in Workers, recreate(w)
    PROVE  /\ WorkersOK(worker', next_chat_request_id)
           /\ worker'[w].pc = "restoring" /\ worker'[w].req = 0
           /\ \A v \in Workers : v # w =>
                \/ worker'[v] = worker[v]
                \/ /\ v = front /\ worker[v].pc \in AtRest \cup {"panel"}
                   /\ worker'[v].pc = "stopped" /\ worker'[v].req = 0
  <1> DEFINE n == next_chat_request_id
             y == IF worker[front].pc \in AtRest \cup {"panel"} THEN At("stopped", 0)
                                                                ELSE worker[front]
             f == [worker EXCEPT ![front] = y]
             x == At("restoring", 0)
  <1>1. n \in Nat /\ n # 0 /\ WorkersOK(worker, n) /\ front \in Workers
    BY DEF Base, NativeOK, JavaOK
  <1>2. worker' = [f EXCEPT ![w] = x]
    BY DEF recreate
  <1>3. "stopped" \in PC /\ "stopped" \notin Busy /\ "restoring" \in PC /\ "restoring" \notin Busy
    BY QuietPlaces DEF Quiet
  <1>4. x \in WorkerType /\ x.req = 0 /\ x.pc = "restoring" /\ Held(x)
    BY <1>3, AtOK
  <1>5. /\ At("stopped", 0) \in WorkerType /\ At("stopped", 0).req = 0
        /\ At("stopped", 0).pc = "stopped" /\ Held(At("stopped", 0))
    BY <1>3, AtOK
  <1>6. worker \in [Workers -> WorkerType] /\ worker[front] \in WorkerType /\ Held(worker[front])
    BY <1>1 DEF WorkersOK
  <1>7. /\ y \in WorkerType /\ Held(y)
        /\ \/ y = worker[front]
           \/ worker[front].pc \in AtRest \cup {"panel"} /\ y.pc = "stopped" /\ y.req = 0
    BY <1>5, <1>6
  <1> HIDE DEF x, y
  <1>8. worker' \in [Workers -> WorkerType] /\ worker'[w] = x
    BY <1>2, <1>4, <1>6, <1>7
  <1>9. \A v \in Workers : v # w => worker'[v] = IF v = front THEN y ELSE worker[v]
    BY <1>2, <1>6
  <1>10. \A v \in Workers : worker[v].req \in Nat /\ worker[v].req < n /\ Held(worker[v])
    BY <1>1, RequestSize DEF WorkersOK
  <1>11. \A v \in Workers : v # w => worker'[v].req \in {0, worker[v].req} /\ Held(worker'[v])
    BY <1>7, <1>9, <1>10
  <1>12. \A v \in Workers : worker'[v].req < n /\ Held(worker'[v])
    BY <1>1, <1>4, <1>8, <1>10, <1>11
  <1>13. \A u, v \in Workers : u # v /\ worker[u].req # 0 => worker[u].req # worker[v].req
    BY <1>1 DEF WorkersOK
  <1>14. \A u, v \in Workers : u # v /\ worker'[u].req # 0 => worker'[u].req # worker'[v].req
    BY <1>4, <1>8, <1>11, <1>13
  <1>15. WorkersOK(worker', n)
    BY <1>8, <1>12, <1>14 DEF WorkersOK
  <1> QED BY <1>4, <1>7, <1>8, <1>9, <1>15

LEMMA DestroyBase ==
    ASSUME Base, NEW w \in Workers, NEW written \in BOOLEAN, onDestroy(w, written)
    PROVE  Base'
  <1>1. UNCHANGED <<native, deaths, licence>> /\ recreations < MaxRecreations
    BY DEF onDestroy
  <1>2. UiOK(UiIdle)
    BY DEF UiOK, UiIdle, NoTask
  <1>3. CASE recreate(w) /\ DiskOK(disk')
    <2>1. JavaOK'
      BY <1>1, <1>3, ChatAssumption DEF recreate, Base, JavaOK
    <2>2. WorkersOK(worker', next_chat_request_id)
      BY <1>3, RecreateOK
    <2>3. UiOK(ui')
      BY <1>2, <1>3 DEF recreate
    <2> QED BY <1>1, <1>3, <2>1, <2>2, <2>3 DEF native, Base
  <1>4. CASE /\ ui' = [UiIdle EXCEPT !.pc = "destroying", !.copy = conversation]
             /\ UNCHANGED <<worker, disk, front, interrupted, recreations, conversationRestored,
                            chatCancelRequested>>
    <2>1. UiOK(ui')
      BY <1>4, BaseParts, UiCopyOK
    <2>2. JavaOK'
      BY <1>1, <1>4 DEF Base, JavaOK
    <2> QED BY <1>1, <1>4, <2>1, <2>2 DEF native, Base
  <1>5. DiskOK(disk) /\ (ui.pc = "destroying" => Good(ui.copy))
    BY DEF Base, UiOK
  <1>6. \/ recreate(w) /\ DiskOK(disk')
        \/ /\ ui' = [UiIdle EXCEPT !.pc = "destroying", !.copy = conversation]
           /\ UNCHANGED <<worker, disk, front, interrupted, recreations, conversationRestored,
                          chatCancelRequested>>
    BY <1>5 DEF onDestroy, DiskOK
  <1> QED BY <1>3, <1>4, <1>6

LEMMA DeathBase ==
    ASSUME Base, processDeath
    PROVE  Base'
  <1>1. NativeOK(conversation, chat_session, next_chat_request_id, cancelled)'
    BY NewGood DEF processDeath, NativeOK
  <1>2. WorkersOK(worker', next_chat_request_id')
    <2> DEFINE g == [w \in Workers |-> At(IF w = First THEN "restoring" ELSE "stopped", 0)]
    <2>1. worker' = g /\ next_chat_request_id' = 1
      BY DEF processDeath
    <2>2. \A w \in Workers : \E pc \in Quiet : g[w] = At(pc, 0)
      BY QuietPlaces
    <2>3. \A pc \in Quiet : pc \in PC /\ pc \notin Busy
      BY DEF Quiet
    <2>4. \A w \in Workers : g[w] \in WorkerType /\ g[w].req = 0 /\ Held(g[w])
      BY <2>2, <2>3, AtOK
    <2>5. g = [w \in Workers |-> g[w]]
      OBVIOUS
    <2> HIDE DEF g
    <2>6. g \in [Workers -> WorkerType]
      BY <2>4, <2>5
    <2> QED BY <2>1, <2>4, <2>6 DEF WorkersOK
  <1>3. UiOK(ui')
    BY DEF processDeath, UiOK, UiIdle, NoTask
  <1>4. JavaOK'
    BY ChatAssumption DEF processDeath, JavaOK, Base
  <1>5. licence' \in [1..MaxTasks -> Int]
    BY DEF processDeath
  <1>6. DiskOK(disk)' /\ chat_submit_in_progress' \in BOOLEAN
    BY DEF processDeath, Base
  <1> QED BY <1>1, <1>2, <1>3, <1>4, <1>5, <1>6 DEF Base

LEMMA BaseStep == Base /\ [Next]_vars => Base'
  <1> SUFFICES ASSUME Base, [Next]_vars PROVE Base'
    OBVIOUS
  <1>1. CASE UNCHANGED vars
    BY <1>1 DEF vars, Base, JavaOK
  <1>2. ASSUME NEW w \in Workers, Step(w) PROVE Base'
    BY <1>2, SavingBase, WritingBase, SnapshotBase, CommitBase, FailedBase, ReleaseBase,
       SubmitChatBase, TerminalBase, AdvanceBase, ExecuteBase, ExecuteFailsBase, ActedBase,
       NextEventBase, FullBase, TokenBase, ErrorBase, CancelChatBase, PanelBase, DeniedBase,
       ApprovedBase, ApproveFailsBase, RestoreBase, CheckpointBase DEF Step
  <1> QED BY <1>1, <1>2, SubmitBase, ResolveBase, DestroyBase, StopBase, PauseBase, DeathBase
          DEF Next

(* Every variable keeps its type, whatever the threads do.                 *)
THEOREM TypeCorrect == Spec => []TypeOK
  <1>1. Spec => []Base
    BY BaseInit, BaseStep, PTL DEF Spec
  <1> QED BY <1>1, BaseTypes, PTL

(* However many activities run on one native state, a turn is committed at *)
(* most once: complete_turn is called only for the active turn, and        *)
(* clears it.                                                              *)
THEOREM TurnsOnce == Spec => []TurnsCommittedOnce
  <1>1. Spec => []Base
    BY BaseInit, BaseStep, PTL DEF Spec
  <1>2. Base => TurnsCommittedOnce
    <2> SUFFICES ASSUME Base PROVE TurnsCommittedOnce
      OBVIOUS
    <2>1. Good(conversation)
      BY BaseParts
    <2>2. DOMAIN conversation.turns = 1..Len(conversation.turns)
      BY <2>1, GoodFields
    <2> QED BY <2>1, <2>2 DEF Good, TurnsCommittedOnce
  <1> QED BY <1>1, <1>2, PTL

-----------------------------------------------------------------------------
(* Approvals and calls.  An approval is held by the executor that is       *)
(* calling the adapter, or else by the conversation whose session is to    *)
(* run it; licence counts at least these.                                  *)

Running == {"acting", "acted", "failing"}

Acts(t) ==
    {w \in Workers :
        worker[w].pc = "acting" /\ Fresh(worker[w].base) /\ worker[w].base.active = t}

Claimed(t) ==
    /\ chat_session # None /\ chat_session.status = "Running"
    /\ conversation.active = t /\ Claim(conversation)
    /\ \A w \in Workers : worker[w].req = chat_session.request => worker[w].pc \notin Running

Licensed ==
    \A t \in 1..MaxTasks :
        licence[t] >= Cardinality(Acts(t)) + (IF Claimed(t) THEN 1 ELSE 0)

LEMMA ActsFinite ==
    ASSUME NEW t
    PROVE  /\ IsFiniteSet(Acts(t)) /\ Cardinality(Acts(t)) \in Nat
           /\ IsFiniteSet(Acts(t)') /\ Cardinality(Acts(t)') \in Nat
  <1>1. Acts(t) \subseteq Workers /\ Acts(t)' \subseteq Workers
    BY DEF Acts
  <1> QED BY <1>1, ChatAssumption, FS_Subset, FS_CardinalityType

(* A step that calls no adapter, and after which no approval is claimed    *)
(* that was not claimed before.                                            *)
LEMMA CalmStep ==
    ASSUME Base, Licensed, licence' = licence,
           \A w \in Workers : worker'[w].pc = "acting" => worker'[w] = worker[w],
           \A t \in 1..MaxTasks : Claimed(t)' => Claimed(t)
    PROVE  Licensed'
  <1> SUFFICES ASSUME NEW t \in 1..MaxTasks
               PROVE  licence'[t] >= Cardinality(Acts(t)') + (IF Claimed(t)' THEN 1 ELSE 0)
    BY DEF Licensed
  <1>1. Acts(t)' \subseteq Acts(t)
    BY DEF Acts
  <1>2. /\ IsFiniteSet(Acts(t)) /\ Cardinality(Acts(t)) \in Nat
        /\ Cardinality(Acts(t)') \in Nat
    BY ActsFinite
  <1>3. Cardinality(Acts(t)') <= Cardinality(Acts(t))
    BY <1>1, <1>2, FS_Subset
  <1>4. licence[t] \in Int /\ licence[t] >= Cardinality(Acts(t)) + (IF Claimed(t) THEN 1 ELSE 0)
    BY DEF Base, Licensed
  <1>5. Claimed(t)' => Claimed(t)
    OBVIOUS
  <1> QED BY <1>2, <1>3, <1>4, <1>5

(* Nobody is about to call an adapter on the conversation as it is.        *)
Unclaimed ==
    \/ chat_session = None \/ chat_session.status # "Running"
    \/ conversation.active = 0 \/ ~Claim(conversation)

LEMMA UnclaimedStep ==
    ASSUME Base, Licensed, licence' = licence, Unclaimed',
           \A w \in Workers : worker'[w].pc = "acting" => worker'[w] = worker[w]
    PROVE  Licensed'
  <1>1. \A t \in 1..MaxTasks : ~Claimed(t)'
    BY DEF Claimed, Unclaimed
  <1> QED BY <1>1, CalmStep

(* The conversation keeps its turn and the session stays, and an executor  *)
(* that has taken an approval up does not give it back.                    *)
LEMMA KeptStep ==
    ASSUME Base, Licensed, licence' = licence, chat_session' = chat_session,
           conversation'.active = conversation.active,
           conversation'.tasks = conversation.tasks,
           conversation'.fabric = conversation.fabric,
           NEW w \in Workers, NEW p, NEW r, Went(w, p, r), p # "acting",
           worker[w].pc \notin Running \/ (p \in Running /\ r = worker[w].req)
    PROVE  Licensed'
  <1>1. \A v \in Workers : worker'[v].pc = "acting" => worker'[v] = worker[v]
    BY DEF Went
  <1>2. ASSUME NEW t \in 1..MaxTasks, Claimed(t)'
        PROVE  Claimed(t)
    <2>1. \A v \in Workers : worker[v].req = chat_session.request => worker[v].pc \notin Running
      BY <1>2 DEF Claimed, Went
    <2>2. Claim(conversation') = Claim(conversation)
      BY DEF Claim, External
    <2> QED BY <1>2, <2>1, <2>2 DEF Claimed
  <1> QED BY <1>1, <1>2, CalmStep

LEMMA SameStep ==
    ASSUME Base, Licensed, UNCHANGED <<licence, chat_session, conversation>>,
           NEW w \in Workers, NEW p, NEW r, Went(w, p, r), p # "acting",
           worker[w].pc \notin Running \/ (p \in Running /\ r = worker[w].req)
    PROVE  Licensed'
  BY KeptStep

LEMMA SavingLicensed ==
    ASSUME Base, Licensed, NEW w \in Workers, saving(w)
    PROVE  Licensed'
  BY SavingBase, SameStep DEF saving, native, Running

LEMMA WritingLicensed ==
    ASSUME Base, Licensed, NEW w \in Workers, NEW written \in BOOLEAN, writing(w, written)
    PROVE  Licensed'
  <1>1. UNCHANGED <<licence, chat_session, conversation>> /\ worker[w].pc \notin Running
    BY DEF writing, native, Running
  <1>2. \E p, r : Went(w, p, r) /\ p # "acting"
    BY WritingBase
  <1> QED BY <1>1, <1>2, SameStep

LEMMA SubmitLicensed ==
    ASSUME Base, Licensed, NEW w \in Workers, submit_chat(w)
    PROVE  Licensed'
  <1>1. licence' = licence /\ worker[w].pc \notin Running
    BY DEF submit_chat, Running
  <1>2. CASE UNCHANGED <<conversation, chat_session>>
    <2>1. \E p, r : Went(w, p, r) /\ p # "acting"
      BY SubmitBase
    <2> QED BY <1>1, <1>2, <2>1, SameStep
  <1>3. CASE Went(w, "reserved", worker[w].req) /\ chat_session' = None
    BY <1>1, <1>3, UnclaimedStep DEF Unclaimed, Went
  <1> QED BY <1>2, <1>3, SubmitBase

LEMMA CommitLicensed ==
    ASSUME Base, Licensed, NEW w \in Workers, NEW kind \in Kinds, NEW fabric \in Fabric,
           submit_chat_commit(w, kind, fabric)
    PROVE  Licensed'
  <1>1. licence' = licence
    BY DEF submit_chat_commit
  <1>2. /\ Went(w, "submitted", next_chat_request_id)
        /\ conversation'.tasks[conversation'.active].kind = kind
        /\ chat_session'.status = IF kind = "external" THEN "WaitingApproval" ELSE "Running"
    BY CommitBase
  <1>3. Unclaimed'
    BY <1>2 DEF Unclaimed, Claim, External
  <1> QED BY <1>1, <1>2, <1>3, UnclaimedStep DEF Went

(* Executor steps that touch neither the session nor the conversation, and *)
(* begin outside the adapters.                                             *)
LEMMA IdleLicensed ==
    ASSUME Base, Licensed, NEW w \in Workers,
           \/ submit_chat_snapshot(w) \/ submit_chat_failed(w) \/ submit_chat_release(w)
           \/ submitChat(w) \/ terminal_chat_event(w) \/ next_chat_event(w) \/ showPanel(w)
           \/ resolve_chat_approval_fails(w) \/ restoreConversation(w)
           \/ \E approved \in BOOLEAN : resolve_chat_approval(w, approved)
    PROVE  Licensed'
  <1>1. UNCHANGED <<licence, chat_session, conversation>> /\ worker[w].pc \notin Running
    BY DEF submit_chat_snapshot, submit_chat_failed, submit_chat_release, submitChat,
           terminal_chat_event, next_chat_event, showPanel, resolve_chat_approval_fails,
           restoreConversation, resolve_chat_approval, native, Running
  <1>2. \E p, r : Went(w, p, r) /\ p # "acting"
    BY SnapshotBase, FailedBase, ReleaseBase, SubmitChatBase, TerminalBase, NextEventBase,
       PanelBase, ApproveFailsBase, RestoreBase, ResolveBase
  <1> QED BY <1>1, <1>2, SameStep

(* The executor that goes to the adapters takes the claim over.            *)
LEMMA AdvanceLicensed ==
    ASSUME Base, Licensed, NEW w \in Workers, advance_pending_chat_actions(w)
    PROVE  Licensed'
  <1>1. UNCHANGED <<licence, chat_session, conversation>> /\ worker[w].pc = "pending"
    BY DEF advance_pending_chat_actions, native
  <1>2. CASE \E p, r : Went(w, p, r) /\ p # "acting"
    BY <1>1, <1>2, SameStep DEF Running
  <1>3. CASE /\ Went(w, "acting", worker[w].req) /\ MineIs(w, "Running")
             /\ worker'[w].base = conversation
             /\ conversation.active = chat_session.task
             /\ (Fresh(conversation) => Claim(conversation))
    <2> SUFFICES ASSUME NEW t \in 1..MaxTasks
                 PROVE  licence'[t] >= Cardinality(Acts(t)') + (IF Claimed(t)' THEN 1 ELSE 0)
      BY DEF Licensed
    <2>1. ~Claimed(t)'
      BY <1>1, <1>3 DEF Claimed, MineIs, Mine, Went, Running
    <2>2. /\ IsFiniteSet(Acts(t)) /\ Cardinality(Acts(t)) \in Nat
          /\ Cardinality(Acts(t)') \in Nat
      BY ActsFinite
    <2>3. licence[t] \in Int /\ licence[t] >= Cardinality(Acts(t)) + (IF Claimed(t) THEN 1 ELSE 0)
      BY DEF Base, Licensed
    <2>4. CASE Fresh(conversation) /\ conversation.active = t
      <3>1. Acts(t)' = Acts(t) \cup {w} /\ w \notin Acts(t)
        BY <1>1, <1>3, <2>4 DEF Acts, Went
      <3>2. Cardinality(Acts(t)') = Cardinality(Acts(t)) + 1
        BY <2>2, <3>1, FS_AddElement
      <3>3. Claimed(t)
        <4>1. WorkersOK(worker, next_chat_request_id) /\ chat_session # None
              /\ chat_session.request # 0 /\ worker[w].req = chat_session.request
          BY <1>3, BaseParts DEF MineIs, Mine
        <4>2. \A v \in Workers : worker[v].req = chat_session.request => v = w
          BY <4>1 DEF WorkersOK
        <4> QED BY <1>1, <1>3, <2>4, <4>2 DEF Claimed, MineIs, Mine, Running
      <3> QED BY <1>1, <2>1, <2>2, <2>3, <3>2, <3>3
    <2>5. CASE ~(Fresh(conversation) /\ conversation.active = t)
      <3>1. Acts(t)' = Acts(t)
        BY <1>1, <1>3, <2>5 DEF Acts, Went
      <3> QED BY <1>1, <2>1, <2>2, <2>3, <3>1
    <2> QED BY <2>4, <2>5
  <1> QED BY <1>2, <1>3, AdvanceBase

(* The call uses the approval up.                                          *)
LEMMA SpendLicensed ==
    ASSUME Base, Licensed, NEW w \in Workers, worker[w].pc = "acting",
           Spend(worker[w].base), UNCHANGED <<chat_session, conversation>>,
           NEW p \in {"acted", "failing"}, Went(w, p, worker[w].req)
    PROVE  Licensed'
  <1> SUFFICES ASSUME NEW t \in 1..MaxTasks
               PROVE  licence'[t] >= Cardinality(Acts(t)') + (IF Claimed(t)' THEN 1 ELSE 0)
    BY DEF Licensed
  <1> DEFINE b == worker[w].base
  <1>1. Claimed(t)' => Claimed(t)
    BY DEF Claimed, Went, Running
  <1>2. /\ IsFiniteSet(Acts(t)) /\ Cardinality(Acts(t)) \in Nat
        /\ Cardinality(Acts(t)') \in Nat
    BY ActsFinite
  <1>3. licence[t] \in Int /\ licence[t] >= Cardinality(Acts(t)) + (IF Claimed(t) THEN 1 ELSE 0)
    BY DEF Base, Licensed
  <1>4. licence \in [1..MaxTasks -> Int]
    BY DEF Base
  <1>5. CASE Fresh(b) /\ b.active = t
    <2>1. Acts(t)' = Acts(t) \ {w} /\ w \in Acts(t)
      BY <1>5 DEF Acts, Went
    <2>2. Cardinality(Acts(t)') = Cardinality(Acts(t)) - 1
      BY <1>2, <2>1, FS_RemoveElement
    <2>3. licence'[t] = licence[t] - 1
      BY <1>4, <1>5 DEF Spend
    <2> QED BY <1>1, <1>2, <1>3, <2>2, <2>3
  <1>6. CASE ~(Fresh(b) /\ b.active = t)
    <2>1. Acts(t)' = Acts(t)
      BY <1>6 DEF Acts, Went
    <2>2. licence'[t] = licence[t]
      BY <1>4, <1>6 DEF Spend
    <2> QED BY <1>1, <1>2, <1>3, <2>1, <2>2
  <1> QED BY <1>5, <1>6

LEMMA ExecuteLicensed ==
    ASSUME Base, Licensed, NEW w \in Workers, NEW o \in {"Completed", "Suspended", "Retryable"},
           execute_android_verified_actions(w, o)
    PROVE  Licensed'
  <1>1. /\ worker[w].pc = "acting" /\ Spend(worker[w].base)
        /\ UNCHANGED <<chat_session, conversation>>
    BY DEF execute_android_verified_actions, native
  <1>2. Went(w, "acted", worker[w].req)
    BY ExecuteBase
  <1> QED BY <1>1, <1>2, SpendLicensed

LEMMA ExecuteFailsLicensed ==
    ASSUME Base, Licensed, NEW w \in Workers, NEW acted \in BOOLEAN,
           execute_android_verified_actions_fails(w, acted)
    PROVE  Licensed'
  <1>1. worker[w].pc = "acting" /\ UNCHANGED <<chat_session, conversation>>
    BY DEF execute_android_verified_actions_fails, native
  <1>2. Went(w, "failing", worker[w].req)
    BY ExecuteFailsBase
  <1>3. CASE acted
    <2>1. Spend(worker[w].base)
      BY <1>3 DEF execute_android_verified_actions_fails
    <2> QED BY <1>1, <1>2, <2>1, SpendLicensed
  <1>4. CASE ~acted
    <2>1. licence' = licence
      BY <1>4 DEF execute_android_verified_actions_fails
    <2> QED BY <1>1, <1>2, <2>1, SameStep DEF Running
  <1> QED BY <1>3, <1>4

LEMMA ActedLicensed ==
    ASSUME Base, Licensed, NEW w \in Workers, advance_pending_chat_actions_commit(w)
    PROVE  Licensed'
  <1>1. licence' = licence /\ worker[w].pc = "acted"
    BY DEF advance_pending_chat_actions_commit
  <1>2. CASE Went(w, "saving", worker[w].req) /\ conversation' = worker[w].copy
    <2>1. ~Claim(worker[w].copy)
      BY <1>1, BaseParts DEF WorkersOK, Held
    <2> QED BY <1>1, <1>2, <2>1, UnclaimedStep DEF Unclaimed, Went
  <1>3. CASE Went(w, "failing", worker[w].req) /\ UNCHANGED <<conversation, chat_session>>
    BY <1>1, <1>3, SameStep DEF Running
  <1> QED BY <1>2, <1>3, ActedBase

LEMMA FullLicensed ==
    ASSUME Base, Licensed, NEW w \in Workers, next_chat_event_full(w)
    PROVE  Licensed'
  <1>1. licence' = licence /\ worker[w].pc = "full"
    BY DEF next_chat_event_full
  <1>2. CASE Went(w, "saving", worker[w].req) /\ conversation'.active = 0
    BY <1>1, <1>2, UnclaimedStep DEF Unclaimed, Went
  <1>3. CASE Went(w, "failing", worker[w].req) /\ UNCHANGED <<conversation, chat_session>>
    BY <1>1, <1>3, SameStep DEF Running
  <1> QED BY <1>2, <1>3, FullBase

LEMMA TokenLicensed ==
    ASSUME Base, Licensed, NEW w \in Workers, NEW blank \in BOOLEAN, NEW eos \in BOOLEAN,
           next_chat_event_token(w, blank, eos)
    PROVE  Licensed'
  <1>1. licence' = licence /\ worker[w].pc = "generated" /\ worker[w].pc \notin Running
    BY DEF next_chat_event_token, Running
  <1>2. CASE /\ Went(w, "saving", worker[w].req) \/ Went(w, "failing", worker[w].req)
             /\ chat_session' = chat_session
             /\ conversation'.active = conversation.active
             /\ conversation'.tasks = conversation.tasks
             /\ conversation'.fabric = conversation.fabric
    <2>1. \E p, r : Went(w, p, r) /\ p # "acting"
      BY <1>2
    <2> QED BY <1>1, <1>2, <2>1, KeptStep
  <1>3. CASE Went(w, "saving", worker[w].req) /\ conversation'.active = 0
    BY <1>1, <1>3, UnclaimedStep DEF Unclaimed, Went
  <1> QED BY <1>2, <1>3, TokenBase

LEMMA ErrorLicensed ==
    ASSUME Base, Licensed, NEW w \in Workers, nativeNextChatEvent_error(w)
    PROVE  Licensed'
  <1>1. licence' = licence /\ worker[w].pc = "failing"
    BY DEF nativeNextChatEvent_error
  <1>2. Went(w, "saving", worker[w].req) /\ conversation' = conversation
    BY ErrorBase
  <1>3. CASE Mine(w)
    <2>1. chat_session'.status = "Failed"
      BY <1>3, ErrorBase
    <2> QED BY <1>1, <1>2, <2>1, UnclaimedStep DEF Unclaimed, Went
  <1>4. CASE ~Mine(w)
    <2>1. chat_session' = chat_session
      BY <1>4, ErrorBase
    <2>2. \A t \in 1..MaxTasks : Claimed(t)' => Claimed(t)
      BY <1>2, <1>4, <2>1 DEF Claimed, Went, Mine
    <2>3. \A v \in Workers : worker'[v].pc = "acting" => worker'[v] = worker[v]
      BY <1>2 DEF Went
    <2> QED BY <1>1, <2>2, <2>3, CalmStep
  <1> QED BY <1>3, <1>4

LEMMA CancelTurnUnclaimed ==
    ASSUME Base, NEW req, NEW task, CancelTurn(req, task)
    PROVE  Unclaimed' \/ UNCHANGED <<conversation, chat_session>>
  BY CancelTurnOK DEF Unclaimed

LEMMA CancelChatLicensed ==
    ASSUME Base, Licensed, NEW w \in Workers, cancel_chat(w)
    PROVE  Licensed'
  <1>1. licence' = licence /\ worker[w].pc \notin Running
    BY DEF cancel_chat, Running
  <1>2. \E p, r : Went(w, p, r) /\ p # "acting"
    BY CancelChatBase
  <1>3. Unclaimed' \/ UNCHANGED <<conversation, chat_session>>
    BY CancelChatBase, CancelTurnUnclaimed
  <1>4. CASE Unclaimed'
    BY <1>1, <1>2, <1>4, UnclaimedStep DEF Went
  <1>5. CASE UNCHANGED <<conversation, chat_session>>
    BY <1>1, <1>2, <1>5, SameStep
  <1> QED BY <1>3, <1>4, <1>5

(* Steps of the UI thread that leave the executors alone.                  *)
LEMMA UiLicensed ==
    ASSUME Base, Licensed, cancelChat \/ \E written \in BOOLEAN : onPause(written)
    PROVE  Licensed'
  <1>1. UNCHANGED <<licence, worker>>
    BY DEF cancelChat, onPause
  <1>2. Unclaimed' \/ UNCHANGED <<conversation, chat_session>>
    <2>1. CancelTurn(ui.req, ui.task) \/ UNCHANGED <<conversation, chat_session>>
      BY DEF cancelChat, onPause, native
    <2> QED BY <2>1, CancelTurnUnclaimed
  <1>3. CASE Unclaimed'
    BY <1>1, <1>3, UnclaimedStep
  <1>4. CASE UNCHANGED <<conversation, chat_session>>
    <2>1. \A t \in 1..MaxTasks : Claimed(t)' => Claimed(t)
      BY <1>1, <1>4 DEF Claimed
    <2> QED BY <1>1, <2>1, CalmStep
  <1> QED BY <1>2, <1>3, <1>4

LEMMA DeniedLicensed ==
    ASSUME Base, Licensed, NEW w \in Workers, resolve_chat_approval_denied(w)
    PROVE  Licensed'
  <1>1. licence' = licence /\ worker[w].pc = "denying" /\ worker[w].pc \notin Running
    BY DEF resolve_chat_approval_denied, Running
  <1>2. CASE Went(w, "saving", worker[w].req) /\ chat_session'.status = "Cancelled"
    BY <1>1, <1>2, UnclaimedStep DEF Unclaimed, Went
  <1>3. CASE Went(w, "saving", worker[w].req) /\ UNCHANGED <<conversation, chat_session>>
    BY <1>1, <1>3, SameStep
  <1> QED BY <1>2, <1>3, DeniedBase

(* An approval that is claimed is counted.                                 *)
LEMMA ApprovedLicensed ==
    ASSUME Base, Licensed, NEW w \in Workers, resolve_chat_approval_approved(w)
    PROVE  Licensed'
  <1>1. worker[w].pc = "approving" /\ worker[w].pc \notin Running
    BY DEF resolve_chat_approval_approved, Running
  <1>2. CASE /\ Went(w, "saving", worker[w].req)
             /\ UNCHANGED <<conversation, chat_session, licence>>
    BY <1>1, <1>2, SameStep
  <1>3. CASE /\ Went(w, "saving", worker[w].req) /\ MineIs(w, "WaitingApproval")
             /\ licence' = IF Fresh(conversation')
                             THEN [licence EXCEPT ![conversation'.active] = @ + 1] ELSE licence
    <2> SUFFICES ASSUME NEW t \in 1..MaxTasks
                 PROVE  licence'[t] >= Cardinality(Acts(t)') + (IF Claimed(t)' THEN 1 ELSE 0)
      BY DEF Licensed
    <2>1. Acts(t)' = Acts(t)
      BY <1>1, <1>3 DEF Acts, Went
    <2>2. Cardinality(Acts(t)) \in Nat
      BY ActsFinite
    <2>3. licence[t] \in Int /\ licence[t] >= Cardinality(Acts(t)) + (IF Claimed(t) THEN 1 ELSE 0)
      BY DEF Base, Licensed
    <2>4. licence \in [1..MaxTasks -> Int]
      BY DEF Base
    <2>5. licence'[t] >= licence[t]
      BY <1>3, <2>3, <2>4
    <2>6. Claimed(t)' => licence'[t] = licence[t] + 1
      BY <1>3, <2>4 DEF Claimed, Claim, Fresh
    <2>7. licence'[t] \in Int
      BY ApprovedBase DEF Base
    <2>8. CASE Claimed(t)'
      BY <2>1, <2>2, <2>3, <2>6, <2>8
    <2>9. CASE ~Claimed(t)'
      BY <2>1, <2>2, <2>3, <2>5, <2>7, <2>9
    <2> QED BY <2>8, <2>9
  <1> QED BY <1>2, <1>3, ApprovedBase

LEMMA CheckpointLicensed ==
    ASSUME Base, Licensed, NEW w \in Workers, restore_chat_checkpoint(w)
    PROVE  Licensed'
  <1>1. licence' = licence
    BY DEF restore_chat_checkpoint
  <1>2. Unclaimed'
    BY CheckpointBase DEF Unclaimed, Claim
  <1>3. \E p, r : Went(w, p, r) /\ p # "acting"
    BY CheckpointBase
  <1> QED BY <1>1, <1>2, <1>3, UnclaimedStep DEF Went

LEMMA DestroyLicensed ==
    ASSUME Base, Licensed, NEW w \in Workers, NEW written \in BOOLEAN, onDestroy(w, written)
    PROVE  Licensed'
  <1>1. UNCHANGED <<licence, conversation, chat_session>>
    BY DEF onDestroy, native
  <1>2. CASE UNCHANGED worker
    <2>1. \A t \in 1..MaxTasks : Claimed(t)' => Claimed(t)
      BY <1>1, <1>2 DEF Claimed
    <2> QED BY <1>1, <1>2, <2>1, CalmStep
  <1>3. CASE recreate(w)
    <2>1. /\ worker'[w].pc = "restoring" /\ worker[w].pc = "stopped"
          /\ \A v \in Workers : v # w =>
               \/ worker'[v] = worker[v]
               \/ worker[v].pc \in AtRest \cup {"panel"} /\ worker'[v].pc = "stopped"
      BY <1>3, RecreateOK DEF recreate
    <2>2. \A v \in Workers : worker'[v].pc = "acting" => worker'[v] = worker[v]
      BY <2>1
    <2>3. \A v \in Workers : worker'[v] = worker[v] \/ worker[v].pc \notin Running
      BY <2>1 DEF Running, AtRest
    <2>4. \A t \in 1..MaxTasks : Claimed(t)' => Claimed(t)
      BY <1>1, <2>3 DEF Claimed
    <2> QED BY <1>1, <2>2, <2>4, CalmStep
  <1> QED BY <1>2, <1>3 DEF onDestroy

LEMMA DeathLicensed ==
    ASSUME Base, processDeath
    PROVE  Licensed'
  <1> SUFFICES ASSUME NEW t \in 1..MaxTasks
               PROVE  licence'[t] >= Cardinality(Acts(t)') + (IF Claimed(t)' THEN 1 ELSE 0)
    BY DEF Licensed
  <1>1. licence'[t] = 0 /\ ~Claimed(t)'
    BY DEF processDeath, Claimed
  <1>2. Acts(t)' = {}
    BY DEF processDeath, Acts, At
  <1>3. Cardinality(Acts(t)') = 0
    BY <1>2, FS_EmptySet
  <1> QED BY <1>1, <1>3

LEMMA LicensedStep == Base /\ Licensed /\ [Next]_vars => Licensed'
  <1> SUFFICES ASSUME Base, Licensed, [Next]_vars PROVE Licensed'
    OBVIOUS
  <1>1. CASE UNCHANGED vars
    <2>1. UNCHANGED <<licence, worker, conversation, chat_session>>
      BY <1>1 DEF vars
    <2>2. \A t \in 1..MaxTasks : Claimed(t)' => Claimed(t)
      BY <2>1 DEF Claimed
    <2> QED BY <2>1, <2>2, CalmStep
  <1>2. ASSUME NEW w \in Workers, Step(w) PROVE Licensed'
    BY <1>2, SavingLicensed, WritingLicensed, IdleLicensed, CommitLicensed, AdvanceLicensed,
       ExecuteLicensed, ExecuteFailsLicensed, ActedLicensed, FullLicensed, TokenLicensed,
       ErrorLicensed, CancelChatLicensed, DeniedLicensed, ApprovedLicensed,
       CheckpointLicensed DEF Step
  <1> QED BY <1>1, <1>2, SubmitLicensed, IdleLicensed, DestroyLicensed, UiLicensed,
             DeathLicensed DEF Next

(* An external write is called afresh only on an approval given in this    *)
(* process that no earlier call has used up, over any number of            *)
(* activities, recreations and deaths and with a disk that may fail: the   *)
(* calls under way and the claim of the conversation never exceed the      *)
(* approvals given.                                                        *)
THEOREM NoReplay == Spec => []NoAutomaticReplay
  <1>1. Init => Licensed
    <2> SUFFICES ASSUME Init PROVE Licensed
      OBVIOUS
    <2> SUFFICES ASSUME NEW t \in 1..MaxTasks
                 PROVE  licence[t] >= Cardinality(Acts(t)) + (IF Claimed(t) THEN 1 ELSE 0)
      BY DEF Licensed
    <2>1. licence[t] = 0 /\ ~Claimed(t) /\ Acts(t) = {}
      BY DEF Init, Claimed, Acts, At
    <2>2. Cardinality(Acts(t)) = 0
      BY <2>1, FS_EmptySet
    <2> QED BY <2>1, <2>2
  <1>2. Base /\ Licensed => NoAutomaticReplay
    <2> SUFFICES ASSUME Base, Licensed, NEW t \in DOMAIN licence PROVE licence[t] >= 0
      BY DEF NoAutomaticReplay
    <2>1. t \in 1..MaxTasks /\ licence[t] \in Int
      BY DEF Base
    <2>2. licence[t] >= Cardinality(Acts(t)) + (IF Claimed(t) THEN 1 ELSE 0)
      BY <2>1 DEF Licensed
    <2>3. Cardinality(Acts(t)) \in Nat
      BY ActsFinite
    <2> QED BY <2>1, <2>2, <2>3
  <1> QED BY <1>1, <1>2, BaseInit, BaseStep, LicensedStep, PTL DEF Spec

-----------------------------------------------------------------------------
(* The Stop button.  The worker publishes its request and then reads the   *)
(* flag; the button sets the flag and then reads the request.              *)

Early == {"reserved", "reasoning", "restoring", "decoding"}
Unnumbered == Early \cup {"idle", "rejected"}
Guarded == Submitting \cup {"cancel", "cancel_flag"}

(* Outside the window in which either side still has to look, the request  *)
(* is flagged or over.                                                     *)
Seen ==
    /\ worker[front].pc \notin Guarded
    /\ front \in chatCancelRequested
    /\ ui.pc \notin {"cancel_read", "cancel_flag"}
    => worker[front].req \in cancelled \/ ~Cancellable(worker[front].req)

(* The button is about to flag the request of the executor on screen.      *)
Aimed ==
    ui.pc = "cancel_flag" /\ front \in chatCancelRequested =>
        worker[front].pc \notin Early /\ worker[front].req \in {ui.req, 0}

Numbered == \A w \in Workers : worker[w].pc \in Unnumbered => worker[w].req = 0

Stop == Seen /\ Aimed /\ Numbered

(* A request that cannot be cancelled any more stays so, and a flag stays  *)
(* set.                                                                    *)
Fades ==
    /\ cancelled \subseteq cancelled'
    /\ \A r \in Nat : r < next_chat_request_id /\ Cancellable(r)' => Cancellable(r)

LEMMA NoRequestZero == Base => ~Cancellable(0)
  BY BaseParts DEF Cancellable

LEMMA SessionFades ==
    ASSUME Base, cancelled \subseteq cancelled',
           \/ chat_session' = chat_session
           \/ chat_session' = None
           \/ chat_session'.request = next_chat_request_id
           \/ chat_session'.status \notin ActiveStatus
           \/ chat_session' # None /\ chat_session # None
              /\ chat_session'.request = chat_session.request
              /\ chat_session.status \in ActiveStatus
    PROVE  Fades
  <1>1. next_chat_request_id \in Nat
    BY BaseParts
  <1> QED BY <1>1 DEF Fades, Cancellable, chat_session_active

LEMMA CancelTurnFades ==
    ASSUME Base, NEW req, NEW task, CancelTurn(req, task), cancelled' = cancelled
    PROVE  Fades
  <1>1. chat_session' = chat_session \/ chat_session'.status \notin ActiveStatus
    BY CancelTurnOK DEF ActiveStatus
  <1> QED BY <1>1, SessionFades

LEMMA StepFades ==
    ASSUME Base, NEW w \in Workers,
           \/ Step(w) \/ submit_chat(w)
           \/ \E approved \in BOOLEAN : resolve_chat_approval(w, approved)
           \/ \E written \in BOOLEAN : onDestroy(w, written)
    PROVE  Fades
  <1>1. ASSUME UNCHANGED <<chat_session, cancelled>> PROVE Fades
    BY <1>1, SessionFades
  <1>2. ASSUME UNCHANGED native PROVE Fades
    BY <1>1, <1>2 DEF native
  <1>3. ASSUME submit_chat(w) PROVE Fades
    BY <1>3, SubmitBase, SessionFades DEF submit_chat
  <1>4. ASSUME NEW kind \in Kinds, NEW fabric \in Fabric, submit_chat_commit(w, kind, fabric)
        PROVE  Fades
    BY <1>4, CommitBase, SessionFades DEF submit_chat_commit
  <1>5. ASSUME submit_chat_release(w) PROVE Fades
    BY <1>1, <1>5 DEF submit_chat_release
  <1>6. ASSUME advance_pending_chat_actions_commit(w) PROVE Fades
    <2>1. cancelled' = cancelled
      BY <1>6 DEF advance_pending_chat_actions_commit
    <2>2. \/ chat_session' = chat_session
          \/ /\ chat_session # None /\ chat_session'.request = chat_session.request
             /\ chat_session.status \in ActiveStatus
      BY <1>6, ActedBase DEF MineIs, Mine, ActiveStatus
    <2> QED BY <2>1, <2>2, SessionFades DEF Fades, Cancellable, chat_session_active
  <1>7. ASSUME next_chat_event_full(w) PROVE Fades
    <2>1. cancelled' = cancelled
      BY <1>7 DEF next_chat_event_full
    <2>2. chat_session' = chat_session \/ chat_session'.status \notin ActiveStatus
      BY <1>7, FullBase DEF ActiveStatus
    <2> QED BY <2>1, <2>2, SessionFades
  <1>8. ASSUME NEW blank \in BOOLEAN, NEW eos \in BOOLEAN, next_chat_event_token(w, blank, eos)
        PROVE  Fades
    <2>1. cancelled' = cancelled
      BY <1>8 DEF next_chat_event_token
    <2>2. chat_session' = chat_session \/ chat_session'.status \notin ActiveStatus
      BY <1>8, TokenBase DEF ActiveStatus
    <2> QED BY <2>1, <2>2, SessionFades
  <1>9. ASSUME nativeNextChatEvent_error(w) PROVE Fades
    <2>1. cancelled' = cancelled
      BY <1>9 DEF nativeNextChatEvent_error
    <2>2. chat_session' = chat_session \/ chat_session'.status \notin ActiveStatus
      BY <1>9, ErrorBase DEF ActiveStatus
    <2> QED BY <2>1, <2>2, SessionFades
  <1>10. ASSUME cancel_chat(w) PROVE Fades
    <2>1. CASE cancelled \subseteq cancelled' /\ chat_session' = chat_session
      BY <2>1, SessionFades
    <2>2. CASE CancelTurn(worker[w].req, worker[w].task) /\ cancelled' = cancelled
      BY <2>2, CancelTurnFades
    <2> QED BY <1>10, <2>1, <2>2 DEF cancel_chat
  <1>11. ASSUME resolve_chat_approval_denied(w) PROVE Fades
    <2>1. cancelled' = cancelled
      BY <1>11 DEF resolve_chat_approval_denied
    <2>2. chat_session' = chat_session \/ chat_session'.status \notin ActiveStatus
      BY <1>11, DeniedBase DEF ActiveStatus
    <2> QED BY <2>1, <2>2, SessionFades
  <1>12. ASSUME resolve_chat_approval_approved(w) PROVE Fades
    <2>1. cancelled' = cancelled
      BY <1>12 DEF resolve_chat_approval_approved
    <2>2. \/ chat_session' = chat_session
          \/ /\ chat_session # None /\ chat_session'.request = chat_session.request
             /\ chat_session.status \in ActiveStatus
      BY <1>12, ApprovedBase DEF MineIs, Mine, ActiveStatus
    <2> QED BY <2>1, <2>2, SessionFades DEF Fades, Cancellable, chat_session_active
  <1>13. ASSUME restore_chat_checkpoint(w) PROVE Fades
    <2>1. cancelled \subseteq cancelled'
      BY <1>13 DEF restore_chat_checkpoint
    <2>2. chat_session' = None \/ chat_session'.request = next_chat_request_id
      BY <1>13, CheckpointBase
    <2> QED BY <2>1, <2>2, SessionFades
  <1>14. ASSUME Step(w) PROVE Fades
    <2>1. ASSUME \/ saving(w) \/ submit_chat_snapshot(w) \/ submit_chat_failed(w)
                 \/ submitChat(w) \/ terminal_chat_event(w) \/ advance_pending_chat_actions(w)
                 \/ next_chat_event(w) \/ showPanel(w) \/ resolve_chat_approval_fails(w)
                 \/ restoreConversation(w)
                 \/ \E written \in BOOLEAN : writing(w, written)
                 \/ \E o \in {"Completed", "Suspended", "Retryable"} :
                      execute_android_verified_actions(w, o)
                 \/ \E acted \in BOOLEAN : execute_android_verified_actions_fails(w, acted)
          PROVE  Fades
      BY <1>2, <2>1 DEF saving, submit_chat_snapshot, submit_chat_failed, submitChat,
           terminal_chat_event, advance_pending_chat_actions, next_chat_event, showPanel,
           resolve_chat_approval_fails, restoreConversation, writing,
           execute_android_verified_actions, execute_android_verified_actions_fails
    <2> QED BY <1>4, <1>5, <1>6, <1>7, <1>8, <1>9, <1>10, <1>11, <1>12, <1>13, <1>14, <2>1
            DEF Step
  <1> QED BY <1>2, <1>3, <1>14 DEF resolve_chat_approval, onDestroy

(* A step of one executor, on screen or not.                               *)
LEMMA WorkerStop ==
    ASSUME Base, Base', Stop, Fades, UNCHANGED <<ui, front>>,
           chatCancelRequested' \subseteq chatCancelRequested,
           NEW w \in Workers, NEW p, NEW r, Went(w, p, r),
           p \in Unnumbered => r = 0,
           w = front /\ w \in chatCancelRequested' =>
             /\ \/ p \in Guarded \/ r \in cancelled' \/ ~Cancellable(r)'
                \/ worker[w].pc \notin Guarded /\ r = worker[w].req
             /\ worker[w].pc \in Early \/ (p \notin Early /\ r \in {worker[w].req, 0})
    PROVE  Stop'
  <1>1. Numbered'
    BY DEF Went, Numbered, Stop
  <1>2. front \in Workers /\ worker[front].req \in Nat
        /\ worker[front].req < next_chat_request_id
    BY BaseParts, RequestSize DEF Base, JavaOK
  <1>3. CASE w # front
    <2>1. worker'[front] = worker[front] /\ front' = front /\ ui' = ui
      BY <1>2, <1>3 DEF Went
    <2>2. Seen'
      <3>1. Cancellable(worker[front].req)' => Cancellable(worker[front].req)
        BY <1>2, <2>1 DEF Fades, Cancellable, chat_session_active
      <3> QED BY <2>1, <3>1 DEF Seen, Stop, Fades
    <2>3. Aimed'
      BY <2>1 DEF Aimed, Stop
    <2> QED BY <1>1, <2>2, <2>3 DEF Stop
  <1>4. CASE w = front
    <2>1. worker'[front].pc = p /\ worker'[front].req = r /\ front' = front /\ ui' = ui
      BY <1>4 DEF Went
    <2>2. Seen'
      <3> SUFFICES ASSUME p \notin Guarded, front \in chatCancelRequested',
                          ui.pc \notin {"cancel_read", "cancel_flag"}
                   PROVE  r \in cancelled' \/ ~Cancellable(r)'
        BY <2>1 DEF Seen, Cancellable, chat_session_active
      <3>1. \/ r \in cancelled' \/ ~Cancellable(r)'
            \/ worker[w].pc \notin Guarded /\ r = worker[w].req
        BY <1>4
      <3>2. CASE worker[w].pc \notin Guarded /\ r = worker[w].req
        <4>1. r \in cancelled \/ ~Cancellable(r)
          BY <1>4, <3>2 DEF Seen, Stop
        <4> QED BY <1>2, <1>4, <3>2, <4>1 DEF Fades
      <3> QED BY <3>1, <3>2
    <2>3. Aimed'
      <3> SUFFICES ASSUME ui.pc = "cancel_flag", front \in chatCancelRequested'
                   PROVE  p \notin Early /\ r \in {ui.req, 0}
        BY <2>1 DEF Aimed
      <3>1. worker[w].pc \notin Early /\ worker[w].req \in {ui.req, 0}
        BY <1>4 DEF Aimed, Stop
      <3> QED BY <1>4, <3>1
    <2> QED BY <1>1, <2>2, <2>3 DEF Stop
  <1> QED BY <1>3, <1>4

(* Most steps begin outside the window and keep or drop the request.       *)
LEMMA PlainStop ==
    ASSUME Base, Base', Stop, Fades, UNCHANGED <<ui, front, chatCancelRequested>>,
           NEW w \in Workers, NEW p, NEW r, Went(w, p, r),
           worker[w].pc \notin Guarded, p \notin Unnumbered \ {"idle"},
           \/ r = worker[w].req /\ p # "idle"
           \/ r = 0
    PROVE  Stop'
  <1>1. ~Cancellable(0)'
    <2>1. (Base => ~Cancellable(0))'
      BY NoRequestZero, PTL
    <2> QED BY <2>1
  <1>2. r = 0 => ~Cancellable(r)'
    BY <1>1
  <1>3. p \in Unnumbered => r = 0
    OBVIOUS
  <1>4. p \notin Early
    BY DEF Unnumbered, Early
  <1>5. /\ \/ p \in Guarded \/ r \in cancelled' \/ ~Cancellable(r)'
           \/ worker[w].pc \notin Guarded /\ r = worker[w].req
        /\ worker[w].pc \in Early \/ (p \notin Early /\ r \in {worker[w].req, 0})
    BY <1>2, <1>4
  <1> QED BY <1>3, <1>5, WorkerStop

LEMMA PlainActions ==
    ASSUME Base, Stop, NEW w \in Workers,
           \/ saving(w) \/ \E written \in BOOLEAN : writing(w, written)
           \/ terminal_chat_event(w) \/ advance_pending_chat_actions(w)
           \/ \E o \in {"Completed", "Suspended", "Retryable"} :
                execute_android_verified_actions(w, o)
           \/ \E acted \in BOOLEAN : execute_android_verified_actions_fails(w, acted)
           \/ advance_pending_chat_actions_commit(w)
           \/ next_chat_event(w) \/ next_chat_event_full(w)
           \/ \E blank, eos \in BOOLEAN : next_chat_event_token(w, blank, eos)
           \/ nativeNextChatEvent_error(w) \/ showPanel(w)
           \/ \E approved \in BOOLEAN : resolve_chat_approval(w, approved)
           \/ resolve_chat_approval_denied(w) \/ resolve_chat_approval_approved(w)
           \/ resolve_chat_approval_fails(w)
    PROVE  Stop'
  <1>1. Base'
    BY SavingBase, WritingBase, TerminalBase, AdvanceBase, ExecuteBase, ExecuteFailsBase,
       ActedBase, NextEventBase, FullBase, TokenBase, ErrorBase, PanelBase, ResolveBase,
       DeniedBase, ApprovedBase, ApproveFailsBase
  <1>2. Fades
    BY StepFades DEF Step
  <1>3. UNCHANGED <<ui, front, chatCancelRequested>>
    BY DEF saving, writing, terminal_chat_event, advance_pending_chat_actions,
           execute_android_verified_actions, execute_android_verified_actions_fails,
           advance_pending_chat_actions_commit, next_chat_event, next_chat_event_full,
           next_chat_event_token, nativeNextChatEvent_error, showPanel, resolve_chat_approval,
           resolve_chat_approval_denied, resolve_chat_approval_approved,
           resolve_chat_approval_fails, java, activity
  <1>4. worker[w].pc \notin Guarded
    BY DEF saving, writing, terminal_chat_event, advance_pending_chat_actions,
           execute_android_verified_actions, execute_android_verified_actions_fails,
           advance_pending_chat_actions_commit, next_chat_event, next_chat_event_full,
           next_chat_event_token, nativeNextChatEvent_error, showPanel, resolve_chat_approval,
           resolve_chat_approval_denied, resolve_chat_approval_approved,
           resolve_chat_approval_fails, Guarded, Submitting
  <1>5. \E p, r : /\ Went(w, p, r) /\ p \notin Unnumbered \ {"idle"}
                  /\ (r = worker[w].req /\ p # "idle") \/ r = 0
    <2> DEFINE Fine(p, r) == /\ Went(w, p, r) /\ p \notin Unnumbered \ {"idle"}
                             /\ (r = worker[w].req /\ p # "idle") \/ r = 0
    <2>1. \A p \in {"writing", "saving", "stopped", "poll", "panel", "refused", "pending", "next",
                    "failing", "acting", "acted", "full", "cancel", "generated", "waiting",
                    "approving", "denying"} :
            Went(w, p, worker[w].req) => Fine(p, worker[w].req)
      BY DEF Unnumbered, Early
    <2>2. \A p \in {"idle", "stopped"} : Went(w, p, 0) => Fine(p, 0)
      BY DEF Unnumbered, Early
    <2> HIDE DEF Fine
    <2>3. \E p, r : Fine(p, r)
      <3>1. CASE saving(w)
        BY <2>1, <3>1, SavingBase
      <3>2. CASE \E written \in BOOLEAN : writing(w, written)
        BY <2>1, <2>2, <3>2, WritingBase
      <3>3. CASE terminal_chat_event(w)
        BY <2>1, <3>3, TerminalBase
      <3>4. CASE advance_pending_chat_actions(w)
        BY <2>1, <3>4, AdvanceBase
      <3>5. CASE \E o \in {"Completed", "Suspended", "Retryable"} :
                   execute_android_verified_actions(w, o)
        BY <2>1, <3>5, ExecuteBase
      <3>6. CASE \E acted \in BOOLEAN : execute_android_verified_actions_fails(w, acted)
        BY <2>1, <3>6, ExecuteFailsBase
      <3>7. CASE advance_pending_chat_actions_commit(w)
        BY <2>1, <3>7, ActedBase
      <3>8. CASE next_chat_event(w)
        BY <2>1, <3>8, NextEventBase
      <3>9. CASE next_chat_event_full(w)
        BY <2>1, <3>9, FullBase
      <3>10. CASE \E blank, eos \in BOOLEAN : next_chat_event_token(w, blank, eos)
        BY <2>1, <3>10, TokenBase
      <3>11. CASE nativeNextChatEvent_error(w)
        BY <2>1, <3>11, ErrorBase
      <3>12. CASE showPanel(w)
        BY <2>1, <3>12, PanelBase
      <3>13. CASE \E approved \in BOOLEAN : resolve_chat_approval(w, approved)
        BY <2>1, <3>13, ResolveBase
      <3>14. CASE resolve_chat_approval_denied(w)
        BY <2>1, <3>14, DeniedBase
      <3>15. CASE resolve_chat_approval_approved(w)
        BY <2>1, <3>15, ApprovedBase
      <3>16. CASE resolve_chat_approval_fails(w)
        BY <2>1, <3>16, ApproveFailsBase
      <3> QED BY <3>1, <3>2, <3>3, <3>4, <3>5, <3>6, <3>7, <3>8, <3>9, <3>10, <3>11, <3>12,
                 <3>13, <3>14, <3>15, <3>16
    <2> QED BY <2>3 DEF Fine
  <1> QED BY <1>1, <1>2, <1>3, <1>4, <1>5, PlainStop

(* Submitting: Send takes the flag back, the rest happens inside the       *)
(* window or without a request.                                            *)
LEMMA SubmitStop ==
    ASSUME Base, Stop, NEW w \in Workers,
           \/ submit_chat(w) \/ submit_chat_snapshot(w) \/ submit_chat_failed(w)
           \/ \E kind \in Kinds, fabric \in Fabric : submit_chat_commit(w, kind, fabric)
           \/ submit_chat_release(w) \/ submitChat(w)
    PROVE  Stop'
  <1>1. Base' /\ Fades
    BY SubmitBase, SnapshotBase, FailedBase, CommitBase, ReleaseBase, SubmitChatBase, StepFades
       DEF Step
  <1>2. UNCHANGED <<ui, front>>
    BY DEF submit_chat, submit_chat_snapshot, submit_chat_failed, submit_chat_commit,
           submit_chat_release, submitChat, java, activity
  <1>3. ~Cancellable(0)'
    <2>1. (Base => ~Cancellable(0))'
      BY NoRequestZero, PTL
    <2> QED BY <1>1, <2>1
  <1>4. worker[w].pc \in Unnumbered => worker[w].req = 0
    BY DEF Stop, Numbered
  <1>5. CASE submit_chat(w)
    <2>1. worker[w].req = 0 /\ chatCancelRequested' = chatCancelRequested \ {w}
      BY <1>4, <1>5 DEF submit_chat, Unnumbered
    <2>2. Went(w, "saving", 0) \/ Went(w, "reserved", 0)
      BY <1>5, <2>1, SubmitBase
    <2> QED BY <1>1, <1>2, <2>1, <2>2, WorkerStop
  <1>6. CASE submit_chat_snapshot(w) \/ submit_chat_failed(w)
    <2>1. worker[w].req = 0 /\ worker[w].pc \in Early /\ chatCancelRequested' = chatCancelRequested
      BY <1>4, <1>6 DEF submit_chat_snapshot, submit_chat_failed, Unnumbered, Early, java
    <2>2. Went(w, "rejected", 0) \/ Went(w, "reasoning", 0)
      BY <1>6, <2>1, SnapshotBase, FailedBase
    <2>3. "rejected" \in Guarded /\ "reasoning" \in Guarded
      BY DEF Guarded, Submitting
    <2> QED BY <1>1, <1>2, <2>1, <2>2, <2>3, WorkerStop
  <1>7. CASE \E kind \in Kinds, fabric \in Fabric : submit_chat_commit(w, kind, fabric)
    <2>1. worker[w].pc \in Early /\ chatCancelRequested' = chatCancelRequested
      BY <1>7 DEF submit_chat_commit, Early, java
    <2>2. Went(w, "submitted", next_chat_request_id)
      BY <1>7, CommitBase
    <2>3. "submitted" \in Guarded /\ "submitted" \notin Unnumbered
      BY DEF Guarded, Submitting, Unnumbered, Early
    <2> QED BY <1>1, <1>2, <2>1, <2>2, <2>3, WorkerStop
  <1>8. CASE submit_chat_release(w)
    <2>1. chatCancelRequested' = chatCancelRequested
      BY <1>8 DEF submit_chat_release, java
    <2>2. CASE Went(w, "returned", worker[w].req) /\ worker[w].pc = "submitted"
      <3>1. "returned" \in Guarded /\ "returned" \notin Unnumbered /\ "returned" \notin Early
        BY DEF Guarded, Submitting, Unnumbered, Early
      <3> QED BY <1>1, <1>2, <2>1, <2>2, <3>1, WorkerStop
    <2>3. CASE Went(w, "saving", worker[w].req) /\ worker[w].pc = "rejected"
      <3>1. "saving" \notin Unnumbered /\ "saving" \notin Early /\ worker[w].req = 0
        BY <1>4, <2>3 DEF Unnumbered, Early
      <3> QED BY <1>1, <1>2, <1>3, <2>1, <2>3, <3>1, WorkerStop
    <2> QED BY <1>8, <2>2, <2>3, ReleaseBase
  <1>9. CASE submitChat(w)
    <2>1. chatCancelRequested' = chatCancelRequested
      BY <1>9 DEF submitChat, java
    <2>2. "cancel" \in Guarded /\ "cancel" \notin Unnumbered /\ "cancel" \notin Early
          /\ "poll" \notin Unnumbered
      BY DEF Guarded, Unnumbered, Early
    <2>3. CASE Went(w, "cancel", worker[w].req)
      BY <1>1, <1>2, <2>1, <2>2, <2>3, WorkerStop
    <2>4. CASE Went(w, "poll", worker[w].req) /\ w \notin chatCancelRequested
      BY <1>1, <1>2, <2>1, <2>2, <2>4, WorkerStop
    <2> QED BY <1>9, <2>3, <2>4, SubmitChatBase
  <1> QED BY <1>5, <1>6, <1>7, <1>8, <1>9

LEMMA CancelChatStop ==
    ASSUME Base, Stop, NEW w \in Workers, cancel_chat(w)
    PROVE  Stop'
  <1>1. Base' /\ Fades
    BY CancelChatBase, StepFades DEF Step
  <1>2. UNCHANGED <<ui, front, chatCancelRequested>>
    BY DEF cancel_chat, java, activity
  <1> DEFINE r == worker[w].req
  <1>3. /\ "poll" \notin Unnumbered /\ "saving" \notin Unnumbered
        /\ "cancel_flag" \notin Unnumbered /\ "cancel_write" \notin Unnumbered
        /\ "poll" \notin Early /\ "saving" \notin Early
        /\ "cancel_flag" \notin Early /\ "cancel_write" \notin Early
        /\ "cancel_flag" \in Guarded
    BY DEF Unnumbered, Early, Guarded
  <1>4. CASE worker[w].pc = "cancel" /\ Went(w, "cancel_flag", r)
    BY <1>1, <1>2, <1>3, <1>4, WorkerStop
  <1>5. CASE /\ worker[w].pc = "cancel" /\ ~Cancellable(worker[w].req)
             /\ Went(w, "poll", r) \/ Went(w, "saving", r)
             /\ UNCHANGED <<conversation, chat_session, cancelled>>
    <2>1. r \in Nat
      BY BaseParts, RequestSize
    <2>2. PICK k \in Nat : k = r
      BY <2>1
    <2>3. ~Cancellable(k)'
      BY <1>5, <2>2 DEF Cancellable, chat_session_active
    <2>4. CASE Went(w, "poll", k)
      BY <1>1, <1>2, <1>3, <1>5, <2>2, <2>3, <2>4, WorkerStop
    <2>5. CASE Went(w, "saving", k)
      BY <1>1, <1>2, <1>3, <1>5, <2>2, <2>3, <2>5, WorkerStop
    <2> QED BY <1>5, <2>2, <2>4, <2>5
  <1>6. CASE /\ worker[w].pc = "cancel_flag" /\ Went(w, "cancel_write", r)
             /\ cancelled' = cancelled \cup {worker[w].req}
    BY <1>1, <1>2, <1>3, <1>6, WorkerStop
  <1>7. CASE /\ worker[w].pc = "cancel_write"
             /\ Went(w, "poll", r) \/ Went(w, "saving", r)
    <2>1. worker[w].pc \notin Guarded
      BY <1>7 DEF Guarded, Submitting
    <2> QED BY <1>1, <1>2, <1>3, <1>7, <2>1, PlainStop
  <1> QED BY <1>4, <1>5, <1>6, <1>7, CancelChatBase

LEMMA RestoreStop ==
    ASSUME Base, Stop, NEW w \in Workers, restoreConversation(w) \/ restore_chat_checkpoint(w)
    PROVE  Stop'
  <1>1. Base' /\ Fades
    BY RestoreBase, CheckpointBase, StepFades DEF Step
  <1>2. UNCHANGED <<ui, front>> /\ worker[w].pc \in Early
    BY DEF restoreConversation, restore_chat_checkpoint, activity, Early
  <1>3. ~Cancellable(0)'
    <2>1. (Base => ~Cancellable(0))'
      BY NoRequestZero, PTL
    <2> QED BY <1>1, <2>1
  <1>4. CASE /\ Went(w, "idle", 0) \/ Went(w, "stopped", 0) \/ Went(w, "decoding", 0)
             /\ chatCancelRequested' = chatCancelRequested
    BY <1>1, <1>2, <1>3, <1>4, WorkerStop
  <1>5. CASE /\ Went(w, "poll", next_chat_request_id)
             /\ chatCancelRequested' = chatCancelRequested \ {w}
    <2>1. "poll" \notin Unnumbered
      BY DEF Unnumbered, Early
    <2> QED BY <1>1, <1>2, <1>5, <2>1, WorkerStop
  <1>6. restoreConversation(w) => chatCancelRequested' = chatCancelRequested
    BY DEF restoreConversation
  <1> QED BY <1>4, <1>5, <1>6, RestoreBase, CheckpointBase

(* The button itself.                                                      *)
LEMMA ButtonStop ==
    ASSUME Base, Stop, cancelChat
    PROVE  Stop'
  <1>1. UNCHANGED <<worker, front>>
    BY DEF cancelChat, activity
  <1>2. Numbered'
    BY <1>1 DEF Stop, Numbered
  <1>3. /\ front \in Workers /\ worker[front].req \in Nat
        /\ worker[front].req < next_chat_request_id /\ ~Cancellable(0)
    BY BaseParts, RequestSize, NoRequestZero DEF Base, JavaOK
  <1>4. CASE ui' = [UiIdle EXCEPT !.pc = "cancel_read"]
    <2>1. ui'.pc = "cancel_read"
      BY <1>4 DEF UiIdle
    <2> QED BY <1>2, <2>1 DEF Stop, Seen, Aimed
  <1>5. CASE /\ ui.pc = "cancel_read"
             /\ ui' = IF activeChatRequestId(front) # 0 /\ Cancellable(activeChatRequestId(front))
                        THEN [UiIdle EXCEPT !.pc = "cancel_flag",
                                !.req = activeChatRequestId(front), !.task = chat_session.task]
                        ELSE UiIdle
             /\ UNCHANGED <<conversation, chat_session, cancelled, chatCancelRequested>>
    <2> DEFINE r == activeChatRequestId(front)
    <2>1. CASE r # 0 /\ Cancellable(r)
      <3>1. ui'.pc = "cancel_flag" /\ ui'.req = r
        BY <1>5, <2>1 DEF UiIdle
      <3>2. r = worker[front].req /\ worker[front].pc \notin Early
        BY <1>3, <2>1 DEF activeChatRequestId, Stop, Numbered, Unnumbered
      <3> QED BY <1>1, <1>2, <3>1, <3>2 DEF Stop, Seen, Aimed
    <2>2. CASE ~(r # 0 /\ Cancellable(r))
      <3>1. ui'.pc = "idle"
        BY <1>5, <2>2 DEF UiIdle
      <3>2. worker[front].pc \notin Guarded => ~Cancellable(worker[front].req)
        BY <1>3, <2>2 DEF activeChatRequestId, Guarded, Submitting
      <3>3. Cancellable(worker[front].req)' = Cancellable(worker[front].req)
        BY <1>1, <1>5 DEF Cancellable, chat_session_active
      <3> QED BY <1>1, <1>2, <3>1, <3>2, <3>3 DEF Stop, Seen, Aimed
    <2> QED BY <2>1, <2>2
  <1>6. CASE /\ ui.pc = "cancel_flag" /\ cancelled' = cancelled \cup {ui.req}
             /\ ui' = [ui EXCEPT !.pc = "cancel_write"]
             /\ UNCHANGED <<conversation, chat_session, chatCancelRequested>>
    <2>1. ui'.pc = "cancel_write"
      BY <1>6 DEF Base, UiOK
    <2>2. front \in chatCancelRequested => worker[front].req \in {ui.req, 0}
      BY <1>6 DEF Stop, Aimed
    <2>3. worker[front].req = 0 => ~Cancellable(worker[front].req)'
      BY <1>1, <1>3, <1>6 DEF Cancellable, chat_session_active
    <2> QED BY <1>1, <1>2, <1>6, <2>1, <2>2, <2>3 DEF Stop, Seen, Aimed
  <1>7. CASE /\ ui.pc = "cancel_write" /\ CancelTurn(ui.req, ui.task) /\ ui' = UiIdle
             /\ UNCHANGED <<cancelled, chatCancelRequested>>
    <2>1. ui'.pc = "idle"
      BY <1>7 DEF UiIdle
    <2>2. Fades
      BY <1>7, CancelTurnFades
    <2>3. Cancellable(worker[front].req)' => Cancellable(worker[front].req)
      BY <1>1, <1>3, <2>2 DEF Fades, Cancellable, chat_session_active
    <2> QED BY <1>1, <1>2, <1>7, <2>1, <2>3 DEF Stop, Seen, Aimed
  <1> QED BY <1>4, <1>5, <1>6, <1>7 DEF cancelChat

LEMMA PauseStop ==
    ASSUME Base, Stop, NEW written \in BOOLEAN, onPause(written)
    PROVE  Stop'
  <1>1. /\ ui.pc \in {"idle", "writing"} /\ ui'.pc \in {"idle", "writing"}
        /\ UNCHANGED <<native, worker, front, chatCancelRequested>>
    <2>1. CASE ui.pc = "idle" /\ ui' = [UiIdle EXCEPT !.pc = "writing", !.copy = conversation]
      BY <2>1 DEF onPause, UiIdle, java, activity
    <2>2. CASE ui.pc = "writing" /\ ui' = UiIdle
      BY <2>2 DEF onPause, UiIdle, java, activity
    <2> QED BY <2>1, <2>2 DEF onPause
  <1>2. Numbered'
    BY <1>1 DEF Stop, Numbered
  <1>3. Seen'
    BY <1>1 DEF Stop, Seen, Cancellable, chat_session_active, native
  <1> QED BY <1>1, <1>2, <1>3 DEF Stop, Aimed

LEMMA DestroyStop ==
    ASSUME Base, Stop, NEW w \in Workers, NEW written \in BOOLEAN, onDestroy(w, written)
    PROVE  Stop'
  <1>1. CASE recreate(w)
    <2>1. front' = w /\ w \notin chatCancelRequested'
      BY <1>1 DEF recreate
    <2>2. Seen' /\ Aimed'
      BY <2>1 DEF Seen, Aimed
    <2>3. /\ worker'[w].pc = "restoring" /\ worker'[w].req = 0
          /\ \A v \in Workers : v # w =>
                worker'[v] = worker[v] \/ worker'[v].req = 0
      BY <1>1, RecreateOK
    <2>4. Numbered'
      BY <2>3 DEF Stop, Numbered
    <2> QED BY <2>2, <2>4 DEF Stop
  <1>2. CASE /\ ui.pc = "idle"
             /\ ui' = [UiIdle EXCEPT !.pc = "destroying", !.copy = conversation]
             /\ UNCHANGED <<worker, disk, front, interrupted, recreations, conversationRestored,
                            chatCancelRequested>>
    <2>1. ui'.pc = "destroying" /\ UNCHANGED native
      BY <1>2 DEF UiIdle, onDestroy
    <2>2. Numbered'
      BY <1>2 DEF Stop, Numbered
    <2>3. Seen'
      BY <1>2, <2>1 DEF Stop, Seen, Cancellable, chat_session_active, native
    <2> QED BY <2>1, <2>2, <2>3 DEF Stop, Aimed
  <1> QED BY <1>1, <1>2 DEF onDestroy

LEMMA DeathStop ==
    ASSUME processDeath
    PROVE  Stop'
  <1>1. chatCancelRequested' = {} /\ \A w \in Workers : worker'[w].req = 0
    BY DEF processDeath, At
  <1> QED BY <1>1 DEF Stop, Seen, Aimed, Numbered

LEMMA StopStep == Base /\ Stop /\ [Next]_vars => Stop'
  <1> SUFFICES ASSUME Base, Stop, [Next]_vars PROVE Stop'
    OBVIOUS
  <1>1. CASE UNCHANGED vars
    BY <1>1 DEF vars, Stop, Seen, Aimed, Numbered, Cancellable, chat_session_active
  <1>2. ASSUME NEW w \in Workers, Step(w) PROVE Stop'
    BY <1>2, PlainActions, SubmitStop, CancelChatStop, RestoreStop DEF Step
  <1> QED BY <1>1, <1>2, PlainActions, SubmitStop, ButtonStop, PauseStop, DestroyStop, DeathStop
          DEF Next

LEMMA StopStart == Init => Stop
  <1> SUFFICES ASSUME Init PROVE Stop
    OBVIOUS
  <1>1. chatCancelRequested = {} /\ \A w \in Workers : worker[w].req = 0
    BY DEF Init, At
  <1> QED BY <1>1 DEF Stop, Seen, Aimed, Numbered

(* A Stop is not lost, whenever it is pressed and whatever the other       *)
(* threads do: neither side takes a lock for it, but one of the two sees   *)
(* what the other wrote.                                                   *)
THEOREM StopIsSeen == Spec => []StopIsNotLost
  <1>1. Stop => StopIsNotLost
    BY DEF Stop, Seen, StopIsNotLost, Guarded, Submitting, Polling
  <1> QED BY <1>1, BaseInit, BaseStep, StopStart, StopStep, PTL DEF Spec

-----------------------------------------------------------------------------
(* One activity.  Without recreation the first executor is the only one    *)
(* that runs, and what it does agrees with the session: there is one       *)
(* request, the executor's, and the UI thread may be about to cancel it or *)
(* an earlier one.                                                         *)

Alone ==
    /\ front = First /\ interrupted = {}
    /\ \A w \in Workers : w # First => worker[w].pc = "stopped"

(* From the commit of a submit or a restore to finishChatUi the executor   *)
(* has a request, and that is the session's.                               *)
Attending == Polling \cup {"submitted", "returned", "panel", "waiting", "refused", "approving",
                           "denying"}
Attends(x) ==
    \/ x.pc \in Attending
    \/ x.pc \in {"saving", "writing"} /\ x.after \notin {"idle", "stopped"}

Owned ==
    /\ Attends(worker[First]) => worker[First].req # 0
    /\ worker[First].req # 0 =>
          chat_session # None /\ chat_session.request = worker[First].req

(* A cancellation on the UI thread is not about the task of a later        *)
(* request.                                                                *)
Ending == {"cancel_flag", "cancel_write"}
Opening == {"restoring", "decoding"}
Apart ==
    ui.pc \in Ending =>
        /\ worker[First].pc \notin Opening
        /\ ui.task \in 1..Len(conversation.tasks)
        /\ chat_session_active /\ chat_session.request # ui.req => chat_session.task # ui.task

(* The copy an answer is about to commit has no fewer tasks.               *)
Resolving == {"approving", "denying"}
SameTasks ==
    worker[First].pc \in Resolving => Len(worker[First].copy.tasks) = Len(conversation.tasks)

Solid == Alone /\ Owned /\ Apart /\ SameTasks /\ SessionMatchesTurn

LEMMA SoleMoves ==
    ASSUME Base, Solid, NEW p, NEW r, Went(First, p, r), UNCHANGED <<ui, front, interrupted>>,
           SessionMatchesTurn',
           Attends(worker'[First]) => r # 0,
           r # 0 => chat_session' # None /\ chat_session'.request = r,
           p \in Resolving => Len(worker'[First].copy.tasks) = Len(conversation'.tasks),
           ui.pc \in Ending =>
             /\ p \notin Opening
             /\ ui.task \in 1..Len(conversation'.tasks)
             /\ chat_session_active' /\ chat_session'.request # ui.req =>
                   chat_session'.task # ui.task
    PROVE  Solid'
  <1>1. First \in Workers
    BY ChatAssumption
  <1>2. Alone'
    BY <1>1 DEF Went, Solid, Alone
  <1>3. worker'[First].pc = p /\ worker'[First].req = r
    BY DEF Went
  <1>4. Owned'
    BY <1>3 DEF Owned, Attends
  <1>5. Apart'
    BY <1>3 DEF Apart
  <1>6. SameTasks'
    BY <1>3 DEF SameTasks
  <1> QED BY <1>2, <1>4, <1>5, <1>6 DEF Solid

(* The executor goes on with its request, or puts it down, and the session *)
(* and the tasks stay.                                                     *)
LEMMA SoleGoesOn ==
    ASSUME Base, Solid, NEW p, NEW r, Went(First, p, r), UNCHANGED <<ui, front, interrupted>>,
           chat_session' = chat_session, conversation'.active = conversation.active,
           conversation'.tasks = conversation.tasks,
           r \in {0, worker[First].req},
           Attends(worker'[First]) => worker[First].req # 0 /\ r = worker[First].req,
           p \notin Resolving,
           p \notin Opening \/ worker[First].pc \in Opening
    PROVE  Solid'
  <1>1. SessionMatchesTurn'
    BY DEF Solid, SessionMatchesTurn, chat_session_active
  <1>2. chat_session_active' = chat_session_active
    BY DEF chat_session_active
  <1>3. ui.pc \in Ending =>
             /\ p \notin Opening
             /\ ui.task \in 1..Len(conversation'.tasks)
             /\ chat_session_active' /\ chat_session'.request # ui.req =>
                   chat_session'.task # ui.task
    BY <1>2 DEF Solid, Apart
  <1>4. r # 0 => chat_session' # None /\ chat_session'.request = r
    BY DEF Solid, Owned
  <1> QED BY <1>1, <1>3, <1>4, SoleMoves

(* The session is over.                                                    *)
LEMMA SoleEnds ==
    ASSUME Base, Solid, NEW p, NEW r, Went(First, p, r), UNCHANGED <<ui, front, interrupted>>,
           ~chat_session_active',
           Len(conversation'.tasks) = Len(conversation.tasks) \/ ui.pc \notin Ending,
           r = 0 \/ (r = worker[First].req /\ chat_session' # None
                     /\ chat_session'.request = chat_session.request),
           Attends(worker'[First]) => r # 0,
           p \notin Resolving,
           p \notin Opening \/ worker[First].pc \in Opening
    PROVE  Solid'
  <1>1. SessionMatchesTurn'
    BY DEF SessionMatchesTurn
  <1>3. ui.pc \in Ending =>
             /\ p \notin Opening
             /\ ui.task \in 1..Len(conversation'.tasks)
             /\ chat_session_active' /\ chat_session'.request # ui.req =>
                   chat_session'.task # ui.task
    BY DEF Solid, Apart
  <1>4. r # 0 => chat_session' # None /\ chat_session'.request = r
    BY DEF Solid, Owned
  <1> QED BY <1>1, <1>3, <1>4, SoleMoves

LEMMA SoleRuns ==
    ASSUME Solid, NEW w \in Workers, worker[w].pc # "stopped"
    PROVE  w = First
  BY DEF Solid, Alone

LEMMA SoleAttends ==
    ASSUME Solid, worker[First].pc \in Attending
    PROVE  worker[First].req # 0 /\ Mine(First)
  BY DEF Solid, Owned, Attends, Mine

(* Where an executor attends to nothing.                                   *)
LEMMA AwayPlaces ==
    /\ \A p \in {"idle", "stopped", "reserved", "reasoning", "rejected", "restoring",
                 "decoding"} : p \notin Attending
    /\ "saving" \notin Attending /\ "writing" \notin Attending
    /\ Polling \subseteq Attending
    /\ \A p \in Attending : p \notin Opening
  BY DEF Attending, Polling, Opening
(* Steps that leave session and conversation alone.                        *)
LEMMA SoleSilent ==
    ASSUME Base, Solid, NEW w \in Workers,
           \/ saving(w) \/ \E written \in BOOLEAN : writing(w, written)
           \/ submit_chat_snapshot(w) \/ submit_chat_failed(w) \/ submit_chat_release(w)
           \/ submitChat(w) \/ terminal_chat_event(w) \/ advance_pending_chat_actions(w)
           \/ \E o \in {"Completed", "Suspended", "Retryable"} :
                execute_android_verified_actions(w, o)
           \/ \E acted \in BOOLEAN : execute_android_verified_actions_fails(w, acted)
           \/ next_chat_event(w) \/ showPanel(w) \/ resolve_chat_approval_fails(w)
           \/ restoreConversation(w)
    PROVE  Solid'
  <1>1. worker[w].pc # "stopped"
    BY DEF saving, writing, submit_chat_snapshot, submit_chat_failed, submit_chat_release,
           submitChat, terminal_chat_event, advance_pending_chat_actions,
           execute_android_verified_actions, execute_android_verified_actions_fails,
           next_chat_event, showPanel, resolve_chat_approval_fails, restoreConversation
  <1>2. w = First
    BY <1>1, SoleRuns
  <1>3. UNCHANGED <<ui, front, interrupted, chat_session, conversation>>
    BY DEF saving, writing, submit_chat_snapshot, submit_chat_failed, submit_chat_release,
           submitChat, terminal_chat_event, advance_pending_chat_actions,
           execute_android_verified_actions, execute_android_verified_actions_fails,
           next_chat_event, showPanel, resolve_chat_approval_fails, restoreConversation,
           native, java, activity
  <1> DEFINE q == worker[First].req
             At1(p) == Went(First, p, q)
  <1>4. First \in Workers /\ First \notin interrupted
    BY ChatAssumption DEF Solid, Alone
  <1>5. ASSUME At1("saving"), worker'[First].after \in {"idle", "stopped"} PROVE Solid'
    BY <1>3, <1>5, AwayPlaces, SoleGoesOn DEF Attends, Went, Opening, Resolving
  <1>6. ASSUME NEW p, At1(p), p \notin Resolving, p \notin Opening,
               worker[First].pc \in Attending
        PROVE  Solid'
    BY <1>3, <1>6, SoleAttends, SoleGoesOn
  <1>7. ASSUME NEW p \in {"reasoning", "rejected"}, At1(p) PROVE Solid'
    <2>1. ~Attends(worker'[First])
      BY <1>7, AwayPlaces DEF Went, Attends
    <2> QED BY <1>3, <1>7, <2>1, SoleGoesOn DEF Opening, Resolving
  <1>8. ASSUME NEW p \in {"idle", "stopped"}, Went(First, p, 0) PROVE Solid'
    <2>1. ~Attends(worker'[First])
      BY <1>8, AwayPlaces DEF Went, Attends
    <2> QED BY <1>3, <1>8, <2>1, SoleGoesOn DEF Opening, Resolving
  <1> HIDE DEF At1
  <1>9. CASE saving(First)
    <2>1. At1("writing") /\ worker'[First].after = worker[First].after
          /\ worker[First].pc = "saving"
      BY <1>4, <1>9, SavingBase DEF saving, At1
    <2>2. Attends(worker'[First]) => Attends(worker[First])
      BY <2>1, AwayPlaces DEF At1, Went, Attends
    <2>3. Attends(worker'[First]) => q # 0
      BY <2>2 DEF Solid, Owned
    <2> QED BY <1>3, <2>1, <2>3, SoleGoesOn DEF At1, Opening, Resolving
  <1>10. CASE \E written \in BOOLEAN : writing(First, written)
    <2>1. worker[First].pc = "writing"
      BY <1>10 DEF writing
    <2>2. CASE At1("saving") /\ worker'[First].after = "idle"
      BY <1>5, <2>2
    <2>3. CASE Went(First, "stopped", 0) \/ Went(First, "idle", 0)
      BY <1>8, <2>3
    <2>4. CASE \/ At1("poll") /\ worker[First].after \in {"poll", "checkpointed"}
               \/ At1(worker[First].after) /\ worker[First].after \in {"panel", "refused"}
      <3>1. Attends(worker[First])
        BY <2>1, <2>4 DEF Attends
      <3>2. q # 0
        BY <3>1 DEF Solid, Owned
      <3>3. PICK p \in {"poll", "panel", "refused"} : At1(p)
        BY <2>4
      <3> QED BY <1>3, <3>2, <3>3, SoleGoesOn DEF At1, Opening, Resolving
    <2> QED BY <1>4, <1>10, <2>2, <2>3, <2>4, WritingBase DEF At1
  <1>11. CASE submit_chat_snapshot(First) \/ submit_chat_failed(First)
    BY <1>4, <1>7, <1>11, SnapshotBase, FailedBase DEF At1
  <1>12. CASE submit_chat_release(First)
    <2>1. CASE At1("returned") /\ worker[First].pc = "submitted"
      BY <1>6, <2>1 DEF Opening, Resolving, Attending
    <2> QED BY <1>4, <1>5, <1>12, <2>1, ReleaseBase DEF At1
  <1>13. CASE \/ submitChat(First) \/ advance_pending_chat_actions(First)
              \/ \E o \in {"Completed", "Suspended", "Retryable"} :
                   execute_android_verified_actions(First, o)
              \/ \E acted \in BOOLEAN : execute_android_verified_actions_fails(First, acted)
              \/ next_chat_event(First) \/ showPanel(First)
              \/ resolve_chat_approval_fails(First) \/ terminal_chat_event(First)
    <2>1. worker[First].pc \in Attending
      BY <1>13 DEF submitChat, advance_pending_chat_actions, terminal_chat_event,
           execute_android_verified_actions, execute_android_verified_actions_fails,
           next_chat_event, showPanel, resolve_chat_approval_fails, Attending, Polling
    <2>2. PICK p \in {"cancel", "poll", "failing", "next", "acting", "acted", "full", "generated",
                      "waiting", "saving", "pending"} : At1(p)
      <3>1. CASE submitChat(First)
        BY <1>4, <3>1, SubmitChatBase DEF At1
      <3>2. CASE advance_pending_chat_actions(First)
        BY <1>4, <3>2, AdvanceBase DEF At1
      <3>3. CASE \E o \in {"Completed", "Suspended", "Retryable"} :
                   execute_android_verified_actions(First, o)
        BY <1>4, <3>3, ExecuteBase DEF At1
      <3>4. CASE \E acted \in BOOLEAN : execute_android_verified_actions_fails(First, acted)
        BY <1>4, <3>4, ExecuteFailsBase DEF At1
      <3>5. CASE next_chat_event(First)
        BY <1>4, <3>5, NextEventBase DEF At1
      <3>6. CASE showPanel(First)
        BY <1>4, <3>6, PanelBase DEF At1
      <3>7. CASE resolve_chat_approval_fails(First)
        BY <1>4, <3>7, ApproveFailsBase DEF At1
      <3>8. CASE terminal_chat_event(First)
        BY <1>4, <3>8, TerminalBase DEF At1
      <3> QED BY <1>13, <3>1, <3>2, <3>3, <3>4, <3>5, <3>6, <3>7, <3>8
    <2> QED BY <1>6, <2>1, <2>2 DEF Opening, Resolving
  <1>14. CASE restoreConversation(First)
    <2>1. CASE Went(First, "decoding", 0)
      <3>1. ~Attends(worker'[First])
        BY <2>1, AwayPlaces DEF Went, Attends
      <3>2. worker[First].pc \in Opening
        BY <1>14 DEF restoreConversation, Opening
      <3> QED BY <1>3, <2>1, <3>1, <3>2, SoleGoesOn DEF Resolving
    <2> QED BY <1>4, <1>8, <1>14, <2>1, RestoreBase
  <1> QED BY <1>2, <1>9, <1>10, <1>11, <1>12, <1>13, <1>14

(* Steps that end the session, or say that it is over.                     *)
LEMMA SoleOver ==
    ASSUME Base, Solid, NEW w \in Workers,
           \/ next_chat_event_full(w)
           \/ \E blank, eos \in BOOLEAN : next_chat_event_token(w, blank, eos)
           \/ nativeNextChatEvent_error(w) \/ resolve_chat_approval_denied(w)
    PROVE  Solid'
  <1>1. worker[w].pc \in {"full", "generated", "failing", "denying"}
    BY DEF next_chat_event_full, next_chat_event_token, nativeNextChatEvent_error,
           resolve_chat_approval_denied
  <1>2. w = First /\ worker[First].pc \in Attending
    BY <1>1, SoleRuns, AwayPlaces DEF Attending, Polling
  <1>3. UNCHANGED <<ui, front, interrupted>>
    BY DEF next_chat_event_full, next_chat_event_token, nativeNextChatEvent_error,
           resolve_chat_approval_denied, java, activity
  <1> DEFINE q == worker[First].req
  <1>4. First \in Workers /\ q # 0 /\ Mine(First)
    BY <1>2, SoleAttends, ChatAssumption
  <1>5. ASSUME NEW p \in {"saving", "failing"}, Went(First, p, q), chat_session' \in Session,
               chat_session'.request = chat_session.request,
               chat_session'.status \in {"Complete", "Failed", "Cancelled"},
               Len(conversation'.tasks) = Len(conversation.tasks)
        PROVE  Solid'
    <2>1. ~chat_session_active'
      BY <1>5 DEF chat_session_active, ActiveStatus
    <2>2. chat_session' # None
      BY <1>5, NoneAssumption
    <2> QED BY <1>3, <1>4, <1>5, <2>1, <2>2, SoleEnds DEF Opening, Resolving
  <1>6. ASSUME NEW p \in {"saving", "failing"}, Went(First, p, q), chat_session' = chat_session,
               conversation'.active = conversation.active,
               conversation'.tasks = conversation.tasks
        PROVE  Solid'
    BY <1>3, <1>4, <1>6, SoleGoesOn DEF Opening, Resolving
  <1>7. CASE next_chat_event_full(First)
    BY <1>4, <1>5, <1>6, <1>7, FullBase
  <1>8. CASE \E blank, eos \in BOOLEAN : next_chat_event_token(First, blank, eos)
    BY <1>4, <1>5, <1>6, <1>8, TokenBase
  <1>9. CASE nativeNextChatEvent_error(First)
    BY <1>4, <1>5, <1>9, ErrorBase
  <1>10. CASE resolve_chat_approval_denied(First)
    <2>1. conversation' = worker[First].copy /\ worker[First].pc = "denying"
      BY <1>4, <1>10 DEF resolve_chat_approval_denied
    <2>2. Len(conversation'.tasks) = Len(conversation.tasks)
      BY <2>1 DEF Solid, SameTasks, Resolving
    <2> QED BY <1>4, <1>5, <1>10, <2>2, DeniedBase
  <1> QED BY <1>2, <1>7, <1>8, <1>9, <1>10
LEMMA SoleSubmits ==
    ASSUME Base, Stop, Solid, NEW w \in Workers, submit_chat(w)
    PROVE  Solid'
  <1>1. w = First /\ worker[First].pc = "idle" /\ First \in Workers
    BY ChatAssumption DEF submit_chat, Solid, Alone
  <1>2. worker[First].req = 0
    BY <1>1 DEF Stop, Numbered, Unnumbered
  <1>3. UNCHANGED <<ui, front, interrupted>>
    BY DEF submit_chat, activity
  <1>4. CASE Went(First, "saving", 0) /\ worker'[First].after = "idle"
             /\ UNCHANGED <<conversation, chat_session>>
    <2>1. ~Attends(worker'[First])
      BY <1>4, AwayPlaces DEF Went, Attends
    <2> QED BY <1>2, <1>3, <1>4, <2>1, SoleGoesOn DEF Opening, Resolving
  <1>5. CASE Went(First, "reserved", 0) /\ UNCHANGED <<conversation, chat_session>>
    <2>1. ~Attends(worker'[First])
      BY <1>5, AwayPlaces DEF Went, Attends
    <2> QED BY <1>2, <1>3, <1>5, <2>1, SoleGoesOn DEF Opening, Resolving
  <1>6. CASE Went(First, "reserved", 0) /\ chat_session' = None
             /\ Len(conversation'.tasks) = Len(conversation.tasks)
    <2>1. ~Attends(worker'[First])
      BY <1>6, AwayPlaces DEF Went, Attends
    <2>2. ~chat_session_active'
      BY <1>6 DEF chat_session_active
    <2> QED BY <1>2, <1>3, <1>6, <2>1, <2>2, SoleEnds DEF Opening, Resolving
  <1> QED BY <1>1, <1>2, <1>4, <1>5, <1>6, SubmitBase

(* The task of a new session is a new task.                                *)
LEMMA SoleCommits ==
    ASSUME Base, Solid, NEW w \in Workers, NEW kind \in Kinds, NEW fabric \in Fabric,
           submit_chat_commit(w, kind, fabric)
    PROVE  Solid'
  <1>1. w = First /\ First \in Workers
    BY SoleRuns, ChatAssumption DEF submit_chat_commit
  <1>2. UNCHANGED <<ui, front, interrupted>>
    BY DEF submit_chat_commit, java, activity
  <1>3. /\ Base' /\ Went(First, "submitted", next_chat_request_id)
        /\ conversation'.active = chat_session'.task
        /\ conversation'.active = Len(conversation.tasks) + 1
        /\ Len(conversation'.tasks) = Len(conversation.tasks) + 1
        /\ conversation'.active \in Nat \ {0}
        /\ chat_session'.request = next_chat_request_id /\ chat_session' \in Session
        /\ conversation'.tasks[conversation'.active].approval =
                IF kind = "external" THEN "pending" ELSE "none"
        /\ chat_session'.status = IF kind = "external" THEN "WaitingApproval" ELSE "Running"
    BY <1>1, CommitBase
  <1>4. chat_session' # None
    BY <1>3, NoneAssumption
  <1>5. conversation'.tasks[conversation'.active].status = "Running"
    BY <1>3 DEF Base, NativeOK, Good
  <1>6. SessionMatchesTurn'
    BY <1>3, <1>5 DEF SessionMatchesTurn
  <1>7. Len(conversation.tasks) \in Nat /\ next_chat_request_id # 0
    BY BaseParts, GoodFields DEF Base, NativeOK
  <1>8. ui.pc \in Ending => ui.task \in 1..Len(conversation'.tasks) /\ chat_session'.task # ui.task
    BY <1>3, <1>7 DEF Solid, Apart
  <1> QED BY <1>2, <1>3, <1>4, <1>6, <1>7, <1>8, SoleMoves DEF Opening, Resolving

(* A run commits what it made of the conversation it was given.            *)
LEMMA SoleActed ==
    ASSUME Base, Solid, NEW w \in Workers, advance_pending_chat_actions_commit(w)
    PROVE  Solid'
  <1>1. w = First /\ First \in Workers /\ worker[First].pc = "acted"
    BY SoleRuns, ChatAssumption DEF advance_pending_chat_actions_commit
  <1>2. UNCHANGED <<ui, front, interrupted>>
    BY DEF advance_pending_chat_actions_commit, java, activity
  <1> DEFINE q == worker[First].req
  <1>3. q # 0 /\ Mine(First)
    BY <1>1, SoleAttends DEF Attending, Polling
  <1>4. CASE Went(First, "failing", q) /\ UNCHANGED <<conversation, chat_session>>
    BY <1>2, <1>3, <1>4, SoleGoesOn DEF Opening, Resolving
  <1>5. CASE /\ Went(First, "saving", q) /\ worker'[First].after = "checkpointed"
             /\ conversation = worker[First].base /\ MineIs(First, "Running")
             /\ conversation' = worker[First].copy
             /\ chat_session' \in Session
             /\ chat_session'.request = chat_session.request
             /\ chat_session'.task = chat_session.task
             /\ chat_session'.status =
                  IF conversation'.tasks[chat_session.task].approval = "reconfirm"
                    THEN "WaitingApproval" ELSE "Running"
    <2>1. Held(worker[First])
      BY <1>1, BaseParts DEF WorkersOK
    <2>2. /\ conversation'.active # 0 /\ conversation'.active = conversation.active
          /\ Len(conversation'.tasks) = Len(conversation.tasks)
          /\ conversation'.tasks[conversation.active].approval
               \in {"approved", "reconfirm", conversation.tasks[conversation.active].approval}
      BY <1>1, <1>5, <2>1 DEF Held, Follows
    <2>3. /\ chat_session_active
          /\ conversation.active = chat_session.task
          /\ conversation.tasks[chat_session.task].approval \notin {"pending", "reconfirm"}
      BY <1>5 DEF Solid, SessionMatchesTurn, chat_session_active, MineIs, Mine, ActiveStatus
    <2>4. Base'
      BY <1>1, ActedBase
    <2>5. conversation'.tasks[conversation'.active].status = "Running"
      BY <2>2, <2>4 DEF Base, NativeOK, Good
    <2>6. SessionMatchesTurn'
      BY <1>5, <2>2, <2>3, <2>5 DEF SessionMatchesTurn
    <2>7. chat_session' # None
      BY <1>5, NoneAssumption
    <2>8. ui.pc \in Ending =>
             /\ ui.task \in 1..Len(conversation'.tasks)
             /\ chat_session'.request # ui.req => chat_session'.task # ui.task
      BY <1>5, <2>2, <2>3 DEF Solid, Apart
    <2>9. chat_session'.request = q
      BY <1>3, <1>5 DEF Mine
    <2> QED BY <1>2, <1>3, <1>5, <2>6, <2>7, <2>8, <2>9, SoleMoves DEF Opening, Resolving
  <1> QED BY <1>1, <1>4, <1>5, ActedBase

LEMMA SoleResolves ==
    ASSUME Base, Solid, NEW w \in Workers, NEW approved \in BOOLEAN,
           resolve_chat_approval(w, approved)
    PROVE  Solid'
  <1>1. w = First /\ First \in Workers /\ worker[First].pc \in {"waiting", "refused"}
    BY SoleRuns, ChatAssumption DEF resolve_chat_approval
  <1>2. UNCHANGED <<ui, front, interrupted, conversation, chat_session>>
    BY DEF resolve_chat_approval, native, java, activity
  <1> DEFINE q == worker[First].req
  <1>3. q # 0 /\ Mine(First)
    BY <1>1, SoleAttends DEF Attending
  <1>4. CASE Went(First, "saving", q)
    BY <1>2, <1>3, <1>4, SoleGoesOn DEF Opening, Resolving
  <1>5. ASSUME NEW p \in Resolving, Went(First, p, q),
               Len(worker'[First].copy.tasks) = Len(conversation.tasks)
        PROVE  Solid'
    <2>1. SessionMatchesTurn' /\ chat_session_active' = chat_session_active
      BY <1>2 DEF Solid, SessionMatchesTurn, chat_session_active
    <2>2. ui.pc \in Ending =>
             /\ ui.task \in 1..Len(conversation'.tasks)
             /\ chat_session_active' /\ chat_session'.request # ui.req =>
                   chat_session'.task # ui.task
      BY <1>2, <2>1 DEF Solid, Apart
    <2>3. chat_session' # None /\ chat_session'.request = q
      BY <1>2, <1>3 DEF Mine
    <2>4. p \notin Opening /\ Len(worker'[First].copy.tasks) = Len(conversation'.tasks)
      BY <1>2, <1>5 DEF Opening, Resolving
    <2> QED BY <1>2, <1>3, <1>5, <2>1, <2>2, <2>3, <2>4, SoleMoves
  <1> QED BY <1>1, <1>4, <1>5, ResolveBase DEF Resolving

LEMMA SoleApproves ==
    ASSUME Base, Solid, NEW w \in Workers, resolve_chat_approval_approved(w)
    PROVE  Solid'
  <1>1. w = First /\ First \in Workers /\ worker[First].pc = "approving"
    BY SoleRuns, ChatAssumption DEF resolve_chat_approval_approved
  <1>2. UNCHANGED <<ui, front, interrupted>>
    BY DEF resolve_chat_approval_approved, java, activity
  <1> DEFINE q == worker[First].req
  <1>3. q # 0 /\ Mine(First)
    BY <1>1, SoleAttends DEF Attending
  <1>4. CASE Went(First, "saving", q) /\ UNCHANGED <<conversation, chat_session>>
    BY <1>2, <1>3, <1>4, SoleGoesOn DEF Opening, Resolving
  <1>5. CASE /\ Went(First, "saving", q)
             /\ MineIs(First, "WaitingApproval") /\ chat_session.task = worker[First].task
             /\ conversation' = worker[First].copy /\ conversation'.active = worker[First].task
             /\ chat_session' \in Session /\ chat_session'.request = chat_session.request
             /\ chat_session'.task = chat_session.task
             /\ chat_session'.status = "Running"
    <2>1. Held(worker[First]) /\ Base'
      BY <1>1, BaseParts, ApprovedBase DEF WorkersOK
    <2>2. /\ conversation'.active # 0
          /\ conversation'.tasks[conversation'.active].approval = "approved-executing"
          /\ Len(conversation'.tasks) = Len(conversation.tasks)
      BY <1>1, <1>5, <2>1 DEF Held, Solid, SameTasks, Resolving
    <2>3. conversation'.tasks[conversation'.active].status = "Running"
      BY <2>1, <2>2 DEF Base, NativeOK, Good
    <2>4. SessionMatchesTurn'
      BY <1>5, <2>2, <2>3 DEF SessionMatchesTurn
    <2>5. chat_session' # None /\ chat_session'.request = q
      BY <1>3, <1>5, NoneAssumption DEF Mine
    <2>6. chat_session_active
      BY <1>5 DEF chat_session_active, MineIs, Mine, ActiveStatus
    <2>7. ui.pc \in Ending =>
             /\ ui.task \in 1..Len(conversation'.tasks)
             /\ chat_session'.request # ui.req => chat_session'.task # ui.task
      BY <1>5, <2>2, <2>6 DEF Solid, Apart
    <2> QED BY <1>2, <1>3, <1>5, <2>4, <2>5, <2>7, SoleMoves DEF Opening, Resolving
  <1> QED BY <1>1, <1>4, <1>5, ApprovedBase
LEMMA SoleCancels ==
    ASSUME Base, Solid, NEW w \in Workers, cancel_chat(w)
    PROVE  Solid'
  <1>1. w = First /\ First \in Workers /\ worker[First].pc \in Attending
    BY SoleRuns, ChatAssumption DEF cancel_chat, Attending, Polling
  <1>2. UNCHANGED <<ui, front, interrupted>>
    BY DEF cancel_chat, java, activity
  <1> DEFINE q == worker[First].req
  <1>3. q # 0 /\ Mine(First)
    BY <1>1, SoleAttends
  <1>4. ASSUME NEW p \in {"cancel_flag", "cancel_write", "poll", "saving"}, Went(First, p, q),
               UNCHANGED <<conversation, chat_session>>
        PROVE  Solid'
    BY <1>2, <1>3, <1>4, SoleGoesOn DEF Opening, Resolving
  <1>5. ASSUME NEW p \in {"poll", "saving"}, Went(First, p, q),
               CancelTurn(q, worker[First].task)
        PROVE  Solid'
    <2>1. /\ Len(conversation'.tasks) = Len(conversation.tasks)
          /\ chat_session' \in Session /\ chat_session'.request = q
          /\ chat_session'.status = "Cancelled"
      BY <1>3, <1>5, CancelTurnOK DEF Mine
    <2>2. ~chat_session_active' /\ chat_session' # None
          /\ chat_session'.request = chat_session.request
      BY <1>3, <2>1, NoneAssumption DEF chat_session_active, ActiveStatus, Mine
    <2> QED BY <1>2, <1>3, <1>5, <2>1, <2>2, SoleEnds DEF Opening, Resolving
  <1> QED BY <1>1, <1>4, <1>5, CancelChatBase

(* A restored turn is one the UI thread has never seen.                    *)
LEMMA SoleRestores ==
    ASSUME Base, Solid, NEW w \in Workers, restore_chat_checkpoint(w)
    PROVE  Solid'
  <1>1. w = First /\ First \in Workers /\ worker[First].pc \in Opening
    BY SoleRuns, ChatAssumption DEF restore_chat_checkpoint, Opening
  <1>2. UNCHANGED <<ui, front, interrupted>> /\ ui.pc \notin Ending
    BY <1>1 DEF restore_chat_checkpoint, activity, Solid, Apart
  <1>3. ASSUME NEW p \in {"idle", "stopped"}, Went(First, p, 0), chat_session' = None
        PROVE  Solid'
    <2>1. ~chat_session_active'
      BY <1>3 DEF chat_session_active
    <2>2. ~Attends(worker'[First])
      BY <1>3, AwayPlaces DEF Attends, Went
    <2> QED BY <1>2, <1>3, <2>1, <2>2, SoleEnds DEF Opening, Resolving
  <1>4. CASE /\ Went(First, "poll", next_chat_request_id)
             /\ conversation'.active # 0
             /\ chat_session' \in Session /\ chat_session'.request = next_chat_request_id
             /\ chat_session'.task = conversation'.active
             /\ chat_session'.status =
                  IF conversation'.tasks[conversation'.active].approval
                       \in {"pending", "reconfirm"} THEN "WaitingApproval" ELSE "Running"
    <2>1. Base'
      BY <1>1, CheckpointBase
    <2>2. conversation'.tasks[conversation'.active].status = "Running"
      BY <1>4, <2>1 DEF Base, NativeOK, Good
    <2>3. SessionMatchesTurn'
      BY <1>4, <2>2 DEF SessionMatchesTurn
    <2>4. next_chat_request_id # 0 /\ chat_session' # None
      BY <1>4, NoneAssumption DEF Base, NativeOK
    <2> QED BY <1>2, <1>4, <2>3, <2>4, SoleMoves DEF Opening, Resolving
  <1> QED BY <1>1, <1>3, <1>4, CheckpointBase

(* The UI thread cancels the session's turn, or a turn that is no longer   *)
(* active.                                                                 *)
LEMMA SoleButton ==
    ASSUME Base, Stop, Solid, cancelChat
    PROVE  Solid'
  <1>1. UNCHANGED <<worker, front, interrupted>> /\ First \in Workers /\ front = First
    BY ChatAssumption DEF cancelChat, activity, Solid, Alone
  <1>2. Alone'
    BY <1>1 DEF Solid, Alone
  <1>3. ASSUME UNCHANGED <<conversation, chat_session>>
        PROVE  Owned' /\ SameTasks' /\ SessionMatchesTurn'
               /\ chat_session_active' = chat_session_active
    BY <1>1, <1>3 DEF Solid, Owned, Attends, SameTasks, SessionMatchesTurn, chat_session_active
  <1>4. CASE ui' = [UiIdle EXCEPT !.pc = "cancel_read"] /\ UNCHANGED <<conversation, chat_session>>
    <2>1. ui'.pc = "cancel_read"
      BY <1>4 DEF UiIdle
    <2> QED BY <1>2, <1>3, <1>4, <2>1 DEF Solid, Apart, Ending
  <1>5. CASE /\ ui' = IF activeChatRequestId(front) # 0 /\ Cancellable(activeChatRequestId(front))
                        THEN [UiIdle EXCEPT !.pc = "cancel_flag",
                                !.req = activeChatRequestId(front), !.task = chat_session.task]
                        ELSE UiIdle
             /\ UNCHANGED <<conversation, chat_session>>
    <2> DEFINE r == activeChatRequestId(First)
    <2>1. CASE r # 0 /\ Cancellable(r)
      <3>1. ui'.req = r /\ ui'.task = chat_session.task
        BY <1>1, <1>5, <2>1 DEF UiIdle
      <3>2. r = worker[First].req /\ worker[First].pc \notin Opening
        BY <1>1, <2>1 DEF activeChatRequestId, Stop, Numbered, Unnumbered, Early, Opening
      <3>3. /\ chat_session_active /\ chat_session.request = r
            /\ conversation.active = chat_session.task
        BY <2>1 DEF Cancellable, Solid, SessionMatchesTurn
      <3>4. chat_session.task \in 1..Len(conversation.tasks)
        BY <3>3, BaseParts, GoodFields DEF chat_session_active
      <3>5. Apart'
        BY <1>1, <1>5, <3>1, <3>2, <3>3, <3>4 DEF Apart
      <3> QED BY <1>2, <1>3, <1>5, <3>5 DEF Solid
    <2>2. CASE ~(r # 0 /\ Cancellable(r))
      <3>1. ui'.pc = "idle"
        BY <1>1, <1>5, <2>2 DEF UiIdle
      <3> QED BY <1>2, <1>3, <1>5, <3>1 DEF Solid, Apart, Ending
    <2> QED BY <2>1, <2>2
  <1>6. CASE /\ ui.pc = "cancel_flag" /\ ui' = [ui EXCEPT !.pc = "cancel_write"]
             /\ UNCHANGED <<conversation, chat_session>>
    <2>1. ui'.pc = "cancel_write" /\ ui'.req = ui.req /\ ui'.task = ui.task
      BY <1>6 DEF Base, UiOK
    <2>2. Apart'
      BY <1>1, <1>3, <1>6, <2>1 DEF Solid, Apart, Ending
    <2> QED BY <1>2, <1>3, <1>6, <2>2 DEF Solid
  <1>7. CASE ui.pc = "cancel_write" /\ CancelTurn(ui.req, ui.task) /\ ui' = UiIdle
    <2>1. ui'.pc = "idle"
      BY <1>7 DEF UiIdle
    <2>2. /\ Len(conversation'.tasks) = Len(conversation.tasks)
          /\ \/ conversation' = conversation
             \/ conversation.active = ui.task
          /\ \/ /\ chat_session' \in Session /\ chat_session # None
                /\ chat_session'.request = chat_session.request
                /\ chat_session'.status = "Cancelled"
             \/ chat_session' = chat_session /\ (chat_session = None \/ chat_session.request # ui.req)
      BY <1>7, CancelTurnOK
    <2>3. SameTasks'
      BY <1>1, <2>2 DEF Solid, SameTasks
    <2>4. Owned'
      BY <1>1, <2>2, NoneAssumption DEF Solid, Owned, Attends
    <2>5. SessionMatchesTurn'
      <3> SUFFICES ASSUME chat_session_active' PROVE SessionMatchesTurn'
        BY DEF SessionMatchesTurn
      <3>1. chat_session' = chat_session /\ (chat_session = None \/ chat_session.request # ui.req)
        BY <2>2 DEF chat_session_active, ActiveStatus
      <3>2. chat_session_active /\ conversation.active = chat_session.task
            /\ chat_session.request # ui.req
        BY <3>1 DEF Solid, SessionMatchesTurn, chat_session_active
      <3>3. chat_session.task # ui.task
        BY <1>7, <3>2 DEF Solid, Apart, Ending
      <3>4. conversation' = conversation
        BY <2>2, <3>2, <3>3
      <3> QED BY <3>1, <3>2, <3>4 DEF Solid, SessionMatchesTurn
    <2> QED BY <1>2, <2>1, <2>3, <2>4, <2>5 DEF Solid, Apart, Ending
  <1> QED BY <1>4, <1>5, <1>6, <1>7 DEF cancelChat

LEMMA SolePauses ==
    ASSUME Base, Solid, NEW written \in BOOLEAN, onPause(written)
    PROVE  Solid'
  <1>1. /\ ui'.pc \in {"idle", "writing"}
        /\ UNCHANGED <<conversation, chat_session, worker, front, interrupted>>
    <2>1. CASE ui.pc = "idle" /\ ui' = [UiIdle EXCEPT !.pc = "writing", !.copy = conversation]
      BY <2>1 DEF onPause, UiIdle, native, java, activity
    <2>2. CASE ui.pc = "writing" /\ ui' = UiIdle
      BY <2>2 DEF onPause, UiIdle, native, java, activity
    <2> QED BY <2>1, <2>2 DEF onPause
  <1> QED BY <1>1 DEF Solid, Alone, Owned, Attends, Apart, Ending, SameTasks, SessionMatchesTurn,
               chat_session_active

(* A process that starts, for the first time or after a death.             *)
LEMMA SoleStart ==
    /\ Init => Solid
    /\ processDeath => Solid'
  <1>1. ASSUME NEW f, f = [w \in Workers |-> At(IF w = First THEN "restoring" ELSE "stopped", 0)]
        PROVE  /\ f[First].pc = "restoring" /\ f[First].req = 0
               /\ \A w \in Workers : w # First => f[w].pc = "stopped"
    BY <1>1, ChatAssumption DEF At
  <1>2. "restoring" \notin Attending /\ "restoring" \notin Resolving
    BY AwayPlaces DEF Resolving
  <1>3. UiIdle.pc = "idle"
    BY DEF UiIdle
  <1>4. ASSUME Init PROVE Solid
    BY <1>1, <1>2, <1>3, <1>4 DEF Init, Solid, Alone, Owned, Attends, Apart, Ending, SameTasks,
         SessionMatchesTurn, chat_session_active
  <1>5. ASSUME processDeath PROVE Solid'
    BY <1>1, <1>2, <1>3, <1>5 DEF processDeath, Solid, Alone, Owned, Attends, Apart, Ending,
         SameTasks, SessionMatchesTurn, chat_session_active
  <1> QED BY <1>4, <1>5

LEMMA SolidStep ==
    ASSUME MaxRecreations = 0, Base, Stop, Solid, [Next]_vars
    PROVE  Solid'
  <1>1. CASE UNCHANGED vars
    BY <1>1 DEF vars, Solid, Alone, Owned, Attends, Apart, SameTasks, SessionMatchesTurn,
         chat_session_active
  <1>2. ASSUME NEW w \in Workers, Step(w) PROVE Solid'
    BY <1>2, SoleSilent, SoleOver, SoleCommits, SoleActed, SoleApproves, SoleCancels,
       SoleRestores DEF Step
  <1>3. \A w \in Workers, written \in BOOLEAN : ~onDestroy(w, written)
    BY DEF onDestroy, Base, JavaOK
  <1> QED BY <1>1, <1>2, <1>3, SoleSubmits, SoleResolves, SoleButton, SolePauses, SoleStart
          DEF Next

(* As long as the activity is not recreated, session and conversation      *)
(* agree, though different critical sections replace them and the UI       *)
(* thread cancels in between: over any number of requests and deaths, and  *)
(* with a disk that may fail.                                              *)
THEOREM SessionAgrees ==
    ASSUME MaxRecreations = 0
    PROVE  Spec => []SessionMatchesTurn
  <1>1. Base /\ Stop /\ Solid /\ [Next]_vars => Solid'
    BY SolidStep
  <1>2. Solid => SessionMatchesTurn
    BY DEF Solid
  <1> QED BY <1>1, <1>2, BaseInit, BaseStep, StopStart, StopStep, SoleStart, PTL DEF Spec

-----------------------------------------------------------------------------
(* The session is in somebody's hands.  The executor puts a request down   *)
(* when its session is over or when it sees the cancel flag, and then it   *)
(* is the UI thread that has set the flag and has still to cancel.         *)
AtWork(x) ==
    /\ x.pc \notin {"idle", "stopped"}
    /\ ~(x.pc \in {"saving", "writing"} /\ x.after \in {"idle", "stopped"})

InHands ==
    chat_session_active =>
        \/ worker[First].req = chat_session.request /\ AtWork(worker[First])
        \/ ui.pc \in Ending /\ ui.req = chat_session.request

Unasked == {"pending", "acting", "acted", "next", "generated"}
NotAsking == worker[First].pc \in Unasked => chat_session.status # "WaitingApproval"

Flagged ==
    chat_session_active /\ chat_session.request \in cancelled =>
        \/ ui.pc = "cancel_write" /\ ui.req = chat_session.request
        \/ worker[First].pc = "cancel_write"

PastRequests ==
    /\ \A r \in cancelled : r < next_chat_request_id
    /\ ui.req < next_chat_request_id

Taken == InHands /\ NotAsking /\ Flagged /\ PastRequests

LEMMA TakenMoves ==
    ASSUME Base, Base', Taken, NEW p, NEW r, Went(First, p, r), ui' = ui,
           next_chat_request_id <= next_chat_request_id',
           \A x \in cancelled' : x < next_chat_request_id',
           chat_session_active' =>
             \/ r = chat_session'.request /\ AtWork(worker'[First])
             \/ ui.pc \in Ending /\ ui.req = chat_session'.request,
           p \in Unasked => chat_session'.status # "WaitingApproval",
           chat_session_active' /\ chat_session'.request \in cancelled' =>
             \/ ui.pc = "cancel_write" /\ ui.req = chat_session'.request
             \/ p = "cancel_write"
    PROVE  Taken'
  <1>1. worker'[First].pc = p /\ worker'[First].req = r
    BY DEF Went
  <1>2. InHands'
    BY <1>1 DEF InHands, AtWork
  <1>3. NotAsking'
    BY <1>1 DEF NotAsking
  <1>4. Flagged'
    BY <1>1 DEF Flagged
  <1>5. /\ ui.req \in Nat /\ next_chat_request_id \in Nat /\ next_chat_request_id' \in Nat
        /\ ui.req < next_chat_request_id
    BY DEF Base, NativeOK, UiOK, Taken, PastRequests
  <1>6. PastRequests'
    BY <1>5 DEF PastRequests
  <1> QED BY <1>2, <1>3, <1>4, <1>6 DEF Taken

(* The session is as it was, and the executor keeps it or did not have it. *)
LEMMA TakenGoesOn ==
    ASSUME Base, Base', Taken, NEW p, NEW r, Went(First, p, r),
           UNCHANGED <<ui, chat_session, cancelled, next_chat_request_id>>,
           \/ ~chat_session_active
           \/ AtWork(worker'[First]) /\ r = worker[First].req
           \/ ~AtWork(worker[First]) \/ worker[First].req = 0,
           p \in Unasked => chat_session.status # "WaitingApproval",
           worker[First].pc # "cancel_write"
    PROVE  Taken'
  <1>1. chat_session_active' = chat_session_active
    BY DEF chat_session_active
  <1>2. chat_session_active => chat_session.request # 0
    BY BaseParts DEF chat_session_active
  <1>3. chat_session_active' =>
             \/ r = chat_session'.request /\ AtWork(worker'[First])
             \/ ui.pc \in Ending /\ ui.req = chat_session'.request
    BY <1>1, <1>2 DEF Taken, InHands
  <1>4. chat_session_active' /\ chat_session'.request \in cancelled' =>
             \/ ui.pc = "cancel_write" /\ ui.req = chat_session'.request
             \/ p = "cancel_write"
    BY <1>1 DEF Taken, Flagged
  <1>5. /\ next_chat_request_id <= next_chat_request_id'
        /\ \A x \in cancelled' : x < next_chat_request_id'
    BY DEF Base, NativeOK, Taken, PastRequests
  <1> QED BY <1>3, <1>4, <1>5, TakenMoves

LEMMA TakenEnds ==
    ASSUME Base, Base', Taken, NEW p, NEW r, Went(First, p, r), ui' = ui,
           next_chat_request_id' = next_chat_request_id,
           \A x \in cancelled' : x < next_chat_request_id,
           ~chat_session_active', p \notin Unasked
    PROVE  Taken'
  <1>1. next_chat_request_id <= next_chat_request_id'
    BY DEF Base, NativeOK
  <1> QED BY <1>1, TakenMoves

LEMMA TakenSilent ==
    ASSUME ~DiskMayFail, Base, Stop, Solid, Taken, NEW w \in Workers,
           \/ saving(w) \/ \E written \in BOOLEAN : writing(w, written)
           \/ submit_chat_snapshot(w) \/ submit_chat_failed(w) \/ submit_chat_release(w)
           \/ submitChat(w) \/ terminal_chat_event(w) \/ advance_pending_chat_actions(w)
           \/ \E o \in {"Completed", "Suspended", "Retryable"} :
                execute_android_verified_actions(w, o)
           \/ \E acted \in BOOLEAN : execute_android_verified_actions_fails(w, acted)
           \/ next_chat_event(w) \/ showPanel(w) \/ resolve_chat_approval_fails(w)
           \/ restoreConversation(w)
    PROVE  Taken'
  <1>1. worker[w].pc \notin {"stopped", "cancel_write"}
    BY DEF saving, writing, submit_chat_snapshot, submit_chat_failed, submit_chat_release,
           submitChat, terminal_chat_event, advance_pending_chat_actions,
           execute_android_verified_actions, execute_android_verified_actions_fails,
           next_chat_event, showPanel, resolve_chat_approval_fails, restoreConversation
  <1>2. w = First /\ worker[First].pc # "cancel_write"
    BY <1>1, SoleRuns
  <1>3. UNCHANGED <<ui, chat_session, cancelled, next_chat_request_id>>
    BY DEF saving, writing, submit_chat_snapshot, submit_chat_failed, submit_chat_release,
           submitChat, terminal_chat_event, advance_pending_chat_actions,
           execute_android_verified_actions, execute_android_verified_actions_fails,
           next_chat_event, showPanel, resolve_chat_approval_fails, restoreConversation,
           native, java, activity
  <1>4. First \in Workers /\ First \notin interrupted
    BY ChatAssumption DEF Solid, Alone
  <1>5. Base'
    BY <1>2, SavingBase, WritingBase, SnapshotBase, FailedBase, ReleaseBase, SubmitChatBase,
       TerminalBase, AdvanceBase, ExecuteBase, ExecuteFailsBase, NextEventBase, PanelBase,
       ApproveFailsBase, RestoreBase
  <1> DEFINE q == worker[First].req
             At1(p) == Went(First, p, q)
  <1>6. ASSUME NEW p, At1(p), p \notin {"idle", "stopped", "saving", "writing"},
               p \in Unasked => chat_session.status # "WaitingApproval"
        PROVE  Taken'
    <2>1. AtWork(worker'[First])
      BY <1>6 DEF AtWork, Went
    <2> QED BY <1>2, <1>3, <1>5, <1>6, <2>1, TakenGoesOn
  <1>7. ASSUME At1("saving"), worker'[First].after \notin {"idle", "stopped"}
        PROVE  Taken'
    <2>1. AtWork(worker'[First])
      BY <1>7 DEF AtWork, Went
    <2> QED BY <1>2, <1>3, <1>5, <1>7, <2>1, TakenGoesOn DEF Unasked
  <1>8. ASSUME NEW p, NEW r, Went(First, p, r), p \notin Unasked,
               ~chat_session_active \/ ~AtWork(worker[First]) \/ q = 0
        PROVE  Taken'
    BY <1>2, <1>3, <1>5, <1>8, TakenGoesOn
  <1> HIDE DEF At1
  <1>9. worker[First].pc \in Unnumbered => q = 0
    BY <1>4 DEF Stop, Numbered
  <1>10. CASE saving(First)
    <2>1. At1("writing") /\ worker'[First].after = worker[First].after
          /\ worker[First].pc = "saving"
      BY <1>4, <1>10, SavingBase DEF saving, At1
    <2>2. AtWork(worker'[First]) \/ ~AtWork(worker[First])
      BY <2>1 DEF At1, Went, AtWork
    <2> QED BY <1>2, <1>3, <1>5, <2>1, <2>2, TakenGoesOn DEF At1, Unasked
  <1>11. CASE \E written \in BOOLEAN : writing(First, written)
    <2>1. worker[First].pc = "writing"
      BY <1>11 DEF writing
    <2>2. CASE \/ Went(First, "stopped", 0) /\ worker[First].after = "stopped"
               \/ Went(First, "idle", 0) /\ worker[First].after = "idle"
      <3>1. ~AtWork(worker[First])
        BY <2>1, <2>2 DEF AtWork
      <3>2. PICK p \in {"stopped", "idle"} : Went(First, p, 0)
        BY <2>2
      <3> QED BY <1>8, <3>1, <3>2 DEF Unasked
    <2>3. CASE \/ At1("poll")
               \/ At1(worker[First].after) /\ worker[First].after \in {"panel", "refused"}
      <3>1. PICK p \in {"poll", "panel", "refused"} : At1(p)
        BY <2>3
      <3> QED BY <1>6, <3>1 DEF Unasked
    <2> QED BY <1>4, <1>11, <2>2, <2>3, WritingBase DEF At1
  <1>12. CASE submit_chat_snapshot(First) \/ submit_chat_failed(First)
    <2>1. q = 0
      BY <1>9, <1>12 DEF submit_chat_snapshot, submit_chat_failed, Unnumbered, Early
    <2>2. PICK p \in {"rejected", "reasoning"} : At1(p)
      BY <1>4, <1>12, SnapshotBase, FailedBase DEF At1
    <2> QED BY <1>8, <2>1, <2>2 DEF At1, Unasked
  <1>13. CASE submit_chat_release(First)
    <2>1. CASE At1("returned")
      BY <1>6, <2>1 DEF Unasked
    <2>2. CASE At1("saving") /\ worker[First].pc = "rejected"
      <3>1. q = 0
        BY <1>9, <2>2 DEF Unnumbered
      <3> QED BY <1>8, <2>2, <3>1 DEF At1, Unasked
    <2> QED BY <1>4, <1>13, <2>1, <2>2, ReleaseBase DEF At1
  <1>14. CASE terminal_chat_event(First)
    <2>1. worker[First].pc = "poll"
      BY <1>14 DEF terminal_chat_event
    <2>2. Mine(First)
      BY <2>1, SoleAttends DEF Attending, Polling
    <2>3. CASE At1("pending")
      <3>1. chat_session.status # "WaitingApproval"
        <4>1. chat_session.status = "WaitingApproval" => SaveThen(First, "panel")
          BY <1>4, <1>14, <2>2 DEF terminal_chat_event, MineIs, Mine, chat_session_active, ActiveStatus
        <4>2. SaveThen(First, "panel") => worker'[First].pc = "saving"
          BY <1>4, BaseParts, SavesOK DEF Afters, Went
        <4> QED BY <2>3, <4>1, <4>2 DEF At1, Went
      <3> QED BY <1>6, <2>3, <3>1
    <2>4. CASE At1("saving") /\ worker'[First].after = "panel"
      BY <1>7, <2>4
    <2>5. CASE At1("saving") /\ ~chat_session_active
      BY <1>8, <2>5 DEF At1, Unasked
    <2> QED BY <1>4, <1>14, <2>3, <2>4, <2>5, TerminalBase DEF At1
  <1>15. CASE \/ submitChat(First) \/ advance_pending_chat_actions(First)
              \/ \E o \in {"Completed", "Suspended", "Retryable"} :
                   execute_android_verified_actions(First, o)
              \/ \E acted \in BOOLEAN : execute_android_verified_actions_fails(First, acted)
              \/ next_chat_event(First) \/ showPanel(First)
    <2>1. \E p \in {"cancel", "poll", "failing", "next", "acting", "acted", "full", "generated",
                    "waiting"} :
             At1(p) /\ (p \in Unasked => chat_session.status # "WaitingApproval")
      <3>1. CASE submitChat(First)
        BY <1>4, <3>1, SubmitChatBase DEF At1, Unasked
      <3>2. CASE advance_pending_chat_actions(First)
        BY <1>4, <3>2, AdvanceBase DEF At1, MineIs, Unasked
      <3>3. CASE \E o \in {"Completed", "Suspended", "Retryable"} :
                   execute_android_verified_actions(First, o)
        <4>1. worker[First].pc \in Unasked
          BY <3>3 DEF execute_android_verified_actions, Unasked
        <4> QED BY <1>4, <3>3, <4>1, ExecuteBase DEF At1, Taken, NotAsking
      <3>4. CASE \E acted \in BOOLEAN : execute_android_verified_actions_fails(First, acted)
        BY <1>4, <3>4, ExecuteFailsBase DEF At1, Unasked
      <3>5. CASE next_chat_event(First)
        <4>1. worker[First].pc \in Unasked
          BY <3>5 DEF next_chat_event, Unasked
        <4> QED BY <1>4, <3>5, <4>1, NextEventBase DEF At1, Taken, NotAsking
      <3>6. CASE showPanel(First)
        BY <1>4, <3>6, PanelBase DEF At1, Unasked
      <3> QED BY <1>15, <3>1, <3>2, <3>3, <3>4, <3>5, <3>6
    <2> QED BY <1>6, <2>1
  <1>16. CASE resolve_chat_approval_fails(First)
    BY <1>4, <1>7, <1>16, ApproveFailsBase DEF At1
  <1>17. CASE restoreConversation(First)
    <2>1. q = 0
      BY <1>9, <1>17 DEF restoreConversation, Unnumbered, Early
    <2>2. PICK p \in {"idle", "stopped", "decoding"} : Went(First, p, 0)
      BY <1>4, <1>17, RestoreBase
    <2> QED BY <1>8, <2>1, <2>2 DEF Unasked
  <1> QED BY <1>2, <1>10, <1>11, <1>12, <1>13, <1>14, <1>15, <1>16, <1>17
LEMMA TakenOver ==
    ASSUME Base, Solid, Taken, NEW w \in Workers,
           \/ next_chat_event_full(w)
           \/ \E blank, eos \in BOOLEAN : next_chat_event_token(w, blank, eos)
           \/ nativeNextChatEvent_error(w) \/ resolve_chat_approval_denied(w)
    PROVE  Taken'
  <1>1. worker[w].pc \in {"full", "generated", "failing", "denying"}
    BY DEF next_chat_event_full, next_chat_event_token, nativeNextChatEvent_error,
           resolve_chat_approval_denied
  <1>2. w = First /\ worker[First].pc \in Attending /\ worker[First].pc # "cancel_write"
    BY <1>1, SoleRuns, AwayPlaces DEF Attending, Polling
  <1>3. UNCHANGED <<ui, cancelled, next_chat_request_id>>
    BY DEF next_chat_event_full, next_chat_event_token, nativeNextChatEvent_error,
           resolve_chat_approval_denied
  <1> DEFINE q == worker[First].req
  <1>4. First \in Workers /\ q # 0 /\ Mine(First)
    BY <1>2, SoleAttends, ChatAssumption
  <1>5. Base' /\ \A x \in cancelled' : x < next_chat_request_id
    BY <1>2, <1>3, FullBase, TokenBase, ErrorBase, DeniedBase DEF Taken, PastRequests
  <1>6. ASSUME NEW p \in {"saving", "failing"}, Went(First, p, q),
               chat_session'.status \in {"Complete", "Failed", "Cancelled"}
        PROVE  Taken'
    <2>1. ~chat_session_active'
      BY <1>6 DEF chat_session_active, ActiveStatus
    <2> QED BY <1>3, <1>5, <1>6, <2>1, TakenEnds DEF Unasked
  <1>7. ASSUME \/ Went(First, "failing", q)
               \/ Went(First, "saving", q) /\ worker'[First].after = "poll",
               chat_session' = chat_session
        PROVE  Taken'
    <2>1. AtWork(worker'[First])
      BY <1>7 DEF AtWork, Went
    <2>2. PICK p \in {"failing", "saving"} : Went(First, p, q)
      BY <1>7
    <2> QED BY <1>2, <1>3, <1>5, <1>7, <2>1, <2>2, TakenGoesOn DEF Unasked
  <1>8. CASE next_chat_event_full(First)
    BY <1>4, <1>6, <1>7, <1>8, FullBase
  <1>9. CASE \E blank, eos \in BOOLEAN : next_chat_event_token(First, blank, eos)
    <2>1. worker[First].pc = "generated"
      BY <1>9 DEF next_chat_event_token
    <2>2. CASE Went(First, "saving", q) /\ UNCHANGED <<conversation, chat_session>>
               /\ (~MineIs(First, "Running") \/ q \in cancelled)
      <3>1. chat_session.status # "WaitingApproval"
        BY <2>1 DEF Taken, NotAsking, Unasked
      <3>2. chat_session_active => q \in cancelled /\ chat_session.request = q
        BY <1>4, <2>2, <3>1 DEF chat_session_active, MineIs, Mine, ActiveStatus
      <3>3. chat_session_active => ui.pc = "cancel_write" /\ ui.req = chat_session.request
        BY <2>1, <3>2 DEF Taken, Flagged
      <3>4. chat_session_active' = chat_session_active
        BY <2>2 DEF chat_session_active
      <3> QED BY <1>3, <1>5, <2>2, <3>3, <3>4, TakenMoves DEF Ending, Unasked, Base, NativeOK
    <2> QED BY <1>4, <1>6, <1>7, <1>9, <2>2, TokenBase
  <1>10. CASE nativeNextChatEvent_error(First)
    BY <1>4, <1>6, <1>10, ErrorBase
  <1>11. CASE resolve_chat_approval_denied(First)
    BY <1>4, <1>6, <1>11, DeniedBase
  <1> QED BY <1>2, <1>8, <1>9, <1>10, <1>11

LEMMA TakenSubmits ==
    ASSUME Base, Stop, Solid, Taken, NEW w \in Workers, submit_chat(w)
    PROVE  Taken'
  <1>1. w = First /\ worker[First].pc = "idle" /\ First \in Workers
    BY ChatAssumption DEF submit_chat, Solid, Alone
  <1>2. worker[First].req = 0
    BY <1>1 DEF Stop, Numbered, Unnumbered
  <1>3. UNCHANGED <<ui, cancelled, next_chat_request_id>>
    BY DEF submit_chat
  <1>4. Base' /\ \A x \in cancelled' : x < next_chat_request_id
    BY <1>3, SubmitBase DEF Taken, PastRequests
  <1>5. CASE /\ Went(First, "saving", 0) \/ Went(First, "reserved", 0)
             /\ chat_session' = chat_session
    BY <1>1, <1>2, <1>3, <1>4, <1>5, TakenGoesOn DEF Unasked
  <1>6. CASE Went(First, "reserved", 0) /\ chat_session' = None
    <2>1. ~chat_session_active'
      BY <1>6 DEF chat_session_active
    <2> QED BY <1>3, <1>4, <1>6, <2>1, TakenEnds DEF Unasked
  <1> QED BY <1>1, <1>2, <1>5, <1>6, SubmitBase

(* A new request has a number that was never flagged.                      *)
LEMMA TakenCommits ==
    ASSUME Base, Solid, Taken, NEW w \in Workers, NEW kind \in Kinds, NEW fabric \in Fabric,
           submit_chat_commit(w, kind, fabric)
    PROVE  Taken'
  <1>1. w = First /\ First \in Workers
    BY SoleRuns, ChatAssumption DEF submit_chat_commit
  <1>2. ui' = ui /\ cancelled' = cancelled /\ next_chat_request_id' = next_chat_request_id + 1
    BY DEF submit_chat_commit
  <1>3. /\ Base' /\ Went(First, "submitted", next_chat_request_id)
        /\ chat_session'.request = next_chat_request_id
    BY <1>1, CommitBase
  <1>4. /\ next_chat_request_id \in Nat /\ cancelled \subseteq Nat
        /\ \A x \in cancelled : x < next_chat_request_id
    BY DEF Base, NativeOK, Taken, PastRequests
  <1>5. AtWork(worker'[First])
    BY <1>3 DEF AtWork, Went
  <1>6. /\ next_chat_request_id \notin cancelled
        /\ next_chat_request_id <= next_chat_request_id'
        /\ \A x \in cancelled' : x < next_chat_request_id'
    BY <1>2, <1>4
  <1> QED BY <1>2, <1>3, <1>5, <1>6, TakenMoves DEF Unasked

(* The session changes its status and stays with its executor.             *)
LEMMA TakenKeeps ==
    ASSUME Base, Base', Solid, Taken, worker[First].pc \in Attending \ {"cancel_write"},
           NEW p, Went(First, p, worker[First].req), AtWork(worker'[First]), p \notin Unasked,
           UNCHANGED <<ui, cancelled, next_chat_request_id>>,
           chat_session_active, chat_session'.request = chat_session.request
    PROVE  Taken'
  <1>1. worker[First].req = chat_session.request
    BY SoleAttends DEF Mine
  <1>2. chat_session.request \in cancelled =>
           ui.pc = "cancel_write" /\ ui.req = chat_session.request
    BY DEF Taken, Flagged
  <1>3. /\ next_chat_request_id <= next_chat_request_id'
        /\ \A x \in cancelled' : x < next_chat_request_id'
    <2>1. next_chat_request_id \in Nat /\ \A x \in cancelled : x < next_chat_request_id
      BY BaseParts DEF Taken, PastRequests
    <2> QED BY <2>1
  <1> QED BY <1>1, <1>2, <1>3, TakenMoves

LEMMA TakenActs ==
    ASSUME Base, Solid, Taken, NEW w \in Workers,
           \/ advance_pending_chat_actions_commit(w)
           \/ \E approved \in BOOLEAN : resolve_chat_approval(w, approved)
           \/ resolve_chat_approval_approved(w)
    PROVE  Taken'
  <1>1. worker[w].pc \in {"acted", "waiting", "refused", "approving"}
    BY DEF advance_pending_chat_actions_commit, resolve_chat_approval,
           resolve_chat_approval_approved
  <1>2. w = First /\ First \in Workers /\ worker[First].pc \in Attending \ {"cancel_write"}
    BY <1>1, SoleRuns, ChatAssumption DEF Attending, Polling
  <1>3. UNCHANGED <<ui, cancelled, next_chat_request_id>>
    BY DEF advance_pending_chat_actions_commit, resolve_chat_approval,
           resolve_chat_approval_approved, native
  <1>4. Base'
    BY <1>2, ActedBase, ResolveBase, ApprovedBase
  <1> DEFINE q == worker[First].req
             Busy1 == \/ Went(First, "saving", q) /\ worker'[First].after \notin {"idle", "stopped"}
                      \/ \E p \in {"failing", "approving", "denying"} : Went(First, p, q)
  <1>5. Busy1 => \E p : Went(First, p, q) /\ AtWork(worker'[First]) /\ p \notin Unasked
    <2>1. CASE Went(First, "saving", q) /\ worker'[First].after \notin {"idle", "stopped"}
      BY <2>1 DEF Went, AtWork, Unasked
    <2>2. ASSUME NEW p \in {"failing", "approving", "denying"}, Went(First, p, q)
          PROVE  p \notin Unasked /\ AtWork(worker'[First])
      BY <2>2 DEF Went, AtWork, Unasked
    <2> QED BY <2>1, <2>2
  <1>6. ASSUME Busy1, chat_session' = chat_session PROVE Taken'
    BY <1>2, <1>3, <1>4, <1>5, <1>6, TakenGoesOn
  <1>7. ASSUME Busy1, chat_session_active, chat_session'.request = chat_session.request
        PROVE  Taken'
    BY <1>2, <1>3, <1>4, <1>5, <1>7, TakenKeeps
  <1>8. CASE advance_pending_chat_actions_commit(First)
    <2>1. CASE /\ Went(First, "saving", q) /\ worker'[First].after = "checkpointed"
               /\ MineIs(First, "Running") /\ chat_session'.request = chat_session.request
      BY <1>7, <2>1 DEF MineIs, Mine, chat_session_active, ActiveStatus
    <2>2. CASE Went(First, "failing", q) /\ chat_session' = chat_session
      BY <1>6, <2>2
    <2> QED BY <1>2, <1>8, <2>1, <2>2, ActedBase
  <1>9. CASE \E approved \in BOOLEAN : resolve_chat_approval(First, approved)
    <2>1. chat_session' = chat_session
      BY <1>9 DEF resolve_chat_approval, native
    <2> QED BY <1>2, <1>6, <1>9, <2>1, ResolveBase
  <1>10. CASE resolve_chat_approval_approved(First)
    <2>1. CASE /\ Went(First, "saving", q) /\ worker'[First].after = "poll"
               /\ MineIs(First, "WaitingApproval")
               /\ chat_session'.request = chat_session.request
      BY <1>7, <2>1 DEF MineIs, Mine, chat_session_active, ActiveStatus
    <2>2. CASE Went(First, "saving", q) /\ worker'[First].after = "refused"
               /\ chat_session' = chat_session
      BY <1>6, <2>2
    <2> QED BY <1>2, <1>10, <2>1, <2>2, ApprovedBase
  <1> QED BY <1>2, <1>8, <1>9, <1>10
LEMMA TakenCancels ==
    ASSUME Base, Solid, Taken, NEW w \in Workers, cancel_chat(w)
    PROVE  Taken'
  <1>1. w = First /\ First \in Workers /\ worker[First].pc \in Attending
    BY SoleRuns, ChatAssumption DEF cancel_chat, Attending, Polling
  <1>2. UNCHANGED <<ui, next_chat_request_id>> /\ Base'
    BY CancelChatBase DEF cancel_chat
  <1> DEFINE q == worker[First].req
  <1>3. q # 0 /\ Mine(First) /\ q \in Nat /\ q < next_chat_request_id
    BY <1>1, SoleAttends, BaseParts, RequestSize
  <1>4. CASE /\ worker[First].pc = "cancel" /\ Went(First, "cancel_flag", q)
             /\ UNCHANGED <<chat_session, cancelled>>
    <2>1. AtWork(worker'[First])
      BY <1>4 DEF AtWork, Went
    <2> QED BY <1>2, <1>4, <2>1, TakenGoesOn DEF Unasked
  <1>5. ASSUME NEW p \in {"poll", "saving"}, Went(First, p, q),
               worker[First].pc = "cancel", ~Cancellable(q), UNCHANGED <<chat_session, cancelled>>
        PROVE  Taken'
    <2>1. ~chat_session_active
      BY <1>3, <1>5 DEF Cancellable, Mine
    <2> QED BY <1>2, <1>5, <2>1, TakenGoesOn DEF Unasked
  <1>6. CASE /\ worker[First].pc = "cancel_flag" /\ Went(First, "cancel_write", q)
             /\ cancelled' = cancelled \cup {q} /\ chat_session' = chat_session
    <2>1. AtWork(worker'[First])
      BY <1>6 DEF AtWork, Went
    <2>2. \A x \in cancelled' : x < next_chat_request_id'
      BY <1>2, <1>3, <1>6 DEF Taken, PastRequests
    <2>3. chat_session'.request = q /\ next_chat_request_id <= next_chat_request_id'
      BY <1>2, <1>3, <1>6, BaseParts DEF Mine
    <2> QED BY <1>2, <1>6, <2>1, <2>2, <2>3, TakenMoves DEF Unasked
  <1>7. ASSUME NEW p \in {"poll", "saving"}, Went(First, p, q),
               CancelTurn(q, worker[First].task), cancelled' = cancelled
        PROVE  Taken'
    <2>1. chat_session'.status = "Cancelled"
      BY <1>3, <1>7, CancelTurnOK DEF Mine
    <2>2. ~chat_session_active'
      BY <2>1 DEF chat_session_active, ActiveStatus
    <2>3. \A x \in cancelled' : x < next_chat_request_id
      BY <1>7 DEF Taken, PastRequests
    <2> QED BY <1>2, <1>7, <2>2, <2>3, TakenEnds DEF Unasked
  <1> QED BY <1>1, <1>4, <1>5, <1>6, <1>7, CancelChatBase

LEMMA TakenRestores ==
    ASSUME Base, Solid, Taken, NEW w \in Workers, restore_chat_checkpoint(w)
    PROVE  Taken'
  <1>1. w = First /\ First \in Workers
    BY SoleRuns, ChatAssumption DEF restore_chat_checkpoint
  <1>2. ui' = ui /\ Base'
    BY CheckpointBase DEF restore_chat_checkpoint
  <1>3. next_chat_request_id \in Nat /\ cancelled' \subseteq Nat
    BY <1>2 DEF Base, NativeOK
  <1>4. \A x \in cancelled' : x < next_chat_request_id
    <2>1. \A x \in cancelled : x < next_chat_request_id
      BY DEF Taken, PastRequests
    <2>2. chat_session # None => chat_session.request < next_chat_request_id
      BY BaseParts
    <2> QED BY <2>1, <2>2 DEF restore_chat_checkpoint
  <1>5. ASSUME NEW p \in {"idle", "stopped"}, Went(First, p, 0), chat_session' = None,
               next_chat_request_id' = next_chat_request_id
        PROVE  Taken'
    <2>1. ~chat_session_active'
      BY <1>5 DEF chat_session_active
    <2> QED BY <1>2, <1>4, <1>5, <2>1, TakenEnds DEF Unasked
  <1>6. CASE /\ Went(First, "poll", next_chat_request_id)
             /\ next_chat_request_id' = next_chat_request_id + 1
             /\ chat_session'.request = next_chat_request_id
    <2>1. AtWork(worker'[First])
      BY <1>6 DEF AtWork, Went
    <2>2. /\ next_chat_request_id \notin cancelled'
          /\ next_chat_request_id <= next_chat_request_id'
          /\ \A x \in cancelled' : x < next_chat_request_id'
      BY <1>3, <1>4, <1>6
    <2> QED BY <1>2, <1>6, <2>1, <2>2, TakenMoves DEF Unasked
  <1> QED BY <1>1, <1>5, <1>6, CheckpointBase

LEMMA TakenButton ==
    ASSUME Base, Solid, Taken, cancelChat
    PROVE  Taken'
  <1>1. UNCHANGED <<worker, next_chat_request_id>> /\ First \in Workers /\ front = First
    BY ChatAssumption DEF cancelChat, Solid, Alone
  <1>2. worker[First].req \in Nat /\ worker[First].req < next_chat_request_id
        /\ next_chat_request_id \in Nat \ {0}
    BY <1>1, BaseParts, RequestSize DEF Base, NativeOK
  <1>3. ASSUME ui.pc \notin Ending, ui'.req \in {0, worker[First].req},
               UNCHANGED <<chat_session, cancelled>>
        PROVE  Taken'
    <2>1. chat_session_active' = chat_session_active
      BY <1>3 DEF chat_session_active
    <2>2. InHands'
      BY <1>1, <1>3, <2>1 DEF Taken, InHands, AtWork
    <2>3. NotAsking'
      BY <1>1, <1>3 DEF Taken, NotAsking
    <2>4. Flagged'
      BY <1>1, <1>3, <2>1 DEF Taken, Flagged, Ending
    <2>5. PastRequests'
      BY <1>1, <1>2, <1>3 DEF Taken, PastRequests
    <2> QED BY <2>2, <2>3, <2>4, <2>5 DEF Taken
  <1>4. CASE ui.pc = "idle" /\ ui' = [UiIdle EXCEPT !.pc = "cancel_read"]
             /\ UNCHANGED <<chat_session, cancelled>>
    <2>1. ui'.req = 0
      BY <1>4 DEF UiIdle
    <2> QED BY <1>3, <1>4, <2>1 DEF Ending
  <1>5. CASE /\ ui.pc = "cancel_read"
             /\ ui' = IF activeChatRequestId(front) # 0 /\ Cancellable(activeChatRequestId(front))
                        THEN [UiIdle EXCEPT !.pc = "cancel_flag",
                                !.req = activeChatRequestId(front), !.task = chat_session.task]
                        ELSE UiIdle
             /\ UNCHANGED <<chat_session, cancelled>>
    <2>1. ui'.req \in {0, worker[First].req}
      BY <1>1, <1>5 DEF UiIdle, activeChatRequestId
    <2> QED BY <1>3, <1>5, <2>1 DEF Ending
  <1>6. CASE /\ ui.pc = "cancel_flag" /\ cancelled' = cancelled \cup {ui.req}
             /\ ui' = [ui EXCEPT !.pc = "cancel_write"]
             /\ chat_session' = chat_session
    <2>1. ui'.pc = "cancel_write" /\ ui'.req = ui.req
      BY <1>6 DEF Base, UiOK
    <2>2. chat_session_active' = chat_session_active
      BY <1>6 DEF chat_session_active
    <2>3. InHands'
      BY <1>1, <1>6, <2>1, <2>2 DEF Taken, InHands, AtWork, Ending
    <2>4. NotAsking'
      BY <1>1, <1>6 DEF Taken, NotAsking
    <2>5. Flagged'
      BY <1>1, <1>6, <2>1, <2>2 DEF Taken, Flagged
    <2>6. PastRequests'
      BY <1>1, <1>6, <2>1 DEF Taken, PastRequests
    <2> QED BY <2>3, <2>4, <2>5, <2>6 DEF Taken
  <1>7. CASE ui.pc = "cancel_write" /\ CancelTurn(ui.req, ui.task) /\ ui' = UiIdle
             /\ cancelled' = cancelled
    <2>1. ui'.pc = "idle" /\ ui'.req = 0
      BY <1>7 DEF UiIdle
    <2>2. \/ /\ chat_session' \in Session /\ chat_session'.status = "Cancelled"
          \/ chat_session' = chat_session /\ (chat_session = None \/ chat_session.request # ui.req)
      BY <1>7, CancelTurnOK
    <2>3. chat_session_active' =>
            chat_session' = chat_session /\ chat_session_active /\ chat_session.request # ui.req
      BY <2>2 DEF chat_session_active, ActiveStatus
    <2>4. InHands'
      BY <1>1, <2>3 DEF Taken, InHands, AtWork
    <2>5. NotAsking'
      BY <1>1, <2>2 DEF Taken, NotAsking
    <2>6. Flagged'
      BY <1>1, <1>7, <2>3 DEF Taken, Flagged
    <2>7. PastRequests'
      BY <1>1, <1>2, <1>7, <2>1 DEF Taken, PastRequests
    <2> QED BY <2>4, <2>5, <2>6, <2>7 DEF Taken
  <1> QED BY <1>4, <1>5, <1>6, <1>7 DEF cancelChat

LEMMA TakenPauses ==
    ASSUME Base, Taken, NEW written \in BOOLEAN, onPause(written)
    PROVE  Taken'
  <1>1. /\ ui.pc \in {"idle", "writing"} /\ ui'.req = 0
        /\ UNCHANGED <<chat_session, worker, cancelled, next_chat_request_id>>
    <2>1. CASE ui.pc = "idle" /\ ui' = [UiIdle EXCEPT !.pc = "writing", !.copy = conversation]
      BY <2>1 DEF onPause, UiIdle, native
    <2>2. CASE ui.pc = "writing" /\ ui' = UiIdle
      BY <2>2 DEF onPause, UiIdle, native
    <2> QED BY <2>1, <2>2 DEF onPause
  <1>2. next_chat_request_id \in Nat \ {0}
    BY DEF Base, NativeOK
  <1>3. PastRequests'
    BY <1>1, <1>2 DEF Taken, PastRequests
  <1> QED BY <1>1, <1>3 DEF Taken, InHands, AtWork, NotAsking, Flagged, Ending,
               chat_session_active

LEMMA TakenStart ==
    /\ Init => Taken
    /\ processDeath => Taken'
  <1>1. ASSUME NEW f, f = [w \in Workers |-> At(IF w = First THEN "restoring" ELSE "stopped", 0)]
        PROVE  f[First].pc = "restoring"
    BY <1>1, ChatAssumption DEF At
  <1>2. "restoring" \notin Unasked /\ UiIdle.req = 0
    BY DEF Unasked, UiIdle
  <1>3. ASSUME Init PROVE Taken
    BY <1>1, <1>2, <1>3 DEF Init, Taken, InHands, NotAsking, Flagged, PastRequests,
         chat_session_active
  <1>4. ASSUME processDeath PROVE Taken'
    BY <1>1, <1>2, <1>4 DEF processDeath, Taken, InHands, NotAsking, Flagged, PastRequests,
         chat_session_active
  <1> QED BY <1>3, <1>4

LEMMA TakenStep ==
    ASSUME MaxRecreations = 0, ~DiskMayFail, Base, Stop, Solid, Taken, [Next]_vars
    PROVE  Taken'
  <1>1. CASE UNCHANGED vars
    BY <1>1 DEF vars, Taken, InHands, AtWork, NotAsking, Flagged, PastRequests,
         chat_session_active
  <1>2. ASSUME NEW w \in Workers, Step(w) PROVE Taken'
    BY <1>2, TakenSilent, TakenOver, TakenCommits, TakenActs, TakenCancels, TakenRestores
       DEF Step
  <1>3. \A w \in Workers, written \in BOOLEAN : ~onDestroy(w, written)
    BY DEF onDestroy, Base, JavaOK
  <1> QED BY <1>1, <1>2, <1>3, TakenSubmits, TakenActs, TakenButton, TakenPauses, TakenStart
          DEF Next

(* As long as the activity is not recreated and the disk does not fail, no *)
(* session is left active with nobody to end it: the executor that puts a  *)
(* flagged request down and the UI thread that has flagged it never both   *)
(* leave it to the other.                                                  *)
THEOREM SessionHandled ==
    ASSUME MaxRecreations = 0, ~DiskMayFail
    PROVE  Spec => []SessionIsServed
  <1>1. Base /\ Stop /\ Solid /\ [Next]_vars => Solid'
    BY SolidStep
  <1>2. Base /\ Stop /\ Solid /\ Taken /\ [Next]_vars => Taken'
    BY TakenStep
  <1>3. Taken => SessionIsServed
    <2> SUFFICES ASSUME Taken, chat_session_active PROVE SessionIsServed
      BY DEF SessionIsServed
    <2>1. CASE worker[First].req = chat_session.request /\ AtWork(worker[First])
      <3>1. Serves(First) /\ First \in Workers
        BY <2>1, ChatAssumption DEF Serves, Mine, AtWork, chat_session_active
      <3> QED BY <3>1 DEF SessionIsServed
    <2>2. CASE ui.pc \in Ending /\ ui.req = chat_session.request
      BY <2>2 DEF SessionIsServed, Ending
    <2> QED BY <2>1, <2>2 DEF Taken, InHands
  <1> QED BY <1>1, <1>2, <1>3, BaseInit, BaseStep, StopStart, StopStep, SoleStart, TakenStart, PTL
          DEF Spec
=============================================================================
