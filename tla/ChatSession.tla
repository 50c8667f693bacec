---------------------------- MODULE ChatSession -----------------------------
(***************************************************************************)
(* The chat protocol of the Android assistant: the native bridge           *)
(* (crates/ntd-android-bridge/src/lib.rs), whose functions take the global *)
(* Mutex<NativeState> several times per call, driven by MainActivity's     *)
(* threads.                                                                *)
(*                                                                         *)
(* A step is one critical section of the mutex together with the thread's  *)
(* local work up to the next one, a side effect of an adapter (outside the *)
(* lock), or one file operation.  The threads are the single-threaded chat *)
(* executor of each activity (Workers) and the UI thread.                  *)
(*                                                                         *)
(* A conversation is abstracted to its tasks, its committed turns and its  *)
(* active turn; a plan is direct, local (no approval needed) or external   *)
(* (one ExternalWrite); its ActionFabric checkpoint to the state of the    *)
(* action under the cursor.  The chat model is loaded throughout.          *)
(***************************************************************************)
EXTENDS Integers, SequencesExt

CONSTANTS
    Workers,       \* the chat executors: one per activity instance
    First,         \* the executor of the first activity
    Kinds,         \* the plans the planner may produce
    MaxTasks,      \* bound on the tasks of a conversation
    MaxTokens,     \* max_new_tokens
    MaxRecreations, MaxDeaths,   \* bounds on activity recreations, process deaths
    DiskMayFail,   \* may the conversation store fail to write?
    None           \* no session, no file, no local copy

ASSUME ChatAssumption ==
    /\ First \in Workers /\ IsFiniteSet(Workers)
    /\ Kinds \subseteq {"direct", "local", "external"}
    /\ MaxTasks \in Nat /\ MaxTokens \in Nat \ {0}
    /\ MaxRecreations \in Nat /\ MaxDeaths \in Nat
    /\ DiskMayFail \in BOOLEAN

ChatStatus == {"Running", "WaitingApproval", "Complete", "Cancelled", "Failed"}
ActiveStatus == {"Running", "WaitingApproval"}

Approval == {"none", "pending", "approved-executing", "approved", "denied", "reconfirm"}

Task == [kind : {"direct", "local", "external"},
         status : {"Running", "Paused", "Completed"}, approval : Approval]

(* "Suspended" stands for every state with a resume token.                 *)
Fabric == {"none", "Prepared", "Suspended", "Retryable"}

NoTask == 0

Conversation ==
    [tasks : Seq(Task), turns : Seq(Nat), active : Nat, tokens : 0..MaxTokens,
     text : BOOLEAN, fabric : Fabric]

Session == [request : Nat \ {0}, task : Nat \ {0}, status : ChatStatus]

(* Option::None is no session.                                            *)
ASSUME NoneAssumption == None \notin Session

(* Where a worker is: in submit_chat, in next_chat_event, in               *)
(* resolve_chat_approval, saving, or between calls.                        *)
Polling == {"poll", "pending", "acting", "acted", "next", "full", "generated",
            "cancel", "cancel_flag", "cancel_write", "failing", "checkpointed"}
Streaming == Polling \cup {"saving", "writing", "panel"}
AtRest == {"idle", "stopped", "waiting", "refused"}
PC == Streaming \cup AtRest \cup
      {"restoring", "decoding", "reserved", "reasoning", "submitted", "rejected", "returned",
       "approving", "denying"}

VARIABLES
    conversation, chat_session, chat_submit_in_progress, next_chat_request_id,
    cancelled,    \* the requests whose cancel flag is set
    disk,         \* the NCS97 file, or None
    worker,       \* the executors: [pc, req, task, base, copy, after]
    front,        \* the executor of the activity on screen
    conversationRestored, chatCancelRequested,   \* the activities with these fields set
    ui,           \* the UI thread: [pc, req, task, copy]
    interrupted,  \* the executors shut down by onDestroy
    recreations, deaths,   \* how many there were
    licence       \* approvals given to each task less the fresh calls they allowed

vars == <<conversation, chat_session, chat_submit_in_progress, next_chat_request_id,
          cancelled, disk, worker, front, conversationRestored, chatCancelRequested, ui,
          interrupted, recreations, deaths, licence>>

native == <<conversation, chat_session, chat_submit_in_progress,
            next_chat_request_id, cancelled>>
activity == <<front, interrupted, recreations, deaths>>
java == <<activity, conversationRestored, chatCancelRequested>>

WorkerType ==
    [pc : PC, req : Nat, task : Nat, base : Conversation \cup {None},
     copy : Conversation \cup {None}, after : PC]

TypeOK ==
    /\ conversation \in Conversation
    /\ chat_session \in Session \cup {None}
    /\ chat_submit_in_progress \in BOOLEAN
    /\ next_chat_request_id \in Nat \ {0}
    /\ cancelled \subseteq Nat
    /\ disk \in Conversation \cup {None}
    /\ worker \in [Workers -> WorkerType]
    /\ front \in Workers
    /\ conversationRestored \subseteq Workers
    /\ chatCancelRequested \subseteq Workers
    /\ ui \in [pc : {"idle", "cancel_read", "cancel_flag", "cancel_write", "writing",
                     "destroying"},
               req : Nat, task : Nat, copy : Conversation \cup {None}]
    /\ interrupted \subseteq Workers
    /\ recreations \in 0..MaxRecreations /\ deaths \in 0..MaxDeaths
    /\ licence \in [1..MaxTasks -> Int]

NewConversation ==
    [tasks |-> <<>>, turns |-> <<>>, active |-> NoTask, tokens |-> 0, text |-> FALSE,
     fabric |-> "none"]

At(pc, req) ==
    [pc |-> pc, req |-> req, task |-> NoTask, base |-> None, copy |-> None, after |-> "idle"]
UiIdle == [pc |-> "idle", req |-> 0, task |-> NoTask, copy |-> None]

Init ==
    /\ conversation = NewConversation
    /\ chat_session = None
    /\ chat_submit_in_progress = FALSE
    /\ next_chat_request_id = 1
    /\ cancelled = {}
    /\ disk = None
    /\ worker = [w \in Workers |-> At(IF w = First THEN "restoring" ELSE "stopped", 0)]
    /\ front = First
    /\ conversationRestored = {}
    /\ chatCancelRequested = {}
    /\ ui = UiIdle
    /\ interrupted = {}
    /\ recreations = 0 /\ deaths = 0
    /\ licence = [t \in 1..MaxTasks |-> 0]

-----------------------------------------------------------------------------
(* SovereignConversationState (crates/ntd-runtime/src/assistant.rs).       *)

Cleared(c) == [c EXCEPT !.active = NoTask, !.tokens = 0, !.text = FALSE, !.fabric = "none"]

begin_turn(c, kind) ==
    [c EXCEPT !.tasks = Append(@, [kind |-> kind, status |-> "Running",
                                   approval |-> IF kind = "external" THEN "pending" ELSE "none"]),
              !.active = Len(c.tasks) + 1]

append_generated(c, blank) == [c EXCEPT !.tokens = @ + 1, !.text = @ \/ ~blank]

CanComplete(c, task) == c.active = task /\ c.text

(* Mutant: the committed turn stays active.                                *)
complete_turn_stays_active(c, task) ==
    [c EXCEPT !.tasks[task].status = "Completed", !.turns = Append(@, task)]

complete_turn(c, task) ==
    [Cleared(c) EXCEPT !.tasks[task].status = "Completed", !.turns = Append(@, task)]

cancel_turn(c, task) == [Cleared(c) EXCEPT !.tasks[task].status = "Paused"]

set_chat_approval_status(c, task, status) == [c EXCEPT !.tasks[task].approval = status]

External(c, task) == c.tasks[task].kind = "external"

-----------------------------------------------------------------------------
(* The global state.                                                       *)

chat_session_active == chat_session # None /\ chat_session.status \in ActiveStatus

Mine(w) == chat_session # None /\ chat_session.request = worker[w].req
MineIs(w, status) == Mine(w) /\ chat_session.status = status

Goto(w, pc) == worker' = [worker EXCEPT ![w] = At(pc, @.req)]

(* checkpointConversation: encode under the lock, then write the file.     *)
SaveThen(w, pc) == worker' = [worker EXCEPT ![w] = [At("saving", @.req) EXCEPT !.after = pc]]

(* finishChatUi saves and lets go of the request.                          *)
finishChatUi(w) == SaveThen(w, "idle")

saving(w) ==
    /\ worker[w].pc = "saving"
    /\ worker' = [worker EXCEPT ![w].pc = "writing", ![w].copy = conversation]
    /\ conversationRestored' = conversationRestored \cup {w}
    /\ UNCHANGED <<native, disk, activity, chatCancelRequested, ui, licence>>

(* An executor that was shut down ends when its task does.                 *)
Resume(w, pc) ==
    CASE pc \in AtRest \cup {"panel"} /\ w \in interrupted -> At("stopped", 0)
      [] pc \in {"idle", "stopped"} -> At(pc, 0)
      [] pc = "checkpointed" -> At("poll", worker[w].req)
      [] OTHER -> At(pc, worker[w].req)

(* Only after ACTION_CHECKPOINTED does a failed write end the stream.      *)
writing(w, written) ==
    /\ worker[w].pc = "writing"
    /\ written \/ DiskMayFail
    /\ disk' = IF written THEN worker[w].copy ELSE disk
    /\ IF worker[w].after = "checkpointed" /\ ~written
         THEN finishChatUi(w)
         ELSE worker' = [worker EXCEPT ![w] = Resume(w, @.after)]
    /\ UNCHANGED <<native, java, ui, licence>>

-----------------------------------------------------------------------------
(* submit_chat.                                                            *)

submit_chat(w) ==
    /\ worker[w].pc = "idle" /\ w = front
    /\ Len(conversation.tasks) < MaxTasks
    /\ IF chat_submit_in_progress \/ chat_session_active
         THEN /\ finishChatUi(w)
              /\ UNCHANGED <<conversation, chat_session, chat_submit_in_progress>>
         ELSE /\ chat_submit_in_progress' = TRUE
              /\ IF conversation.active = NoTask
                   THEN UNCHANGED <<conversation, chat_session>>
                   ELSE /\ conversation' = cancel_turn(conversation, conversation.active)
                        /\ chat_session' = None
              /\ Goto(w, "reserved")
    /\ chatCancelRequested' = chatCancelRequested \ {w}
    /\ UNCHANGED <<next_chat_request_id, cancelled, disk, activity, conversationRestored, ui,
                   licence>>

(* The preflight is over: take the snapshot, or give up.                   *)
submit_chat_snapshot(w) ==
    /\ worker[w].pc = "reserved"
    /\ \/ Goto(w, "rejected")
       \/ /\ ~chat_session_active
          /\ worker' = [worker EXCEPT ![w].pc = "reasoning", ![w].base = conversation]
    /\ UNCHANGED <<native, disk, java, ui, licence>>

(* The turn as reasoning and planning on the snapshot leave it.  A local   *)
(* plan is executed at once, and may stop at a checkpoint.                 *)
Planned(base, kind, fabric) == [begin_turn(base, kind) EXCEPT !.fabric = fabric]

submit_chat_commit(w, kind, fabric) ==
    /\ worker[w].pc = "reasoning"
    /\ fabric # "none" => kind = "local" /\ fabric # "Prepared"
    /\ worker[w].base.active = NoTask
    /\ conversation = worker[w].base
    /\ ~chat_session_active
    /\ conversation' = Planned(conversation, kind, fabric)
    /\ chat_session' = [request |-> next_chat_request_id, task |-> conversation'.active,
                        status |-> IF kind = "external" THEN "WaitingApproval" ELSE "Running"]
    /\ next_chat_request_id' = next_chat_request_id + 1
    /\ worker' = [worker EXCEPT ![w] = At("submitted", next_chat_request_id)]
    /\ UNCHANGED <<chat_submit_in_progress, cancelled, disk, java, ui, licence>>

submit_chat_failed(w) ==
    /\ worker[w].pc = "reasoning"
    /\ Goto(w, "rejected")
    /\ UNCHANGED <<native, disk, java, ui, licence>>

(* Mutant: a rejected request keeps the reservation.                       *)
submit_chat_release_accepted_only(w) ==
    /\ worker[w].pc \in {"submitted", "rejected"}
    /\ chat_submit_in_progress' = (worker[w].pc = "rejected")
    /\ IF worker[w].pc = "submitted" THEN Goto(w, "returned") ELSE finishChatUi(w)
    /\ UNCHANGED <<conversation, chat_session, next_chat_request_id, cancelled, disk, java,
                   ui, licence>>

submit_chat_release(w) ==
    /\ worker[w].pc \in {"submitted", "rejected"}
    /\ chat_submit_in_progress' = FALSE
    /\ IF worker[w].pc = "submitted" THEN Goto(w, "returned") ELSE finishChatUi(w)
    /\ UNCHANGED <<conversation, chat_session, next_chat_request_id, cancelled, disk, java,
                   ui, licence>>

(* Mutant: a Stop pressed during submit_chat is forgotten.                 *)
submitChat_unchecked(w) ==
    /\ worker[w].pc = "returned"
    /\ Goto(w, "poll")
    /\ UNCHANGED <<native, disk, java, ui, licence>>

(* MainActivity has published activeChatRequestId; a Stop that came before *)
(* it is carried out now.                                                  *)
submitChat(w) ==
    /\ worker[w].pc = "returned"
    /\ worker' = [worker EXCEPT ![w] =
         IF w \in chatCancelRequested THEN [At("cancel", @.req) EXCEPT !.after = "poll"]
                                      ELSE At("poll", @.req)]
    /\ UNCHANGED <<native, disk, java, ui, licence>>

-----------------------------------------------------------------------------
(* next_chat_event.                                                        *)

(* streamChat's loop test and terminal_chat_event.                         *)
terminal_chat_event(w) ==
    /\ worker[w].pc = "poll"
    /\ \/ w \in interrupted /\ w \in conversationRestored /\ SaveThen(w, "stopped")
       \/ w \in interrupted /\ w \notin conversationRestored /\ Goto(w, "stopped")
       \/ w \notin interrupted /\ ~Mine(w) /\ Goto(w, "pending")
       \/ w \notin interrupted /\ MineIs(w, "Running") /\ Goto(w, "pending")
       \/ w \notin interrupted /\ MineIs(w, "WaitingApproval") /\ SaveThen(w, "panel")
       \/ /\ w \notin interrupted /\ Mine(w) /\ ~chat_session_active
          /\ finishChatUi(w)
    /\ UNCHANGED <<native, disk, java, ui, licence>>

(* Mutant: any running session will do, not only the caller's.             *)
advance_pending_chat_actions_any_request(w) ==
    /\ worker[w].pc = "pending"
    /\ IF chat_session = None \/ chat_session.status # "Running" THEN Goto(w, "failing")
       ELSE IF conversation.active # chat_session.task \/ conversation.fabric = "none"
         THEN Goto(w, "next")
       ELSE IF /\ External(conversation, chat_session.task)
               /\ conversation.tasks[chat_session.task].approval # "approved-executing"
         THEN Goto(w, "failing")
       ELSE worker' = [worker EXCEPT ![w].pc = "acting", ![w].base = conversation]
    /\ UNCHANGED <<native, disk, java, ui, licence>>

(* advance_pending_chat_actions, up to the adapters.                       *)
advance_pending_chat_actions(w) ==
    /\ worker[w].pc = "pending"
    /\ IF ~MineIs(w, "Running") THEN Goto(w, "failing")
       ELSE IF conversation.active # chat_session.task \/ conversation.fabric = "none"
         THEN Goto(w, "next")
       ELSE IF /\ External(conversation, chat_session.task)
               /\ conversation.tasks[chat_session.task].approval # "approved-executing"
         THEN Goto(w, "failing")
       ELSE worker' = [worker EXCEPT ![w].pc = "acting", ![w].base = conversation]
    /\ UNCHANGED <<native, disk, java, ui, licence>>

(* The plan runs outside the lock.  An adapter that is called afresh acts  *)
(* on an approval; one that is resumed goes on with what it began.         *)
Fresh(c) == External(c, c.active) /\ c.fabric # "Suspended"

Spend(c) == licence' = IF Fresh(c) THEN [licence EXCEPT ![c.active] = @ - 1] ELSE licence

(* Mutant: an ambiguous write is retried under the old approval.           *)
action_checkpoint_never_reconfirms(c) == FALSE

action_checkpoint_requires_reconfirm(c) == External(c, c.active) /\ c.fabric = "Retryable"

Advanced(c, outcome) ==
    LET stepped == [c EXCEPT !.fabric = IF outcome = "Completed" THEN "none" ELSE outcome] IN
    CASE outcome = "Completed" /\ External(c, c.active) ->
            set_chat_approval_status(stepped, c.active, "approved")
      [] action_checkpoint_requires_reconfirm(stepped) ->
            set_chat_approval_status(stepped, c.active, "reconfirm")
      [] OTHER -> stepped

execute_android_verified_actions(w, outcome) ==
    /\ worker[w].pc = "acting"
    /\ worker' = [worker EXCEPT ![w].pc = "acted", ![w].copy = Advanced(worker[w].base, outcome)]
    /\ Spend(worker[w].base)
    /\ UNCHANGED <<native, disk, java, ui>>

(* The run ends in an error, before or after the adapter has acted.        *)
execute_android_verified_actions_fails(w, acted) ==
    /\ worker[w].pc = "acting"
    /\ Goto(w, "failing")
    /\ IF acted THEN Spend(worker[w].base) ELSE UNCHANGED licence
    /\ UNCHANGED <<native, disk, java, ui>>

advance_pending_chat_actions_commit(w) ==
    /\ worker[w].pc = "acted"
    /\ IF conversation = worker[w].base /\ MineIs(w, "Running")
         THEN /\ conversation' = worker[w].copy
              /\ chat_session' =
                   IF conversation'.tasks[chat_session.task].approval = "reconfirm"
                     THEN [chat_session EXCEPT !.status = "WaitingApproval"] ELSE chat_session
              /\ SaveThen(w, "checkpointed")
         ELSE /\ Goto(w, "failing")
              /\ UNCHANGED <<conversation, chat_session>>
    /\ UNCHANGED <<chat_submit_in_progress, next_chat_request_id, cancelled, disk, java,
                   ui, licence>>

(* The token prefix is read; then a full turn is committed, a cancelled    *)
(* one cancelled, or a token generated outside the lock.  The generator    *)
(* and the tokenizer may fail.                                             *)
next_chat_event(w) ==
    /\ worker[w].pc = "next"
    /\ \/ /\ Mine(w) /\ conversation.active = chat_session.task
          /\ worker' = [worker EXCEPT ![w].task = chat_session.task, ![w].pc =
                IF conversation.tokens >= MaxTokens THEN "full"
                ELSE IF worker[w].req \in cancelled THEN "cancel" ELSE "generated"]
       \/ /\ Mine(w) /\ conversation.active = chat_session.task =>
                conversation.tokens < MaxTokens /\ worker[w].req \notin cancelled
          /\ Goto(w, "failing")
    /\ UNCHANGED <<native, disk, java, ui, licence>>

Finished(w) == IF Mine(w) THEN [chat_session EXCEPT !.status = "Complete"] ELSE chat_session

(* A turn that has used up its budget is committed.                        *)
next_chat_event_full(w) ==
    /\ worker[w].pc = "full"
    /\ IF CanComplete(conversation, worker[w].task)
         THEN /\ conversation' = complete_turn(conversation, worker[w].task)
              /\ chat_session' = Finished(w)
              /\ finishChatUi(w)
         ELSE /\ Goto(w, "failing")
              /\ UNCHANGED <<conversation, chat_session>>
    /\ UNCHANGED <<chat_submit_in_progress, next_chat_request_id, cancelled, disk, java,
                   ui, licence>>

(* The token is appended, unless the request is no longer running; an EOS  *)
(* or the last token of the budget commits the turn.  A turn whose text is *)
(* blank cannot be committed: the token stays and the call fails.          *)
next_chat_event_token(w, blank, eos) ==
    LET stopped == ~MineIs(w, "Running") \/ worker[w].req \in cancelled
        appended == append_generated(conversation, blank)
        complete == eos \/ appended.tokens >= MaxTokens
    IN
    /\ worker[w].pc = "generated"
    /\ CASE stopped -> finishChatUi(w) /\ UNCHANGED <<conversation, chat_session>>
         [] ~stopped /\ (conversation.active # worker[w].task \/ conversation.tokens >= MaxTokens) ->
              Goto(w, "failing") /\ UNCHANGED <<conversation, chat_session>>
         [] OTHER ->
              IF ~complete
                THEN /\ conversation' = appended
                     /\ SaveThen(w, "poll")
                     /\ UNCHANGED chat_session
              ELSE IF CanComplete(appended, worker[w].task)
                THEN /\ conversation' = complete_turn(appended, worker[w].task)
                     /\ chat_session' = Finished(w)
                     /\ SaveThen(w, "poll")
              ELSE /\ conversation' = appended
                   /\ Goto(w, "failing")
                   /\ UNCHANGED chat_session
    /\ UNCHANGED <<chat_submit_in_progress, next_chat_request_id, cancelled, disk, java,
                   ui, licence>>

(* Mutant: the error is reported and the session left running.             *)
nativeNextChatEvent_error_reported_only(w) ==
    /\ worker[w].pc = "failing"
    /\ finishChatUi(w)
    /\ UNCHANGED <<native, disk, java, ui, licence>>

(* nativeNextChatEvent turns an error into status Failed.                  *)
nativeNextChatEvent_error(w) ==
    /\ worker[w].pc = "failing"
    /\ chat_session' = IF Mine(w) THEN [chat_session EXCEPT !.status = "Failed"] ELSE chat_session
    /\ finishChatUi(w)
    /\ UNCHANGED <<conversation, chat_submit_in_progress, next_chat_request_id, cancelled,
                   disk, java, ui, licence>>

-----------------------------------------------------------------------------
(* cancel_chat: read the session, set its flag, cancel the turn.  With the *)
(* turn still active cancel_turn fails only when a 64-bit tick or memory   *)
(* id runs out, which is left out.                                         *)

Cancellable(req) == chat_session # None /\ chat_session.request = req /\ chat_session_active

(* Mutant: cancelling only sets the flag.                                  *)
CancelFlagOnly(req, task) == UNCHANGED <<conversation, chat_session>>

CancelTurn(req, task) ==
    /\ conversation' = IF task # NoTask /\ conversation.active = task
                         THEN cancel_turn(conversation, task) ELSE conversation
    /\ chat_session' = IF chat_session # None /\ chat_session.request = req
                         THEN [chat_session EXCEPT !.status = "Cancelled"] ELSE chat_session

(* Called by next_chat_event when it finds the flag set, and by submitChat *)
(* before it starts to stream.                                             *)
AfterCancel(w) == IF worker[w].after = "poll" THEN Goto(w, "poll") ELSE finishChatUi(w)

cancel_chat(w) ==
    /\ \/ /\ worker[w].pc = "cancel"
          /\ IF Cancellable(worker[w].req)
               THEN worker' = [worker EXCEPT ![w].pc = "cancel_flag",
                                             ![w].task = chat_session.task]
               ELSE AfterCancel(w)
          /\ UNCHANGED <<conversation, chat_session, cancelled>>
       \/ /\ worker[w].pc = "cancel_flag"
          /\ cancelled' = cancelled \cup {worker[w].req}
          /\ worker' = [worker EXCEPT ![w].pc = "cancel_write"]
          /\ UNCHANGED <<conversation, chat_session>>
       \/ /\ worker[w].pc = "cancel_write"
          /\ CancelTurn(worker[w].req, worker[w].task)
          /\ AfterCancel(w)
          /\ UNCHANGED cancelled
    /\ UNCHANGED <<chat_submit_in_progress, next_chat_request_id, disk, java, ui, licence>>

(* MainActivity.cancelChat, on the UI thread: the Stop button, which is    *)
(* enabled from Send or restore on, except while the approval panel is up. *)
Submitting == {"reserved", "reasoning", "submitted", "rejected", "returned"}

activeChatRequestId(w) == IF worker[w].pc = "submitted" THEN 0 ELSE worker[w].req

cancelChat ==
    /\ \/ /\ ui.pc = "idle"
          /\ worker[front].pc \in Submitting \cup Streaming
          /\ chatCancelRequested' = chatCancelRequested \cup {front}
          /\ ui' = [UiIdle EXCEPT !.pc = "cancel_read"]
          /\ UNCHANGED <<conversation, chat_session, cancelled>>
       \/ /\ ui.pc = "cancel_read"
          /\ ui' = IF activeChatRequestId(front) # 0 /\ Cancellable(activeChatRequestId(front))
                     THEN [UiIdle EXCEPT !.pc = "cancel_flag",
                             !.req = activeChatRequestId(front), !.task = chat_session.task]
                     ELSE UiIdle
          /\ UNCHANGED <<conversation, chat_session, cancelled, chatCancelRequested>>
       \/ /\ ui.pc = "cancel_flag"
          /\ cancelled' = cancelled \cup {ui.req}
          /\ ui' = [ui EXCEPT !.pc = "cancel_write"]
          /\ UNCHANGED <<conversation, chat_session, chatCancelRequested>>
       \/ /\ ui.pc = "cancel_write"
          /\ CancelTurn(ui.req, ui.task)
          /\ ui' = UiIdle
          /\ UNCHANGED <<cancelled, chatCancelRequested>>
    /\ UNCHANGED <<chat_submit_in_progress, next_chat_request_id, disk, worker, activity,
                   conversationRestored, licence>>

-----------------------------------------------------------------------------
(* resolve_chat_approval, run on the executor for a tap on the panel.      *)

showPanel(w) ==
    /\ worker[w].pc = "panel"
    /\ Goto(w, "waiting")
    /\ UNCHANGED <<native, disk, java, ui, licence>>

(* The copy that approval commits: the plan is prepared, not executed.     *)
Prepared(c, task) ==
    [set_chat_approval_status(c, task, "approved-executing") EXCEPT
        !.fabric = IF @ = "none" THEN "Prepared" ELSE @]

Denied(c, task) == cancel_turn(set_chat_approval_status(c, task, "denied"), task)

resolve_chat_approval(w, approved) ==
    /\ worker[w].pc \in {"waiting", "refused"} /\ w = front
    /\ IF /\ MineIs(w, "WaitingApproval")
          /\ conversation.tasks[chat_session.task].approval
               \in {"pending", "reconfirm", "approved-executing"}
          /\ conversation.active = chat_session.task
         THEN worker' = [worker EXCEPT
                ![w].pc = IF approved THEN "approving" ELSE "denying",
                ![w].task = chat_session.task,
                ![w].copy = IF approved THEN Prepared(conversation, chat_session.task)
                                        ELSE Denied(conversation, chat_session.task)]
         ELSE SaveThen(w, "refused")
    /\ UNCHANGED <<native, disk, java, ui, licence>>

resolve_chat_approval_denied(w) ==
    /\ worker[w].pc = "denying"
    /\ IF Mine(w)
         THEN /\ conversation' = worker[w].copy
              /\ chat_session' = [chat_session EXCEPT !.status = "Cancelled"]
              /\ finishChatUi(w)
         ELSE /\ SaveThen(w, "refused")
              /\ UNCHANGED <<conversation, chat_session>>
    /\ UNCHANGED <<chat_submit_in_progress, next_chat_request_id, cancelled, disk, java,
                   ui, licence>>

resolve_chat_approval_approved(w) ==
    /\ worker[w].pc = "approving"
    /\ IF MineIs(w, "WaitingApproval") /\ chat_session.task = worker[w].task
         THEN /\ conversation' = worker[w].copy
              /\ chat_session' = [chat_session EXCEPT !.status = "Running"]
              /\ licence' = IF Fresh(conversation') THEN [licence EXCEPT ![worker[w].task] = @ + 1]
                                                   ELSE licence
              /\ SaveThen(w, "poll")
         ELSE /\ SaveThen(w, "refused")
              /\ UNCHANGED <<conversation, chat_session, licence>>
    /\ UNCHANGED <<chat_submit_in_progress, next_chat_request_id, cancelled, disk, java, ui>>

(* The plan cannot be prepared (an adapter cannot be built).               *)
resolve_chat_approval_fails(w) ==
    /\ worker[w].pc = "approving"
    /\ SaveThen(w, "refused")
    /\ UNCHANGED <<native, disk, java, ui, licence>>

-----------------------------------------------------------------------------
(* The durable file, recreation of the activity and death of the process.  *)

(* onPause saves, once the activity has restored.                          *)
onPause(written) ==
    /\ \/ /\ ui.pc = "idle" /\ front \in conversationRestored
          /\ ui' = [UiIdle EXCEPT !.pc = "writing", !.copy = conversation]
          /\ UNCHANGED disk
       \/ /\ ui.pc = "writing"
          /\ written \/ DiskMayFail
          /\ disk' = IF written THEN ui.copy ELSE disk
          /\ ui' = UiIdle
    /\ UNCHANGED <<native, worker, java, licence>>

(* No file is a restore of nothing; a read error leaves the activity       *)
(* unrestored, and usable.                                                 *)
restoreConversation(w) ==
    /\ worker[w].pc = "restoring"
    /\ \/ /\ disk = None
          /\ worker' = [worker EXCEPT ![w] = Resume(w, "idle")]
          /\ conversationRestored' = conversationRestored \cup {w}
       \/ /\ disk # None
          /\ worker' = [worker EXCEPT ![w] = [At("decoding", 0) EXCEPT !.copy = disk]]
          /\ UNCHANGED conversationRestored
       \/ /\ DiskMayFail
          /\ worker' = [worker EXCEPT ![w] = Resume(w, "idle")]
          /\ UNCHANGED conversationRestored
    /\ UNCHANGED <<native, disk, activity, chatCancelRequested, ui, licence>>

(* An interrupted approved write must be confirmed again.                  *)
Reconfirmed(c) ==
    IF c.tasks[c.active].approval = "approved-executing"
      THEN set_chat_approval_status(c, c.active, "reconfirm") ELSE c

(* Mutant: an interrupted approved write does not wait.                    *)
waiting_approval_unresolved_only(approval) == approval \in {"pending", "reconfirm"}

waiting_approval(approval) == approval \in {"pending", "reconfirm", "approved-executing"}

restore_chat_checkpoint(w) ==
    LET file == worker[w].copy IN
    /\ worker[w].pc = "decoding"
    /\ cancelled' = IF chat_session = None THEN cancelled ELSE cancelled \cup {chat_session.request}
    /\ IF file.active = NoTask
         THEN /\ conversation' = file
              /\ chat_session' = None
              /\ worker' = [worker EXCEPT ![w] = Resume(w, "idle")]
              /\ UNCHANGED <<next_chat_request_id, chatCancelRequested>>
         ELSE /\ conversation' = Reconfirmed(file)
              /\ chat_session' =
                   [request |-> next_chat_request_id, task |-> file.active,
                    status |-> IF waiting_approval(file.tasks[file.active].approval)
                                 THEN "WaitingApproval" ELSE "Running"]
              /\ worker' = [worker EXCEPT ![w] = At("poll", next_chat_request_id)]
              /\ next_chat_request_id' = next_chat_request_id + 1
              /\ chatCancelRequested' = chatCancelRequested \ {w}
    /\ conversationRestored' = conversationRestored \cup {w}
    /\ UNCHANGED <<chat_submit_in_progress, disk, activity, ui, licence>>

(* The executor is shut down; the next activity restores on its own.       *)
recreate(w) ==
    /\ worker[w].pc = "stopped"
    /\ interrupted' = (interrupted \cup {front}) \ {w}
    /\ worker' = [worker EXCEPT
         ![front] = IF @.pc \in AtRest \cup {"panel"} THEN At("stopped", 0) ELSE @,
         ![w] = At("restoring", 0)]
    /\ front' = w
    /\ conversationRestored' = conversationRestored \ {w}
    /\ chatCancelRequested' = chatCancelRequested \ {w}
    /\ recreations' = recreations + 1
    /\ ui' = UiIdle

(* onDestroy saves first, once the activity has restored.                  *)
onDestroy(w, written) ==
    /\ recreations < MaxRecreations
    /\ \/ /\ ui.pc = "idle" /\ front \notin conversationRestored
          /\ recreate(w)
          /\ UNCHANGED disk
       \/ /\ ui.pc = "idle" /\ front \in conversationRestored
          /\ ui' = [UiIdle EXCEPT !.pc = "destroying", !.copy = conversation]
          /\ UNCHANGED <<worker, disk, front, interrupted, recreations, conversationRestored,
                         chatCancelRequested>>
       \/ /\ ui.pc = "destroying"
          /\ written \/ DiskMayFail
          /\ disk' = IF written THEN ui.copy ELSE disk
          /\ recreate(w)
    /\ UNCHANGED <<native, deaths, licence>>

processDeath ==
    /\ deaths < MaxDeaths
    /\ deaths' = deaths + 1
    /\ conversation' = NewConversation
    /\ chat_session' = None
    /\ chat_submit_in_progress' = FALSE
    /\ next_chat_request_id' = 1
    /\ cancelled' = {}
    /\ worker' = [w \in Workers |-> At(IF w = First THEN "restoring" ELSE "stopped", 0)]
    /\ front' = First
    /\ conversationRestored' = {}
    /\ chatCancelRequested' = {}
    /\ interrupted' = {}
    /\ ui' = UiIdle
    /\ licence' = [t \in 1..MaxTasks |-> 0]
    /\ UNCHANGED <<disk, recreations>>

-----------------------------------------------------------------------------

(* What an executor does by itself once a task was given to it.            *)
Step(w) ==
    \/ saving(w)
    \/ \E written \in BOOLEAN : writing(w, written)
    \/ submit_chat_snapshot(w)
    \/ \E kind \in Kinds, fabric \in Fabric : submit_chat_commit(w, kind, fabric)
    \/ submit_chat_failed(w)
    \/ submit_chat_release(w)
    \/ submitChat(w)
    \/ terminal_chat_event(w)
    \/ advance_pending_chat_actions(w)
    \/ \E outcome \in {"Completed", "Suspended", "Retryable"} :
         execute_android_verified_actions(w, outcome)
    \/ \E acted \in BOOLEAN : execute_android_verified_actions_fails(w, acted)
    \/ advance_pending_chat_actions_commit(w)
    \/ next_chat_event(w)
    \/ next_chat_event_full(w)
    \/ \E blank, eos \in BOOLEAN : next_chat_event_token(w, blank, eos)
    \/ nativeNextChatEvent_error(w)
    \/ cancel_chat(w)
    \/ showPanel(w)
    \/ resolve_chat_approval_denied(w)
    \/ resolve_chat_approval_approved(w)
    \/ resolve_chat_approval_fails(w)
    \/ restoreConversation(w)
    \/ restore_chat_checkpoint(w)

UiStep ==
    /\ ui.pc # "idle"
    /\ \/ cancelChat
       \/ \E written \in BOOLEAN : onPause(written) \/ \E w \in Workers : onDestroy(w, written)

Next ==
    \/ \E w \in Workers :
        \/ Step(w)
        \/ submit_chat(w)
        \/ \E approved \in BOOLEAN : resolve_chat_approval(w, approved)
        \/ \E written \in BOOLEAN : onDestroy(w, written)
    \/ cancelChat
    \/ \E written \in BOOLEAN : onPause(written)
    \/ processDeath

Spec == Init /\ [][Next]_vars

(* The executors and the UI thread keep running; the user, the system and  *)
(* the disk owe nothing.                                                   *)
FairSpec == Spec /\ WF_vars(UiStep) /\ \A w \in Workers : WF_vars(Step(w))

-----------------------------------------------------------------------------
(* Properties.                                                             *)

(* The session and the conversation, which different critical sections     *)
(* replace, agree: an active session has the active turn as its task, and  *)
(* it waits for approval exactly when that task's write is unapproved.     *)
SessionMatchesTurn ==
    chat_session_active =>
        LET t == chat_session.task IN
        /\ conversation.active = t
        /\ conversation.tasks[t].status = "Running"
        /\ chat_session.status = "WaitingApproval" <=>
             conversation.tasks[t].approval \in {"pending", "reconfirm"}

(* An external write is called afresh only on an approval that was given   *)
(* in this process and that no earlier call has used up: an interrupted,   *)
(* ambiguous or restored write is never replayed by itself.                *)
NoAutomaticReplay == \A t \in DOMAIN licence : licence[t] >= 0

(* A turn is committed at most once, for a completed task, and the active  *)
(* turn is not among the committed ones.                                   *)
TurnsCommittedOnce ==
    \A i \in DOMAIN conversation.turns :
        /\ conversation.tasks[conversation.turns[i]].status = "Completed"
        /\ conversation.turns[i] # conversation.active
        /\ \A j \in DOMAIN conversation.turns :
             conversation.turns[i] = conversation.turns[j] => i = j

(* An active native session is in somebody's hands: an executor streams    *)
(* it, waits for its approval, or is about to replace it by a restore, or  *)
(* the UI thread is about to cancel it.  Otherwise submit_chat would       *)
(* refuse every later request.                                             *)
Serves(w) ==
    \/ worker[w].pc \in {"restoring", "decoding"}
    \/ worker[w].pc \notin {"idle", "stopped"} /\ Mine(w)

SessionIsServed ==
    chat_session_active =>
        \/ \E w \in Workers : Serves(w)
        \/ ui.pc \in {"cancel_flag", "cancel_write"} /\ ui.req = chat_session.request

(* A Stop is not lost, whenever it is pressed: once the executor streams   *)
(* and the UI thread is done with the button, the request it was pressed   *)
(* for is flagged or over.  Neither side takes a lock for it: the worker   *)
(* publishes the request and then reads the flag, the button does the      *)
(* opposite.                                                               *)
StopIsNotLost ==
    /\ worker[front].pc \in (Polling \cup {"saving", "writing"}) \ {"cancel", "cancel_flag"}
    /\ front \in chatCancelRequested
    /\ ui.pc \notin {"cancel_read", "cancel_flag"}
    => worker[front].req \in cancelled \/ ~Cancellable(worker[front].req)

(* The reservation submit_chat takes is given back on every path.          *)
ReservationReleased == chat_submit_in_progress ~> ~chat_submit_in_progress

(* A request whose cancel flag is set stops streaming, whatever its        *)
(* actions answer.                                                         *)
CancelStops ==
    \A w \in Workers :
        (worker[w].pc \in Streaming /\ worker[w].req \in cancelled) ~> worker[w].pc \in AtRest

(* What docs/ARCHITECTURE.md says: UI exit, process death and reboot       *)
(* cannot erase a committed task checkpoint.  A turn that is committed in  *)
(* the file stays there.                                                   *)
CommittedTurnsKept ==
    [][disk # None => disk' # None /\ IsPrefix(disk.turns, disk'.turns)]_disk

(* What docs/ROADMAP.md says of approved writes: execution stops at a      *)
(* durable prepared boundary before any side effect.                       *)
DurableBeforeWrite ==
    \A w \in Workers :
        worker[w].pc = "acting" /\ Fresh(worker[w].base) =>
            /\ disk # None
            /\ disk.active = worker[w].base.active
            /\ disk.fabric # "none"
=============================================================================
