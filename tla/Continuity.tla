---------------------------- MODULE Continuity ------------------------------
(***************************************************************************)
(* The durable mobile session: the MCS97 bundle on disk and its copy in    *)
(* the native state, the callbacks of the Android shell that restore and   *)
(* save it: activity, persisted job, foreground service, boot receiver.    *)
(*                                                                         *)
(* Every callback runs on the main thread, so each is one step; a process  *)
(* death between its calls is the failed write followed by process_death.  *)
(* A bundle is built outside the shell, so the first file is any valid     *)
(* one.  Of its two inner checkpoints only this much is kept: whether a    *)
(* plan of the journal is the one that a pending approval names.           *)
(*                                                                         *)
(* The panel that asks for the bundle's approval also asks for those of    *)
(* the chat's actions.  The chat executor of the activity shows it by a    *)
(* callback that it posts to the main thread; a tap on it is an answer to  *)
(* the chat whenever the chat has a question, and the executor gives it to *)
(* the native session (ChatSession) later.                                 *)
(***************************************************************************)
EXTENDS Integers

CONSTANTS
    MAX_SEQUENCE    \* the last checkpoint_sequence that can be counted (u64)

ASSUME ContinuityAssumption == MAX_SEQUENCE \in Nat \ {0}

VARIABLES
    disk,       \* the file of NtdContinuityStore
    bundle,     \* NativeState.bundle
    hostUp,     \* a runtime is attached to NtdSessionController
    activity,   \* MainActivity is shown
    panel,      \* its approval panel is visible
    job,        \* the persisted job is scheduled
    service,    \* the foreground service: "none", "starting" or "running"
    chatPending,\* pendingChatApprovalRequestId is set
    shows,      \* callbacks of the chat executor, posted to show the panel
    answers,    \* answers to the chat that its executor has not yet taken
    untimely    \* the chat was answered while the panel that asks for it was
                \* still to be shown (history)

chatVars == <<chatPending, shows, answers, untimely>>
continuityVars == <<disk, bundle, hostUp, activity, panel, job, service, chatVars>>

NoBundle == [seq |-> 0]

MobileContinuityState ==
    {"Interactive", "ActiveExecution", "Checkpointed", "SuspendedByOs",
     "WaitingCondition", "WaitingApproval", "Reconstructing", "VerifyingResume",
     "Completed", "FailedRecoverable"}

validate_bundle(b) ==
    /\ b.seq > 0
    /\ b.pending # "none" <=> b.state = "WaitingApproval"

(* The approval names an action of a plan of the journal.                  *)
validate_links(b) == b.pending # "unlinked"

build_mobile_continuity_bundle ==
    {b \in [seq : {1}, state : MobileContinuityState, wake : {"scheduled"},
            pending : {"none", "linked", "unlinked"}] :
        validate_bundle(b) /\ validate_links(b)}

has_eligible_work(state) == state \notin {"Completed", "FailedRecoverable"}

requires_foreground(state) == state = "ActiveExecution"

-----------------------------------------------------------------------------
(* The two calls of NtdSessionController.                                  *)

ResumeResult(b, restored, eligible, foreground, asks) ==
    [bundle |-> b, restored |-> restored, eligible |-> eligible,
     foreground |-> foreground, asks |-> asks]

(* Mutant: what was verified is not kept.                                  *)
nativeRestoreAndVerify_forgets(b, reason) ==
    ResumeResult(bundle, TRUE, has_eligible_work(b.state), requires_foreground(b.state),
                 b.pending # "none")

nativeRestoreAndVerify(b, reason) ==
    IF validate_bundle(b) /\ validate_links(b)
    THEN ResumeResult([b EXCEPT !.wake = reason], TRUE, has_eligible_work(b.state),
                      requires_foreground(b.state), b.pending # "none")
    ELSE ResumeResult(bundle, FALSE, FALSE, FALSE, FALSE)

(* From the file, which may not be readable.  The result holds the bundle  *)
(* that is in memory afterwards.                                           *)
restore(reason, readable) ==
    IF ~readable \/ disk = NoBundle
    THEN ResumeResult(bundle, FALSE, FALSE, FALSE, FALSE)
    ELSE IF ~hostUp
    THEN ResumeResult(bundle, FALSE, TRUE, FALSE, FALSE)
    ELSE nativeRestoreAndVerify(disk, reason)

(* Mutant: the counted sequence stays in the copy that was encoded.        *)
nativeCheckpoint_copy(b) == b

(* The bundle that stays in memory once it was encoded.                    *)
nativeCheckpoint(b) == [b EXCEPT !.seq = @ + 1]

(* Saves b, the bundle in memory; the write may fail, and memory is ahead  *)
(* of the file then.                                                       *)
checkpoint(b, written) ==
    IF /\ hostUp /\ b # NoBundle /\ b.seq < MAX_SEQUENCE
       /\ validate_bundle(b)
    THEN /\ bundle' = nativeCheckpoint(b)
         /\ disk' = IF written THEN [b EXCEPT !.seq = @ + 1] ELSE disk
    ELSE bundle' = b /\ UNCHANGED disk

-----------------------------------------------------------------------------
(* The callbacks.                                                          *)

ContinuityInit ==
    /\ disk \in build_mobile_continuity_bundle \cup {NoBundle}
    /\ bundle = NoBundle /\ hostUp \in BOOLEAN
    /\ activity = FALSE /\ panel = FALSE
    /\ job = FALSE /\ service = "none"
    /\ chatPending = FALSE /\ shows = 0 /\ answers = 0 /\ untimely = FALSE

(* The fields and the executor of an activity end with it.                 *)
NoChat == chatPending' = FALSE /\ shows' = 0 /\ answers' = 0 /\ untimely' = FALSE

(* onCreate, of the first activity or of the one that replaces it.         *)
restoreFromUi ==
    \E readable \in BOOLEAN :
        LET r == restore("user_interaction", readable)
        IN  /\ bundle' = r.bundle /\ panel' = r.asks
            /\ activity' = TRUE /\ NoChat
            /\ UNCHANGED <<disk, hostUp, job, service>>

onPause ==
    /\ activity
    /\ \E written \in BOOLEAN : checkpoint(bundle, written)
    /\ UNCHANGED <<hostUp, activity, panel, job, service, chatVars>>

nativeResolveApproval(b, approved) ==
    [b EXCEPT !.pending = "none", !.wake = "approval_resolved",
              !.state = IF approved THEN "Checkpointed" ELSE "FailedRecoverable"]

(* A tap on the panel.  The chat's question comes first: the panel goes    *)
(* and the executor gets the answer.  Without one the answer is to the     *)
(* bundle and saved at once; a write that fails is not reported.           *)
resolveApproval(approved) ==
    /\ activity /\ panel /\ hostUp
    /\ \/ /\ chatPending
          /\ panel' = FALSE /\ answers' = answers + 1
          /\ untimely' = (untimely \/ shows > 0)
          /\ UNCHANGED <<bundle, disk, chatPending, shows>>
       \/ /\ ~chatPending
          /\ IF bundle # NoBundle /\ bundle.state = "WaitingApproval" /\ bundle.pending # "none"
             THEN /\ \E written \in BOOLEAN :
                       checkpoint(nativeResolveApproval(bundle, approved), written)
                  /\ panel' = FALSE
             ELSE UNCHANGED <<bundle, disk, panel>>
          /\ UNCHANGED chatVars
    /\ UNCHANGED <<hostUp, activity, job, service>>

(* streamChat, on the executor, meets an action that needs an approval.    *)
chat_approval_required ==
    /\ activity /\ hostUp /\ ~chatPending
    /\ chatPending' = TRUE /\ shows' = shows + 1
    /\ UNCHANGED <<disk, bundle, hostUp, activity, panel, job, service, answers, untimely>>

chat_panel_shown ==
    /\ shows > 0
    /\ shows' = shows - 1 /\ panel' = TRUE
    /\ UNCHANGED <<disk, bundle, hostUp, activity, job, service, chatPending, answers, untimely>>

(* The executor takes an answer.  The native session accepts it only if it *)
(* is waiting for one; otherwise the panel is to be shown again.           *)
chat_answer_taken ==
    /\ answers > 0
    /\ answers' = answers - 1
    /\ \/ chatPending /\ chatPending' = FALSE /\ UNCHANGED shows
       \/ shows' = shows + 1 /\ UNCHANGED chatPending
    /\ UNCHANGED <<disk, bundle, hostUp, activity, panel, job, service, untimely>>

(* After a reboot the job is scheduled only when there is a file.          *)
boot_completed ==
    /\ job' = (job \/ disk # NoBundle)
    /\ UNCHANGED <<disk, bundle, hostUp, activity, panel, service, chatVars>>

(* onStartJob: what it restored is handed to the foreground service or     *)
(* saved at once.  It is scheduled again when it could not restore work.   *)
onStartJob ==
    /\ job
    /\ \E readable, written \in BOOLEAN :
        LET r == restore("reboot", readable)
        IN  /\ IF r.foreground /\ r.eligible
               THEN service' = "starting" /\ bundle' = r.bundle /\ UNCHANGED disk
               ELSE checkpoint(r.bundle, written) /\ UNCHANGED service
            /\ job' = (r.eligible /\ ~r.restored)
    /\ UNCHANGED <<hostUp, activity, panel, chatVars>>

(* The service, started or delivered again, checks the file for itself.    *)
onStartCommand ==
    /\ service = "starting"
    /\ \E readable, written \in BOOLEAN :
        LET r == restore("foreground", readable)
        IN  /\ IF ~r.restored \/ ~r.eligible
               THEN bundle' = r.bundle /\ service' = "none" /\ UNCHANGED disk
               ELSE /\ checkpoint(r.bundle, written)
                    /\ service' = IF r.foreground THEN "running" ELSE "none"
    /\ UNCHANGED <<hostUp, activity, panel, job, chatVars>>

(* onTaskRemoved keeps the service, onDestroy ends it; both save.  The job *)
(* is never stopped: onStartJob says that nothing of it goes on.           *)
onTaskRemoved_or_onDestroy ==
    /\ service = "running"
    /\ \E written \in BOOLEAN : checkpoint(bundle, written)
    /\ service' \in {"none", "running"}
    /\ UNCHANGED <<hostUp, activity, panel, job, chatVars>>

(* START_REDELIVER_INTENT brings a running service back.  The next process *)
(* may find no native library.                                             *)
continuity_process_death ==
    /\ bundle' = NoBundle /\ activity' = FALSE /\ panel' = FALSE
    /\ hostUp' \in BOOLEAN /\ NoChat
    /\ service' = IF service = "none" THEN "none" ELSE "starting"
    /\ UNCHANGED <<disk, job>>

ContinuityNext ==
    \/ restoreFromUi \/ onPause \/ boot_completed \/ onStartJob
    \/ (\E approved \in BOOLEAN : resolveApproval(approved))
    \/ chat_approval_required \/ chat_panel_shown \/ chat_answer_taken
    \/ onStartCommand \/ onTaskRemoved_or_onDestroy \/ continuity_process_death

ContinuitySpec == ContinuityInit /\ [][ContinuityNext]_continuityVars

-----------------------------------------------------------------------------
(* However callbacks, failed writes and deaths are interleaved, the file   *)
(* only moves forward: its sequence is counted up by every save, and an    *)
(* answer that was saved is never followed by the question again.          *)
DurableMovesForward ==
    [][disk' # disk =>
        /\ disk # NoBundle /\ disk'.seq > disk.seq
        /\ disk'.pending # "none" => disk.pending # "none"]_continuityVars

(* What the app shows is what it can act on, though jobs, boots,           *)
(* redelivered services and other activities restore over its memory.  An  *)
(* approval panel on the screen has a question behind it, the chat's or    *)
(* the one of the bundle in memory, unless a panel that was up for the     *)
(* bundle was taken for the chat's before the chat had shown its own.  A   *)
(* question of the chat is never lost: the panel is up or to come, or an   *)
(* answer is on its way.  And a foreground service that stays up has       *)
(* active work.                                                            *)
SurfacesMatchMemory ==
    /\ panel /\ ~untimely =>
         \/ chatPending
         \/ bundle # NoBundle /\ bundle.state = "WaitingApproval" /\ bundle.pending = "linked"
    /\ chatPending => panel \/ shows > 0 \/ answers > 0
    /\ service = "running" => bundle # NoBundle /\ bundle.state = "ActiveExecution"
=============================================================================
