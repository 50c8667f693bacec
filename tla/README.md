# TLA+ verification of NTD97

NTD97 is a local-first assistant: a Rust runtime (crates/) behind an Android
application (platform/android/) that reasons with a native model, plans typed
actions, executes them through capability adapters under a human's approval, and
carries its state over process deaths in checkpoint files. This directory holds the
TLA+ specifications of the parts whose correctness depends on order, failure and
concurrency, the TLC configurations that check them on small instances, and the
TLAPS proofs of the properties that hold for every instance.

## 1. The system

| Component | State | Operations | What is hard, and what makes it correct |
|---|---|---|---|
| Action fabric (`ntd-runtime`: action_fabric.rs, capability.rs, action_checkpoint.rs) | the journal of plans (cursor, status, actions with attempts, output, resume and rollback token), id counters, adapters | register_adapter, prepare_plan, execute_next, rollback_plan, checkpoint, restore | every adapter and verifier outcome, partial rollback, restart between any two calls. The journal must pass its own validator; a rolled back plan must be undone; a finished plan stays finished |
| Chat session (`ntd-android-bridge`, assistant.rs, assistant_actions.rs, MainActivity, NtdSessionController, NtdConversationStore) | the conversation, the native session, a submit reservation, cancel flags, the NCS97 file | submit, next event, cancel, resolve approval, checkpoint, restore | every call takes the global mutex several times and works on snapshots in between; several activities, the UI thread, process death, a failing disk. An external write never runs without a fresh approval; turns commit once; Stop is not lost |
| Paired PC fabric (`ntd-pc-fabric`) | two ends of an encrypted session with sequence numbers, a cache of finished requests, artifact senders | handshake, exchange, execute, pull artifact | timeouts that leave a late reply in the stream, retries, reconnection. A result is accepted for its own request only; a request runs at most once per session |
| Cognitive runtime and memory (cognition.rs, memory.rs, checkpoint.rs) | goals, tasks, step budgets, memory records, world facts, deltas | start, advance, pause, complete, checkpoint | long call sequences that reach a state the validator rejects. A checkpoint gives the state back, and only a task completed from outside over its budget stops one from being made; goals follow their tasks; nothing but such a completion changes a finished task |
| Mobile continuity (`ntd-mobile-shell` continuity.rs; NtdContinuityStore, job service, foreground service, boot receiver) | the bundle of cognition, fabric, approvals and schedule, on disk and in memory | restore and verify, checkpoint, resolve approval | callbacks that restore over each other, failed saves, reboot, one approval panel for the bundle and the chat. The file moves forward only; what is shown can be acted on |
| Continuity scheduler, media, avatar (scheduler.rs, media.rs, avatar.rs) | none | decision tables, pose | none beyond a pure computation |
| Assistant planning and reasoning (assistant.rs, assistant_actions.rs, reasoning.rs, conversation.rs) | turns, active turn, plan and its evidence | begin, recall, reason, plan, approve, execute, answer, complete, cancel | several pieces of state that change together, in copies. History, tasks and memory agree; an answer rests on verified results; what was approved can run |
| Android adapters (in `ntd-android-bridge`) and platform services (NtdWebPlatform, NtdBrowserPlatform, NtdStorageGrantPlatform, ...) | files, staged downloads, browser session, grants | one adapter per capability | partial writes, staging, name collisions, callbacks of calls that were given up. Evidence is about the call it is given for; a credential stays with its origin; an undone task leaves no trace |
| Native generative runtime (generation.rs, executor.rs, gpt2.rs, tensor.rs, tokenizer.rs) | the generation under way, the key/value cache | generate_tokens with and without a callback, next, append, truncate_left, clear | a callback that cancels, EOS at a limit, an append that fails between key and value. The result is what was streamed, the window the latest tokens, key and value stay in step; the arithmetic itself is out of reach |
| Adaptive compute (mobile.rs) | device, policy, latest snapshot, table of measurements, backends | register, set_snapshot, set_autotune, execute, plan_placement | backends that fail, snapshots that change between calls, overflow of sizes, a table of measurements that the caller fills. Only what the table calls verified may differ from the reference, the CPU is the fallback, pages tile a tensor |
| Capability forge, assimilation (`ntd-assimilation`, NtdNativeModelStore) | versions and active version of every asset, shard files, the open model | vet, import, sandbox, pack, commit, roll back, open, resolve a tensor | batches that fail in the middle, files that change after they were verified. A receipt finds its package; only signed tensors are served |
| Capsule codecs (`ntd-capsule`, `ntd-ir`) | none | encode, decode | length and offset arithmetic |
| Portability (`ntd-portability`) | the object stores of two devices, backups | create, restore | backups damaged on their way. A restoration is whole or nothing |
| Paired PC profiles (lib.rs, NtdPairedPcSettingsActivity) | one file per peer | provision, describe, list, revoke, load | partial writes, rollback, death, plans that may write the same directory. A pairing stays until it is revoked |
| Validation gate (`ntd-validation`) | none | score evidence | none beyond a pure computation |

The chat session drives the action fabric: a plan is prepared and executed on a copy of
the conversation outside the lock and its TAF97 checkpoint is carried inside the NCS97
file. The fabric calls the adapters; the paired PC fabric is one of them. The
continuity bundle holds its own cognition and fabric and is saved separately.

`PROJECT.json` lists every component, and every hazard with the line where it bites
and the properties that watch it.

## 2. Modules

### ActionFabric

One step is one call of a method, since each takes `&mut self`. `plans` is
`ActionFabricState.plans` (a plan's id is its position, so `next_plan_id` is derived),
`adapters` the registered adapters, `saved` the last TAF97 checkpoint, `result` what
the last call returned. `reported` is a history variable: the side effects adapters
reported (`AdapterResult::Completed` of an action that is not ReadOnly) and that no
successful `rollback` took back; a rollback token is the number of the attempt whose
effect it undoes. Outputs, payloads and error texts are abstracted to presence.
`execute_next` is split by what the adapter and the verifier answer; each disjunct is
the whole call, the marking as Running and the counting of the attempt included.
`rollback_plan` is the loop that succeeds, `rollback_plan_breaks_off(p, k)` the loop
that returns with an error at action k. `validate_fabric_state` is the validator every
encode and decode runs.

### ChatSession

A step is one critical section of the bridge's `Mutex<NativeState>` with the thread's
local work up to the next one, one call of an adapter, or one file operation.
`worker[w]` is the single-threaded chat executor of activity w: where it is (`pc`),
the request it streams, and the snapshots it carries between critical sections
(`base`, `copy`). `ui` is the UI thread (Stop, onPause, onDestroy). `front` is the
activity on screen, `interrupted` the executors shut down by onDestroy. `disk` is the
NCS97 file. `licence` is a history variable: the approvals a task was given in this
process less the fresh calls of its external write.

Abstractions: a conversation is its tasks, its committed turns and its active turn; a
plan is `direct`, `local` (needs no approval) or `external` (one ExternalWrite); the
fabric inside it is the state of the action under the cursor (`Suspended` stands for
every state with a resume token). The chat model stays loaded; a generator or tokenizer that
fails ends the session as Failed. The only error of cancel_turn, an overflow of 64-bit ticks,
is left out. The next activity is
created when the previous one was destroyed, as on a configuration change. What an
activity shows is left out.

### PcFabric

A step of the phone is what `PairedPcAdapter` does up to the next read of the stream:
`connect` (connect_paired_tcp and the query of discover_capabilities), `execute`,
`receive` (SecureSession::open and what the waiting call does with the message, up to
the next frame it sends) and `timeout`. A step of an agent is one
`handle_encrypted_frame`, split by the kind of frame and by what the handler answers;
`refuse` is every path that returns an error and sends nothing. `phone` and `agent[s]`
hold the fields of the two ends, `toPc[s]` and `toPhone[s]` the bytes under way on
connection s. `executed` and `clean` are history variables: how often a handler of
session s completed a request, and the sessions in which nothing was late, lost or
refused.

Abstractions: digests are collision-free, so a request digest is the request and the
hash of an artifact the request that produced it; ciphertexts cannot be made up. The
loop that serves a connection is not in the repository (the test of connector.rs has
one): it handles the frames in order and may fail to write a reply. A read that times
out in the middle of a frame loses the frame. The capability the agent advertises is
the one the phone wants. A handler that fails is not counted in `executed`, even if it
had a part of its effect; a transfer id used up by an artifact that could not be stored
is not skipped, since nobody ever hears of it. Sequence numbers and transfer ids do not
reach 2^64.

### Cognition, CognitiveHost, Conversation, Dialogue

`Cognition` has no variables: a cognitive state is a record and every method of
cognition.rs, memory.rs and checkpoint.rs is an operator from a state to the next, the
SIK97 validator, encoder and decoder included (a checkpoint is what the bytes say, field
by field, so that a swapped field shows). `CognitiveHost` runs one such state: the host
adds goals and tasks, and `advance` is one step per iteration, because it calls the
host's planner, executor and verifier in between. It may also start, pause and complete a
task itself (start_external_task and the two after it); the completion asks neither for the
status of the task nor for its budget. `Conversation` is
`SovereignConversationState` on top of it, driven as the bridge does: a submitted message
is worked on in a copy (`draft`) through recall, prompt, reasoning cycle and action
planning, and the copy replaces `conv` when all of it succeeded; then every event runs
pending actions, or generates a token, or commits the turn. ChatSession has the threads
and the file around the same calls and abstracts what is inside; Conversation has one
call after the other and what is inside. `Dialogue` is what a user is promised: a history
that only grows, every exchange the answer to the one question that was open. Conversation
implements it (`ImplementsDialogue`: `history` is every second turn, `open` the message of
the active turn). Recall is any subset the ranking may return; texts and ticks are left out.

### ActionPlanning

From a message to governed actions: the planners (a command the message spells out, the
device's own summary, lines a model wrote), the grammar of `parse_action_line` as the set
of lines it takes, descriptors and side effects, the approval card, the authority of a
plan, what each adapter accepts and to which action it binds the platform's answer, and
the verifier. A line is a record, never a text. A platform may answer with any receipt,
those of other actions included. The verifier compares what the code compares: the URL of an
upload, the length and digest of a granted write, the rest being the adapter's own word. So
`WritesWereShown` says no more than that of these two.

### Browser, WebSearch, Artifacts

`Browser` is the WebView session: callers post closures to the main thread and wait with a
timeout that cancels nothing. `calls` has the captured state of every call (its pinned
origin, what its callbacks wait for), `posted` the main thread's queue, `view` the page,
the load under way and whose client is installed; `prefs` is the location a later session
resumes, and `pinnedBy` the call that left it (history). What pages and engine do is a choice.
`WebSearch` is the profile with its credential, the one network thread (`jobs`), redirects,
OpenSearch discovery and the normalization of results; `sent` is the last request, with
the origin its credential belongs to. `Artifacts` is the file adapters: app-private
writes by rename, downloads staged and then committed, uploads hashed and then PUT, writes
into a granted tree, their rollback, and a death that keeps the files and sets the journal
back to the file. A suspended action is resumed once its checkpoint returned true
(`checkpointed`), or although it did not, where the code ignores the result
(`stream_again`); onPause encodes the journal and writes it later, maybe over a newer one.
`outdated` remembers that one of the two happened and `UploadIdempotent` is stated for
behaviours without it: with it, a death brings back an action whose PUT is forgotten, and a
source that changed meanwhile is put under the same action. An encoding that lands after the
next task was prepared is not followed. `before`, `puts`, `repeated` and `outdated` are
history variables.

### Continuity

`disk` is the MCS97 file, `bundle` its copy in the native state. Every callback (activity,
persisted job, foreground service, boot receiver) runs on the main thread and is one step;
the write in it may fail, and a death may follow. The first file is any valid bundle, as
the shell never builds one from nothing. The approval panel belongs to two: the activity
shows it for the bundle, and the chat executor posts a callback (`shows`) that shows it for an
action of the chat. A tap is the chat's as soon as pendingChatApprovalRequestId is set
(`chatPending`), and its answer (`answers`) is taken by the executor later. `untimely` is a
history variable: the tap came before the callback, on the panel of the bundle. After that
the panel may stay up with nothing behind it, and `SurfacesMatchMemory` says so.

### PcPairing

Provisioning is four steps (check, create, write, reload), between which the chat thread
may load the profile or the process may die; describe, list, revoke and the connection are
one step each. The directory of the profiles lies under the root of file.write and
artifact.download, which exclude no path in it: `write_atomic_or_rollback_write` is a plan
that replaces, removes or puts back a profile file at any moment. A seed stands for the whole
body of a profile; `paired` is what the user was told and has not revoked, `overwritten` the
aliases whose file a plan changed since the last receipt. `PairedUntilRevoked` excepts those.

### Assimilation, Portability

`Assimilation` is the forge's gates (a flawed source names the gate it fails at), the
packages, the store with its two ways to commit and roll back, the shard files named by
their hashes, and the bundled model: copied out, verified, opened and read tensor by
tensor while files may change. `Portability` is the encrypted object stores of two devices
with the same key, backups of three kinds, their damage on the way and their restoration.
Ciphers and digests are perfect: what was tampered with does not open.

### Compute, Generation

`Compute` is `AdaptiveExecutionProvider`: `providers` in the order of their registration,
`snapshot` as `normalized` left it, the `autotune` table, and `outcome`, what the last
execute or plan_placement returned. Of a tensor only whether it is the CPU reference's is
kept, of a backend the operations and inputs it computes exactly (which of the registered
ones fail is a choice at every call); the size of a tensor overflows at U64_MAX.
verify_provider_equivalence compares on one input, and the caller installs whatever table it
likes, with the answers of such comparisons or with bits of its own. `Generation` is the loop
of `GraphGenerator`, one step per token (`gen` is the call under way, with the tokens, the window the graph saw
and what the callback got), and `KvCache` (`kv`). An execution of the graph yields any of a
set of outputs or fails; seeded sampling may pick any token of positive weight. Tokens reach
the graph as f32, which is exact for ids below 2^24.

## 3. Runs

| Run | Instance | Checks |
|---|---|---|
| fabric | plans of two reversible writes, of an external and a reversible write, of a read, and a malformed one; ids up to 3, two attempts each | TypeOK, JournalRestorable, RolledBackIsUndone, CompletedHasEvidence, UndoInReverse, FinishedStaysFinished |
| death | every kind of plan, 2 tasks, 2 tokens, a process death | SessionMatchesTurn, SessionIsServed, StopIsNotLost |
| recreate | an external write, an activity recreated while the old executor runs | NoAutomaticReplay, TurnsCommittedOnce |
| disk | two deaths, a disk that may fail | NoAutomaticReplay |
| live | fair threads, local and external plans | ReservationReleased, CancelStops |
| components | one instance of each other component, see below | 26 properties, see below |
| adapter_errors, known_effects, durable, erased, replay, submit | see Findings | one property each, violated |

`MCComponents` extends all the modules that share no variables. Its variable `focus`,
chosen once, names the component that moves while the others rest, so the reachable states
are the sum of the components' states and never their product.

| Component | Instance | Checks |
|---|---|---|
| CognitiveHost | 1 goal, 2 tasks, budget of 2 steps, 2 memories, 1 revision of a fact | CognitionRestorable, GoalReflectsTask, FinishedTaskStays |
| Conversation | 2 messages, plans of 2 actions, 2 tokens, history of 2 turns, 2 tasks | Checkpointable, TurnsMatchTasks, AnswerIsGrounded, ImplementsDialogue |
| Browser | 2 pages of different origins, 2 calls, 1 navigation by the page | EvidenceOrigin, BrowserFreed |
| WebSearch | 2 hosts, 1 credential, pages of up to 3 results, limit 2, 2 redirects | CredentialStaysHome, ResultsExact |
| Artifacts | 1 path, 2 contents, four plans, 2 tasks, 1 death | UploadIdempotent, UndoneLeavesNoTrace |
| ActionPlanning | plans of up to 2 lines, every form of line, 2 payloads, 2 peers | ApprovedPlanRuns, WritesWereShown |
| Continuity | sequence numbers up to 5, any first file | DurableMovesForward, SurfacesMatchMemory |
| PcFabric | one connection, 6 frames, an artifact of 2 chunks, four requests on two ids | ResultForItsRequest, AtMostOncePerSession, CleanSessionInStep |
| PcPairing | 2 aliases, 2 provisionings, plan files with any of their seeds and one from elsewhere | PairedUntilRevoked |
| Assimilation | 1 asset, 1 content, 2 versions, batches of 1 and 2 | ReceiptFindsItsPackage, OpenModelServesSigned |
| Portability | 2 capsules, 2 backups | RestoresAllOrNothing |
| Compute | 1 operation, 2 inputs, 2 registered backends, accelerators exact on one input and on none, tensors of up to 5 elements, overflow at 9 | ComputeIsSound |
| Generation | vocabulary of 2, context limits 0 and 2, up to 3 new tokens, 2 layers, 2 appends | GenerationIsSound |

Bounds. Two attempts per action are enough for a retry to overwrite what the first
attempt left; two actions for an order of undo; ids up to the limit for the refusal at
overflow. Two chat tasks are enough for a request to meet the state another left
behind, one death for a restore at every point, two for a restore of a restored file.
Two workers suffice for recreation because the executor of the one activity before the
current one is all that can still run. Two browser calls are one that is given up and one
that meets its late callbacks; two file tasks one that leaves a staging file and one that
finds it; two plan lines one receipt and another it could be taken for; two tasks under one
goal the case in which they end differently; a history of two turns is full after one
exchange. Two backups are enough for the objects of one to be put into the other. Six
frames let the phone meet a late reply after a timeout, repeat a request and pull an
artifact in between; a second connection is what replay is about.

Tensors of 0, 2, 8 and 10 bytes with pages of 3 are an empty one, one that fits, one whose
last page is short and one that overflows; two backends are one that fails and one behind it. Three new tokens
on a context of two are a window that slides.

`CHECK_DEADLOCK FALSE` is stated where a bound may bring the system to rest: in recreate
and disk with recreations, deaths and tasks used up (also with a session nobody serves,
see the hazards), in components, submit and replay when calls, frames or backups are used up.

Fairness. live: each executor and the UI thread keep running (WF per thread), as
scheduled threads do; the user, the system and the disk owe nothing. Nothing in the two
properties depends on an adapter's answer: an action may answer Suspended or Retryable
forever. Browser: a caller waits at most OPERATION_TIMEOUT_SECONDS on its latch, so it
returns (WF of its return and its timeout together); the main thread, the engine and the
page owe nothing. No other component has a liveness property: they are called, and do
nothing by themselves.

### Findings

* `adapter_errors` (AdapterErrorsBecomeRetryable): a rejected output whose rollback fails leaves the action Running,
  although docs/TOOL_INTERNET_DEVICE_ACTION_FABRIC.md says adapter errors become
  Retryable.
* `known_effects` (AllKnownEffectsRolledBack): after a verifier retry the token of the second effect replaces that
  of the first; rollback_plan then reports all known side effects rolled back.
* `durable` (DurableBeforeWrite): an approved write may be called while the file does not hold its prepared
  plan: a stale save of onPause may be written after the approval's.
* `erased` (CommittedTurnsKept): saves are ordered by their writes, not by their encodings (the lock is per
  store object), so a committed turn may disappear from the file.
* `replay` (NotReplayed): the cache of completed requests lives in a DesktopAgent, which belongs to one
  session, and the phone connects anew whenever it executes a plan: a request whose reply
  was lost is carried out again by the retry, although docs/PAIRED_PC_FABRIC.md says a
  retry or cold continuation does not replay a committed remote side effect.

* `submit` (SubmitOnlyAfterForm): a timeout of the browser cancels nothing, and a submit installs its client before
  its script runs: the finish event of a load that an earlier call gave up completes the
  submit, with a receipt, though the form was not looked for yet. docs/ROADMAP.md says a
  submit requires an exact FORM selector and is accepted only after same-origin completion.

More observations that no run states. A rollback_plan that breaks off leaves its
plan Ready, and execute_next may carry on behind an undone action. A failed approval is shown as
"confirmation still required" although a Stop may have cancelled the request.

Once the history has MAX_TURNS messages no turn can be committed. The decision of an approval
of the continuity bundle is asked again when its save failed, since the activity ignores the
result of the save. An unreadable continuity file ends the persisted job without a new
schedule. A revocation whose directory sync fails has removed the profile while the screen
keeps its receipt. A damaged shard is refused for ever and never replaced. A write that a
death repeats takes its second snapshot from its own first effect, so that undoing it does
not bring the former content back (UndoneLeavesNoTrace excepts this case). The avatar looks
at the status of a plan first, and a pending approval always has one, so the pose of
WaitingApproval is never shown.

docs/ADAPTIVE_MOBILE_COMPUTE_RUNTIME.md:100 says that all adaptive outputs must equal the CPU
reference output. The code makes this depend on the table of measurements: it is kept per kind
of backend, so a second backend of a kind is licensed by the comparison of the first; a
comparison is on one set of inputs; and set_autotune takes the bits of its caller.
OutputIsReference says when an output may drift, and that it never does under the Hot state.
complete_external_task may be called for a task that is finished or at its budget: its status
and steps change, and with more steps than the budget the state cannot be encoded again. A
plan may write over a pairing, which is then replaced without revocation. A tap on the
approval panel of the bundle is taken for the chat's answer when the chat's question came in
but was not yet shown. An upload is repeated with other bytes after a death if the checkpoint
before its PUT was passed over or replaced by an older one.

## 4. Proofs

Every invariant, action property and refinement that a passing run checks is also a
theorem, for every value of the constants that satisfies the module's assumption. The
assumptions say what kind of thing a constant is (a bound is a natural number, a plan a
sequence of known operations), and where the code has it more: a descriptor that is
Irreversible supports no rollback (`DescriptorAssumption`, from
CapabilityDescriptor::normalize), None is no request, result or session (`PcAssumption`,
`NoneAssumption`), the executors of a process are finitely many (`ChatAssumption`). TLC
evaluates each of them in the runs.

Each theorem has the same shape: an inductive invariant, a lemma per action or per kind of
step that it is preserved, and a last step that combines them. Below is what each invariant
adds to the property, and why the property does not stand alone.

### ActionFabricProofs

* `TypeCorrect`, `Restorable`, `UndoneEffects`, `Evidence`: Spec => [] TypeOK,
  JournalRestorable, RolledBackIsUndone, CompletedHasEvidence
* `UndoGoesBackwards`, `FinishedIsFinal`: Spec => UndoInReverse, FinishedStaysFinished

All follow from `Invariance`, the inductive invariant. JournalRestorable alone is not
inductive: that the journal stays valid after an outcome needs to know that the action
after the cursor is the only one in flight, that a torn plan stays torn, and that the
saved checkpoint (which a restart makes the journal) satisfies all of it too.
RolledBackIsUndone needs, for every effect that was reported and accepted, that its
action is still Committed and holds the token of that very attempt or none, in the
journal and in the checkpoint; ids that name one action each tie effect and action
together. The two action properties rest on what one call may do to a plan: execute_next
changes one unfinished plan at its cursor, and a rollback undoes from the back.

### PcFabricProofs

* `TypeCorrect`, `OncePerSession`, `OwnResult`, `CleanInStep`: Spec => [] TypeOK,
  AtMostOncePerSession, ResultForItsRequest, CleanSessionInStep

The invariant ties three copies of a result together. `CacheInv`: what a handler carried
out is cached under its id, for the very request, and every cached Completed result was
carried out once. `ReplyInv`: so was every Completed result under way to the phone, the
late ones included, because an agent sends only what it just computed or has cached, and
nothing in a session is ever un-executed. `PhoneInv`: the request, the hash and the chunks
of the pull in progress are those of one truthful result. OncePerSession needs the first,
OwnResult all three: the phone has no other way to know that a frame it reads is honest.
CleanInStep adds what is under way: at most one frame, whose number is the one the reader
expects and which is the question the phone waits on or the answer to it (`Synced`); that
an artifact a cached result offers is still held (`Stored`); and that a session not yet
opened is untouched (`Unused`).

### ChatSessionProofs

* `TypeCorrect`, `TurnsOnce`, `NoReplay`, `StopIsSeen`: Spec => [] TypeOK,
  TurnsCommittedOnce, NoAutomaticReplay, StopIsNotLost, for any number of activities,
  recreations and deaths and with a disk that may fail
* `SessionAgrees`: Spec => []SessionMatchesTurn, without recreations
* `SessionHandled`: Spec => []SessionIsServed, without recreations and with a disk that
  does not fail

`Base` says that the conversation, the file and every snapshot an executor carries is
`Good`: each committed turn is that of a completed task, once. So a snapshot that
overwrites the conversation cannot bring a turn twice, which is TurnsOnce. NoReplay is an
account (`Licensed`): the approvals a task has left are at least the executors that are
about to call its adapter with them, plus one if the conversation still holds an approval
that no executor has taken. Every call and every snapshot moves an approval from one place
to the other, and a restored file holds none. StopIsSeen is the flag protocol between the
button, which sets its flag and then reads the request, and the executor, which publishes
its request and then reads the flag: the invariant is about the windows in which one of
them still has to look (`Seen`, `Aimed`), and about which request the button aims at.

The last two theorems have a hypothesis because the properties are false without it: TLC
finds a session and a turn that disagree when an old executor outlives its activity, and a
session that nobody serves when the save after a checkpointed action fails (the hazard at
MainActivity.java:337). `Solid` is the only executor's hold on the session: from the commit
of a submit to the end of the stream its request is the session's, and a cancellation by
the UI thread is never about the task of a later request. `Taken` says in whose hands an
active session is: the executor that puts a flagged request down leaves it to the UI thread
that has still to cancel it.

### CognitionProofs

* `RestorableCognition`, `GoalsReflectTasks`, `FinishedTasksStay`: CognitionSpec =>
  []CognitionRestorable, []GoalReflectsTask, FinishedTaskStays
* `CheckpointsRestore`, `TurnsAreTasks`, `AnswersAreGrounded`: ConversationSpec =>
  [] Checkpointable, TurnsMatchTasks, AnswerIsGrounded
* `DialogueImplemented`: ConversationSpec => ImplementsDialogue

The operators of Cognition have a lemma each: what the call does to the tasks, the goals,
the memories and the facts, and that the result passes the SIK97 validator. That a
checkpoint comes back unchanged is a lemma about the codec: records are written in the order
of their ids, and an order of a finite set determines it. These lemmas are about any set of
statuses in which a task may be over its budget: `Completed` for a host, which completes tasks
from outside, none for a conversation, which never does. `HostInv` adds that the task of an
advance under way is not finished. `ConvInv` is about the conversation, the turn and the
copy a submit works on: a turn's plan, its facts in the world model and the status of its
session change in different calls, and the invariant says which combinations exist
(a session that runs waits for no approval; a draft has no plan before it is planned).
DialogueImplemented maps every step to one of Dialogue or to none (`Moves`).

### AdapterProofs

* `CredentialAtHome`, `ResultsAreExact`: WebSpec => [] CredentialStaysHome, ResultsExact
* `EvidenceHasOrigin`: BrowserSpec => []EvidenceOrigin
* `UploadsAreIdempotent`, `UndoneIsTraceless`: ArtifactsSpec => [] UploadIdempotent,
  UndoneLeavesNoTrace
* `ApprovedRuns`, `WritesShown`: PlanSpec => [] ApprovedPlanRuns, WritesWereShown

A job with a credential is at the origin it is pinned to, which is that of the profile it
began with, whatever the profile is now (`AtHome`). ResultsAreExact is the loop invariant
of the two loops over a page (`TakenSoFar`): what was taken is the first distinct public
entries in order, and below the limit every public URL seen so far is among them. A browser
call pins its origin before any callback of its own can report, and closures that still wait
are of calls that have reported nothing (`Pinned`). UploadsAreIdempotent needs that, while no
checkpoint is out of date, journal and file have the digest of what was PUT, and that a
checkpoint which let the loop go on has the upload it waits for (`UploadsKnown`). UndoneIsTraceless needs that the
saved journal is an earlier form of the one in memory (`Later`), that a plan is worked on in
order, and, as long as no write runs twice, whose snapshot is that of the beginning
(`Snapshot`). The planning theorems are about agreement: of grammar, descriptors, side
effects and authority (`Authorized`), of card and plan (`Covered`), of receipt and action.

### StoreProofs

* `SurfacesAreServed`, `FileMovesForward`: ContinuitySpec => []SurfacesMatchMemory,
  DurableMovesForward
* `PairingStays`: PairingSpec => []PairedUntilRevoked
* `ReceiptsMatchPackages`, `ModelServesSigned`: AssimilationSpec =>
  [] ReceiptFindsItsPackage, OpenModelServesSigned
* `RestoreIsWhole`: PortabilitySpec => RestoresAllOrNothing

Memory is the continuity file counted on, or the answer to the question the file still
asks (`Follows`). As long as the chat is answered in time, the panel, the callback that shows
it and an answer under way exclude each other (`ChatInv`), so an answered question leaves no
panel behind. A provisioning under way writes only a file the user was not told of, or one
that a plan has changed since (`CallIsFree`). A
package is accepted under a version of its own, in every prefix of a batch. No damage
changes what a sealed manifest lists, and the new device holds only objects that open.

### RuntimeProofs

* `GenerationSound`: GenerationSpec => []GenerationIsSound
* `ComputeSound`: ComputeSpec => []ComputeIsSound

A running generation has stored no EOS and fewer tokens than its limit; a layer of the cache
has both tensors or none. A verified entry of the table has a latency (`Licenses`), so
that backends can be ordered; an accelerator that is chosen was allowed by the table and the
snapshot in force, which the outcome is compared with; the backend tried first is the least in the order of preference, so that the
CPU is reached when those before it fail; the recursive function that cuts a tensor into
pages tiles what is left of it.

### Induction

The library's induction theorems have an operator as a parameter, which the provers cannot
instantiate. `LeastNatural` takes a set instead: a non-empty set of naturals has a least
element. The loops over a page of results and over the pages of a tensor are therefore
proved by refuting the least counterexample, and the recursive functions that model them
are shown to exist in the same way.

### Only model-checked

The liveness properties ReservationReleased, CancelStops and BrowserFreed: liveness under
fairness is out of the prover's reach. The six expected violations are counterexamples on
their instances and need no proof.

## 5. Not modelled

* Kernels, tensors, tokenizers, GGUF reading, lowering and transcoding: numbers and bytes,
  out of reach of TLC. What a graph computes is a choice of the model checker.
* Capsule, checkpoint and wire codecs at the level of bytes. Where a decoder validates
  (SIK97, TAF97, NCS97, MCS97) the validation is in the model.
* The wake policy of the scheduler, media admission, the avatar and the
  validation gate: pure functions of one state, without an order of calls to get wrong.
* Device, app, audio, overlay, notification and accessibility services: calls of the
  Android framework; the adapters in front of them are in ActionPlanning by what they accept
  and bind.

## 6. Plan

What is left, in the order of what it would say about the system:

* the weaker promises that hold where a run finds a violation, each as an invariant and a
  theorem: which effects a rollback does take back when a verifier asked for a retry, which
  saves keep a committed turn, within which window an approved write is durable;
* what holds of a session when its activity is recreated or the disk fails, in the place of
  SessionMatchesTurn and SessionIsServed;
* partial effects of the desktop agent's handlers, the one hazard without a property that
  needs more model;
* the decision table of the scheduler and the offset arithmetic of the capsule codecs, which
  have a reference definition to be compared with.
