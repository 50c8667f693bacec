----------------------------- MODULE Artifacts ------------------------------
(***************************************************************************)
(* The file adapters of lib.rs (ntd-android-bridge) and the storage and    *)
(* network platforms behind them: app-private files written by rename,     *)
(* downloads staged first and committed after a checkpoint, uploads hashed *)
(* first and PUT after a checkpoint, and writes into a tree the user       *)
(* granted.  Their effects are files, which a process death keeps, while   *)
(* the journal that knows about them goes back to its last save.           *)
(*                                                                         *)
(* A plan is worked on action by action, as ActionFabric has it; of its    *)
(* journal only what the adapters see is here.  Action ids start at 1 in   *)
(* every task, so the staging files of two tasks share their names.        *)
(***************************************************************************)
EXTENDS Integers, Sequences

CONSTANTS
    Paths,        \* app-private paths
    Contents,     \* contents of files
    FilePlans,    \* the plans of a task: sequences of [op, path, content]
    MaxFileTasks, \* bound on the tasks
    MaxFileDeaths \* bound on the process deaths

ASSUME ArtifactsAssumption ==
    /\ MaxFileTasks \in Nat /\ MaxFileDeaths \in Nat
    /\ Contents # {}
    /\ FilePlans \subseteq
          Seq([op : {"write", "download", "upload", "grant_write"},
               path : Paths, content : Contents])

VARIABLES
    files,      \* the content of every path, {} when there is no file
    staging,    \* .ntd97-download/<action id>.part, {} when there is none
    journal,    \* the actions of the task at work
    saved,      \* the journal in the conversation's file
    encoded,    \* {} or {the journal onPause encoded and has yet to write}
    checkpointed, \* whether the loop may go on after a suspension
    outdated,   \* history: whether a checkpoint of this task was passed over
    before,     \* the files when the task began
    puts,       \* what each action has put on a server: pairs [id, content]
    repeated,   \* whether an action of this task ran a second time
    tree,       \* the file in the tree the user granted, {} when it is empty
    granted,    \* whether the tree permission is there and persisted
    fileTasks, fileDeaths

artifactVars == <<files, staging, journal, saved, encoded, checkpointed, outdated,
                  before, puts, repeated,
                  tree, granted, fileTasks, fileDeaths>>

ArtifactsInit ==
    /\ files \in [Paths -> {{}} \cup {{CHOOSE c \in Contents : TRUE}}]
    /\ staging = [i \in UNION {DOMAIN p : p \in FilePlans} |-> {}]
    /\ journal = <<>> /\ saved = <<>> /\ encoded = {}
    /\ checkpointed = TRUE /\ outdated = FALSE
    /\ before = files
    /\ puts = {}
    /\ repeated = FALSE
    /\ tree = {} /\ granted = TRUE
    /\ fileTasks = 0 /\ fileDeaths = 0

Fixed(vs) == UNCHANGED <<before, fileTasks, fileDeaths>> /\ UNCHANGED vs

savedVars == <<saved, encoded, checkpointed, outdated>>

-----------------------------------------------------------------------------
(* The plan: prepared and saved, and cancelled or replaced at any time.    *)

Prepared(step) ==
    [op |-> step.op, path |-> step.path, content |-> step.content,
     status |-> "prepared", digest |-> {}, rollback |-> {}, ran |-> FALSE]

(* An encoding of the task before that lands on the file after this is not *)
(* followed here: a death would then bring that task back instead.         *)
prepare_file_plan ==
    /\ fileTasks < MaxFileTasks
    /\ \E p \in FilePlans : journal' = [n \in DOMAIN p |-> Prepared(p[n])]
    /\ saved' = journal' /\ encoded' = {}
    /\ checkpointed' = TRUE /\ outdated' = FALSE
    /\ before' = files
    /\ puts' = {} /\ repeated' = FALSE
    /\ fileTasks' = fileTasks + 1
    /\ UNCHANGED <<files, staging, tree, granted, fileDeaths>>

Cursor == {n \in DOMAIN journal :
             /\ journal[n].status \notin {"done", "undone"}
             /\ \A m \in 1 .. n - 1 : journal[m].status = "done"}

At(n, op, status) == n \in Cursor /\ journal[n].op = op /\ journal[n].status = status

(* A step that touches files more than once may have run before a death.   *)
Ran(n, entry) ==
    /\ journal' = [journal EXCEPT ![n] = [entry EXCEPT !.ran = TRUE]]
    /\ repeated' = (repeated \/ journal[n].ran)

Put(f, path, content) == [f EXCEPT ![path] = content]

(* streamChat: the checkpoint that follows a step.  After a suspension the *)
(* loop goes on only if the save returned true.                            *)
save_journal ==
    /\ saved # journal \/ ~checkpointed
    /\ saved' = journal
    /\ checkpointed' = TRUE
    /\ Fixed(<<files, staging, journal, encoded, outdated, puts, repeated, tree, granted>>)

(* The save failed.  Its result is ignored where the suspension follows an *)
(* approval; elsewhere the loop ends, and the one of a recreated activity  *)
(* goes on with the native session as it is.                               *)
stream_again ==
    /\ ~checkpointed
    /\ checkpointed' = TRUE
    /\ outdated' = TRUE
    /\ Fixed(<<files, staging, journal, saved, encoded, puts, repeated, tree, granted>>)

(* onPause encodes on the main thread, and writes with a lock of its own:  *)
(* the loop may get further, and save, in between.                         *)
onPause_encodes ==
    /\ journal # <<>> /\ encoded = {}
    /\ encoded' = {journal}
    /\ Fixed(<<files, staging, journal, saved, checkpointed, outdated, puts, repeated,
               tree, granted>>)

onPause_writes ==
    \E older \in encoded :
        /\ saved' = older
        /\ encoded' = {}
        /\ outdated' = (outdated \/ \E n \in DOMAIN saved :
                            saved[n].status # "prepared" /\ older[n].status = "prepared")
        /\ Fixed(<<files, staging, journal, checkpointed, puts, repeated, tree, granted>>)

-----------------------------------------------------------------------------
(* Adapters.                                                               *)

(* write_atomic: snapshot, temporary file, rename.                         *)
write_atomic ==
    \E n \in DOMAIN journal :
        /\ At(n, "write", "prepared")
        /\ files' = Put(files, journal[n].path, {journal[n].content})
        /\ Ran(n, [journal[n] EXCEPT !.status = "done",
                                     !.rollback = files[journal[n].path]])
        /\ Fixed(<<staging, savedVars, puts, tree, granted>>)

(* AndroidArtifactDownloadAdapter::execute: fetch, snapshot, stage.        *)
write_staging ==
    \E n \in DOMAIN journal, c \in Contents :
        /\ At(n, "download", "prepared")
        /\ staging' = [staging EXCEPT ![n] = {c}]
        /\ journal' = [journal EXCEPT ![n].status = "suspended", ![n].digest = {c},
                            ![n].rollback = files[journal[n].path]]
        /\ checkpointed' = FALSE
        /\ Fixed(<<files, saved, encoded, outdated, puts, repeated, tree, granted>>)

(* resume: the staged file, if it is the one that was fetched, is renamed. *)
(* Otherwise the action stays as it is, retryable with its token.          *)
commit_staging ==
    \E n \in DOMAIN journal :
        /\ At(n, "download", "suspended") /\ checkpointed
        /\ staging[n] # {} /\ staging[n] = journal[n].digest
        /\ files' = Put(files, journal[n].path, staging[n])
        /\ staging' = [staging EXCEPT ![n] = {}]
        /\ Ran(n, [journal[n] EXCEPT !.status = "done"])
        /\ Fixed(<<savedVars, puts, tree, granted>>)

(* AndroidArtifactUploadAdapter: hash the source, and after the checkpoint *)
(* hash it again, refuse a change, and PUT.  A PUT that reports a failure  *)
(* may have arrived, as one does whose caller gave up waiting.             *)
source_bytes ==
    \E n \in DOMAIN journal :
        /\ At(n, "upload", "prepared")
        /\ files[journal[n].path] # {}
        /\ journal' = [journal EXCEPT ![n].status = "suspended",
                                      ![n].digest = files[journal[n].path]]
        /\ checkpointed' = FALSE
        /\ Fixed(<<files, staging, saved, encoded, outdated, puts, repeated, tree, granted>>)

(* Mutant: the source is not hashed again.                                 *)
https_put_unchecked ==
    \E n \in DOMAIN journal, answered \in BOOLEAN :
        /\ At(n, "upload", "suspended") /\ checkpointed
        /\ files[journal[n].path] # {}
        /\ puts' = puts \cup {<<n, files[journal[n].path]>>}
        /\ journal' = IF answered THEN [journal EXCEPT ![n].status = "done"]
                                  ELSE journal
        /\ Fixed(<<files, staging, savedVars, repeated, tree, granted>>)

https_put ==
    \E n \in DOMAIN journal, answered \in BOOLEAN :
        /\ At(n, "upload", "suspended") /\ checkpointed
        /\ files[journal[n].path] = journal[n].digest
        /\ puts' = puts \cup {<<n, journal[n].digest>>}
        /\ journal' = IF answered THEN [journal EXCEPT ![n].status = "done"]
                                  ELSE journal
        /\ Fixed(<<files, staging, savedVars, repeated, tree, granted>>)

(* NtdStorageGrantPlatform.write: the file is truncated, written and read  *)
(* back.  A failure may leave it at any of these stages, and nothing can   *)
(* roll it back.                                                           *)
granted_write ==
    \E n \in DOMAIN journal, readBack \in BOOLEAN :
        /\ At(n, "grant_write", "prepared")
        /\ granted
        /\ tree' \in IF readBack THEN {{journal[n].content}} ELSE {tree, {}, {journal[n].content}}
        /\ IF readBack THEN Ran(n, [journal[n] EXCEPT !.status = "done"])
                       ELSE UNCHANGED <<journal, repeated>>
        /\ Fixed(<<files, staging, savedVars, puts, granted>>)

(* The user picks a tree, or the permission is withdrawn.                  *)
grant_changes ==
    /\ granted' = ~granted
    /\ Fixed(<<files, staging, journal, savedVars, puts, repeated, tree>>)

(* Mutant: a file that was not there before stays.                         *)
rollback_write_keeps_new ==
    \E n \in DOMAIN journal :
        /\ journal[n].status = "done" /\ journal[n].op \in {"write", "download"}
        /\ \A m \in n + 1 .. Len(journal) : journal[m].status \in {"prepared", "undone"}
        /\ files' = IF journal[n].rollback = {} THEN files
                    ELSE Put(files, journal[n].path, journal[n].rollback)
        /\ journal' = [journal EXCEPT ![n].status = "undone"]
        /\ Fixed(<<staging, savedVars, puts, repeated, tree, granted>>)

(* rollback_write: the snapshot is written back, or the file removed.      *)
rollback_write ==
    \E n \in DOMAIN journal :
        /\ journal[n].status = "done" /\ journal[n].op \in {"write", "download"}
        /\ \A m \in n + 1 .. Len(journal) : journal[m].status \in {"prepared", "undone"}
        /\ files' = Put(files, journal[n].path, journal[n].rollback)
        /\ journal' = [journal EXCEPT ![n].status = "undone"]
        /\ Fixed(<<staging, savedVars, puts, repeated, tree, granted>>)

(* The process dies: the files stay, the journal is the saved one, and     *)
(* what ran since the save runs again.                                     *)
file_process_death ==
    /\ fileDeaths < MaxFileDeaths
    /\ fileDeaths' = fileDeaths + 1
    /\ journal' = [n \in DOMAIN saved |->
                    [saved[n] EXCEPT !.ran = @ \/ journal[n].ran]]
    /\ saved' = journal' /\ encoded' = {} /\ checkpointed' = TRUE
    /\ UNCHANGED <<files, staging, outdated, before, puts, repeated, tree, granted, fileTasks>>

ArtifactsNext ==
    \/ prepare_file_plan \/ save_journal \/ stream_again
    \/ onPause_encodes \/ onPause_writes
    \/ write_atomic \/ write_staging \/ commit_staging
    \/ source_bytes \/ https_put
    \/ granted_write \/ grant_changes \/ rollback_write
    \/ file_process_death

ArtifactsSpec == ArtifactsInit /\ [][ArtifactsNext]_artifactVars

-----------------------------------------------------------------------------
(* The PUT of an action is idempotent: however often a retry or a death    *)
(* repeats it, a server gets the same content, unless a checkpoint was     *)
(* passed over: an older encoding replaced one that knew a digest, or the  *)
(* plan went on after a save that failed.  A death then brings back a      *)
(* journal without the digest, and what the source holds by then is hashed *)
(* and PUT.                                                                *)
UploadIdempotent ==
    ~outdated => \A p, q \in puts : p[1] = q[1] => p[2] = q[2]

(* A task that is undone to its first action has left no trace, unless a   *)
(* death made one of its writes run twice: the second snapshot then hides  *)
(* the first.                                                              *)
UndoneLeavesNoTrace ==
    (/\ journal # <<>> /\ ~repeated
     /\ \A n \in DOMAIN journal :
          /\ journal[n].op \in {"write", "download"}
          /\ \/ journal[n].status = "undone"
             \/ journal[n].status = "prepared" /\ ~journal[n].ran)
        => files = before
=============================================================================
