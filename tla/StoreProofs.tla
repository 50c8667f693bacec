---------------------------- MODULE StoreProofs -----------------------------
(***************************************************************************)
(* Theorems about the components that keep their state in files: the       *)
(* mobile continuity bundle, the paired-PC profiles, the asset store with  *)
(* the bundled model, and the sovereign backups.  For each, the invariant  *)
(* says what its store can hold between any two steps.                     *)
(***************************************************************************)
EXTENDS Continuity, PcPairing, Assimilation, Portability, SequenceTheorems, TLAPS

-----------------------------------------------------------------------------
(* The mobile continuity bundle.                                           *)

WakeReason == {"scheduled", "user_interaction", "reboot", "foreground", "approval_resolved"}

(* A bundle that the shell can have written: it passes both validations.   *)
ValidBundle ==
    {b \in [seq : 1..MAX_SEQUENCE, state : MobileContinuityState, wake : WakeReason,
            pending : {"none", "linked"}] : validate_bundle(b)}

(* Memory is the file, counted on; or the answer to the question that the  *)
(* file still asks, because the write of the answer failed.                *)
Follows(b, d) ==
    /\ d # NoBundle
    /\ b.seq >= d.seq
    /\ \/ b.state = d.state /\ b.pending = d.pending
       \/ /\ d.pending = "linked" /\ b.pending = "none"
          /\ b.state \in {"Checkpointed", "FailedRecoverable"}

(* As long as the chat is answered in time, the panel, its callback and an *)
(* answer to the chat exclude each other.                                  *)
ChatInv ==
    /\ chatPending \in BOOLEAN /\ untimely \in BOOLEAN
    /\ shows \in Nat /\ answers \in Nat
    /\ ~untimely /\ shows > 0 => chatPending /\ answers = 0
    /\ ~untimely /\ answers > 0 => chatPending /\ answers = 1 /\ ~panel

ContinuityInv ==
    /\ disk \in ValidBundle \cup {NoBundle}
    /\ bundle \in ValidBundle \cup {NoBundle}
    /\ hostUp \in BOOLEAN /\ activity \in BOOLEAN /\ panel \in BOOLEAN
    /\ bundle # NoBundle => Follows(bundle, disk)
    /\ ChatInv
    /\ SurfacesMatchMemory

(* A saved bundle is not the absent one.                                   *)
LEMMA ValidIsBundle ==
    ASSUME NEW b \in ValidBundle
    PROVE  /\ b # NoBundle
           /\ b.seq \in 1..MAX_SEQUENCE /\ b.state \in MobileContinuityState
           /\ b.wake \in WakeReason /\ b.pending \in {"none", "linked"}
           /\ b.pending = "linked" <=> b.state = "WaitingApproval"
           /\ validate_bundle(b) /\ validate_links(b)
  <1>1. /\ b.seq \in 1..MAX_SEQUENCE /\ b.state \in MobileContinuityState
        /\ b.wake \in WakeReason /\ b.pending \in {"none", "linked"}
        /\ validate_bundle(b)
    BY DEF ValidBundle
  <1>2. b # NoBundle
    <2>1. NoBundle.seq = 0
      BY DEF NoBundle
    <2> QED BY <1>1, <2>1, ContinuityAssumption
  <1> QED BY <1>1, <1>2 DEF validate_bundle, validate_links

(* What a restore leaves in memory, and what it says of it.                *)
LEMMA Restores ==
    ASSUME ContinuityInv, NEW reason \in WakeReason, NEW readable \in BOOLEAN
    PROVE  LET r == restore(reason, readable) IN
           /\ r.bundle \in ValidBundle \cup {NoBundle}
           /\ r.bundle # NoBundle => Follows(r.bundle, disk)
           /\ r.asks \in BOOLEAN
           /\ r.asks => r.bundle # NoBundle /\ r.bundle.state = "WaitingApproval"
                        /\ r.bundle.pending = "linked"
           /\ r.restored => r.bundle # NoBundle
           /\ r.foreground => r.bundle # NoBundle /\ r.bundle.state = "ActiveExecution"
           /\ bundle # NoBundle /\ bundle.state \in {"WaitingApproval", "ActiveExecution"} =>
                 r.bundle # NoBundle /\ r.bundle.state = bundle.state
                 /\ r.bundle.pending = bundle.pending
  <1> DEFINE r == restore(reason, readable)
  <1>1. CASE ~readable \/ disk = NoBundle
    BY <1>1 DEF restore, ResumeResult, ContinuityInv
  <1>2. CASE readable /\ disk # NoBundle /\ ~hostUp
    BY <1>2 DEF restore, ResumeResult, ContinuityInv
  <1>3. CASE readable /\ disk # NoBundle /\ hostUp
    <2>1. disk \in ValidBundle
      BY <1>3 DEF ContinuityInv
    <2>2. /\ disk.seq \in 1..MAX_SEQUENCE /\ disk.state \in MobileContinuityState
          /\ disk.pending \in {"none", "linked"}
          /\ disk.pending = "linked" <=> disk.state = "WaitingApproval"
          /\ validate_bundle(disk) /\ validate_links(disk)
      BY <2>1, ValidIsBundle
    <2> DEFINE d == [disk EXCEPT !.wake = reason]
    <2>3. /\ d \in ValidBundle /\ d.seq = disk.seq /\ d.state = disk.state
          /\ d.pending = disk.pending
      BY <2>1 DEF ValidBundle, validate_bundle
    <2>4. d # NoBundle
      BY <2>3, ValidIsBundle
    <2>5. Follows(d, disk)
      BY <1>3, <2>2, <2>3 DEF Follows
    <2>6. r = ResumeResult(d, TRUE, has_eligible_work(disk.state),
                           requires_foreground(disk.state), disk.pending # "none")
      BY <1>3, <2>2 DEF restore, nativeRestoreAndVerify
    <2>7. ASSUME bundle # NoBundle, bundle.state \in {"WaitingApproval", "ActiveExecution"}
          PROVE  d.state = bundle.state /\ d.pending = bundle.pending
      BY <2>3, <2>7 DEF ContinuityInv, Follows
    <2> HIDE DEF d
    <2>8. /\ r.bundle = d /\ r.restored = TRUE /\ r.asks = (disk.pending # "none")
          /\ r.foreground = requires_foreground(disk.state)
      BY <2>6 DEF ResumeResult
    <2>9. r.asks \in BOOLEAN
      BY <2>8
    <2> HIDE DEF r
    <2>10. /\ r.asks => r.bundle.state = "WaitingApproval" /\ r.bundle.pending = "linked"
           /\ r.foreground => r.bundle.state = "ActiveExecution"
      BY <2>2, <2>3, <2>8 DEF requires_foreground
    <2>11. /\ r.bundle \in ValidBundle \cup {NoBundle}
           /\ r.bundle # NoBundle /\ Follows(r.bundle, disk)
      BY <2>3, <2>4, <2>5, <2>8
    <2>12. bundle # NoBundle /\ bundle.state \in {"WaitingApproval", "ActiveExecution"} =>
             r.bundle.state = bundle.state /\ r.bundle.pending = bundle.pending
      BY <2>7, <2>8
    <2> QED BY <2>9, <2>10, <2>11, <2>12 DEF r
  <1> QED BY <1>1, <1>2, <1>3 DEF ContinuityInv

(* A save of b, which is in memory or was just restored.                   *)
LEMMA Saves ==
    ASSUME ContinuityInv, NEW b \in ValidBundle \cup {NoBundle}, NEW written \in BOOLEAN,
           b # NoBundle => Follows(b, disk), checkpoint(b, written)
    PROVE  /\ disk' \in ValidBundle \cup {NoBundle}
           /\ bundle' \in ValidBundle \cup {NoBundle}
           /\ b # NoBundle => bundle' # NoBundle /\ Follows(bundle', disk')
                  /\ bundle'.state = b.state /\ bundle'.pending = b.pending
           /\ b = NoBundle => bundle' = NoBundle /\ disk' = disk
           /\ disk' # disk => /\ disk # NoBundle /\ disk'.seq > disk.seq
                              /\ disk'.pending # "none" => disk.pending # "none"
  <1>1. CASE ~(hostUp /\ b # NoBundle /\ b.seq < MAX_SEQUENCE /\ validate_bundle(b))
    BY <1>1 DEF checkpoint, ContinuityInv
  <1>2. CASE hostUp /\ b # NoBundle /\ b.seq < MAX_SEQUENCE /\ validate_bundle(b)
    <2> DEFINE c == [b EXCEPT !.seq = @ + 1]
    <2>1. b \in ValidBundle
      BY <1>2
    <2>2. /\ c \in ValidBundle /\ c.seq = b.seq + 1 /\ c.state = b.state
          /\ c.pending = b.pending
      <3>1. b.seq \in 1..MAX_SEQUENCE /\ b.seq + 1 \in 1..MAX_SEQUENCE /\ b.seq + 1 > 0
        BY <1>2, <2>1, ValidIsBundle, ContinuityAssumption
      <3>2. c.seq = b.seq + 1 /\ c.state = b.state /\ c.pending = b.pending
        BY <2>1 DEF ValidBundle
      <3>3. c \in [seq : 1..MAX_SEQUENCE, state : MobileContinuityState, wake : WakeReason,
                   pending : {"none", "linked"}]
        BY <2>1, <3>1 DEF ValidBundle
      <3>4. validate_bundle(c)
        BY <1>2, <3>1, <3>2 DEF validate_bundle
      <3> QED BY <3>2, <3>3, <3>4 DEF ValidBundle
    <2>3. c # NoBundle
      BY <2>2, ValidIsBundle
    <2>4. bundle' = c /\ disk' = IF written THEN c ELSE disk
      BY <1>2 DEF checkpoint, nativeCheckpoint
    <2>5. Follows(b, disk) /\ disk # NoBundle /\ disk \in ValidBundle
      BY <1>2 DEF Follows, ContinuityInv
    <2>6. disk.seq \in 1..MAX_SEQUENCE /\ b.seq \in 1..MAX_SEQUENCE /\ disk.pending \in {"none", "linked"}
      BY <2>1, <2>5, ValidIsBundle
    <2>7. c.seq > disk.seq /\ Follows(c, disk) /\ Follows(c, c)
          /\ (c.pending # "none" => disk.pending # "none")
      <3> HIDE DEF c
      <3> QED BY <2>2, <2>3, <2>5, <2>6 DEF Follows
    <2> HIDE DEF c
    <2> QED BY <1>2, <2>2, <2>3, <2>4, <2>5, <2>7
  <1> QED BY <1>1, <1>2

(* An answer is saved in place of its question.                            *)
LEMMA Answers ==
    ASSUME ContinuityInv, bundle # NoBundle, bundle.state = "WaitingApproval",
           NEW approved \in BOOLEAN
    PROVE  LET b == nativeResolveApproval(bundle, approved) IN
           b \in ValidBundle /\ Follows(b, disk)
  <1> DEFINE b == nativeResolveApproval(bundle, approved)
  <1>1. bundle \in ValidBundle /\ Follows(bundle, disk)
    BY DEF ContinuityInv
  <1>2. /\ bundle.seq \in 1..MAX_SEQUENCE /\ bundle.pending = "linked" /\ validate_bundle(bundle)
    BY <1>1, ValidIsBundle
  <1>3. /\ b.seq = bundle.seq /\ b.pending = "none"
        /\ b.state \in {"Checkpointed", "FailedRecoverable"}
    BY <1>1 DEF ValidBundle, nativeResolveApproval
  <1>4. b \in [seq : 1..MAX_SEQUENCE, state : MobileContinuityState, wake : WakeReason,
               pending : {"none", "linked"}]
    BY <1>1 DEF ValidBundle, nativeResolveApproval, MobileContinuityState, WakeReason
  <1>5. b \in ValidBundle
    <2> HIDE DEF b
    <2> QED BY <1>2, <1>3, <1>4 DEF ValidBundle, validate_bundle
  <1>6. Follows(b, disk)
    <2> HIDE DEF b
    <2> QED BY <1>1, <1>2, <1>3 DEF Follows
  <1> QED BY <1>5, <1>6

(* The chat of an activity that is new or gone.                            *)
LEMMA QuietChat ==
    ASSUME NoChat
    PROVE  ChatInv'
  <1>1. chatPending' \in BOOLEAN /\ untimely' \in BOOLEAN
    BY Zenon DEF NoChat
  <1>2. shows' \in Nat /\ answers' \in Nat /\ ~(shows' > 0) /\ ~(answers' > 0)
    BY SMT DEF NoChat
  <1> QED BY <1>1, <1>2, Zenon DEF ChatInv

(* Each callback keeps the invariant and moves the file only forward.      *)
LEMMA ContinuityStep ==
    ASSUME ContinuityInv, [ContinuityNext]_continuityVars
    PROVE  /\ ContinuityInv'
           /\ disk' # disk => /\ disk # NoBundle /\ disk'.seq > disk.seq
                              /\ disk'.pending # "none" => disk.pending # "none"
  <1>1. CASE restoreFromUi
    <2>1. PICK readable \in BOOLEAN :
             LET r == restore("user_interaction", readable)
             IN  /\ bundle' = r.bundle /\ panel' = r.asks /\ activity' = TRUE /\ NoChat
                 /\ UNCHANGED <<disk, hostUp, job, service>>
      BY <1>1 DEF restoreFromUi
    <2>2. "user_interaction" \in WakeReason
      BY DEF WakeReason
    <2>3. ChatInv'
      BY <2>1, QuietChat
    <2>4. SurfacesMatchMemory'
      BY <2>1, <2>2, Restores DEF ContinuityInv, SurfacesMatchMemory, NoChat
    <2> QED BY <2>1, <2>2, <2>3, <2>4, Restores DEF ContinuityInv, Follows
  <1>2. CASE onPause
    <2>1. PICK written \in BOOLEAN : checkpoint(bundle, written)
      BY <1>2 DEF onPause
    <2>2. UNCHANGED <<hostUp, activity, panel, job, service, chatVars>>
      BY <1>2 DEF onPause
    <2> QED BY <2>1, <2>2, Saves DEF ContinuityInv, SurfacesMatchMemory, ChatInv, chatVars
  <1>3. ASSUME NEW approved \in BOOLEAN, resolveApproval(approved)
        PROVE  /\ ContinuityInv'
               /\ disk' # disk => /\ disk # NoBundle /\ disk'.seq > disk.seq
                                  /\ disk'.pending # "none" => disk.pending # "none"
    <2>1. CASE /\ ~chatPending
               /\ bundle # NoBundle /\ bundle.state = "WaitingApproval" /\ bundle.pending # "none"
      <3> DEFINE b == nativeResolveApproval(bundle, approved)
      <3>1. PICK written \in BOOLEAN : checkpoint(b, written)
        BY <1>3, <2>1 DEF resolveApproval
      <3>2. panel' = FALSE /\ UNCHANGED <<hostUp, activity, job, service, chatVars>>
        BY <1>3, <2>1 DEF resolveApproval
      <3>3. b \in ValidBundle /\ Follows(b, disk) /\ b # NoBundle
        BY <2>1, Answers, ValidIsBundle
      <3>4. service # "running"
        BY <2>1 DEF ContinuityInv, SurfacesMatchMemory
      <3> HIDE DEF b
      <3>5. ChatInv'
        BY <3>2 DEF ContinuityInv, ChatInv, chatVars
      <3>6. SurfacesMatchMemory'
        BY <2>1, <3>2, <3>4 DEF SurfacesMatchMemory, chatVars
      <3> QED BY <3>1, <3>2, <3>3, <3>5, <3>6, Saves DEF ContinuityInv
    <2>2. CASE /\ ~chatPending
               /\ ~(bundle # NoBundle /\ bundle.state = "WaitingApproval" /\ bundle.pending # "none")
      <3>1. UNCHANGED continuityVars
        BY <1>3, <2>2 DEF resolveApproval, continuityVars
      <3> QED BY <3>1 DEF continuityVars, chatVars, ContinuityInv, SurfacesMatchMemory, ChatInv,
                         Follows
    <2>3. CASE chatPending
      <3>1. /\ panel /\ panel' = FALSE /\ answers' = answers + 1
            /\ untimely' = (untimely \/ shows > 0)
            /\ UNCHANGED <<bundle, disk, chatPending, shows, hostUp, activity, job, service>>
        BY <1>3, <2>3 DEF resolveApproval
      <3>a. untimely' \in BOOLEAN /\ chatPending' \in BOOLEAN /\ shows' \in Nat /\ answers' \in Nat
        BY <3>1 DEF ContinuityInv, ChatInv
      <3>b. ASSUME ~untimely' PROVE answers = 0 /\ shows = 0
        BY <3>1, <3>b DEF ContinuityInv, ChatInv
      <3>2. ChatInv'
        BY <2>3, <3>1, <3>a, <3>b DEF ChatInv
      <3>3. SurfacesMatchMemory'
        BY <3>1 DEF ContinuityInv, ChatInv, SurfacesMatchMemory
      <3> QED BY <3>1, <3>2, <3>3 DEF ContinuityInv, Follows
    <2> QED BY <2>1, <2>2, <2>3
  <1>4. CASE boot_completed
    BY <1>4 DEF boot_completed, ContinuityInv, SurfacesMatchMemory, ChatInv, Follows, NoChat, chatVars
  <1>5. CASE onStartJob
    <2>1. PICK readable \in BOOLEAN, written \in BOOLEAN :
             LET r == restore("reboot", readable)
             IN  /\ IF r.foreground /\ r.eligible
                    THEN service' = "starting" /\ bundle' = r.bundle /\ UNCHANGED disk
                    ELSE checkpoint(r.bundle, written) /\ UNCHANGED service
                 /\ job' = (r.eligible /\ ~r.restored)
      BY <1>5 DEF onStartJob
    <2> DEFINE r == restore("reboot", readable)
    <2>2. UNCHANGED <<hostUp, activity, panel, chatVars>>
      BY <1>5 DEF onStartJob
    <2>3. "reboot" \in WakeReason
      BY DEF WakeReason
    <2>4. CASE r.foreground /\ r.eligible
      BY <2>1, <2>2, <2>3, <2>4, Restores DEF ContinuityInv, SurfacesMatchMemory, ChatInv, Follows, NoChat, chatVars
    <2>5. CASE ~(r.foreground /\ r.eligible)
      <3>1. checkpoint(r.bundle, written) /\ UNCHANGED service
        BY <2>1, <2>5
      <3>2. /\ r.bundle \in ValidBundle \cup {NoBundle}
            /\ r.bundle # NoBundle => Follows(r.bundle, disk)
            /\ bundle # NoBundle /\ bundle.state \in {"WaitingApproval", "ActiveExecution"} =>
                 r.bundle # NoBundle /\ r.bundle.state = bundle.state
                 /\ r.bundle.pending = bundle.pending
        BY <2>3, Restores
      <3> HIDE DEF r
      <3> QED BY <2>2, <3>1, <3>2, Saves DEF ContinuityInv, SurfacesMatchMemory, ChatInv, chatVars
    <2> QED BY <2>4, <2>5
  <1>6. CASE onStartCommand
    <2>1. PICK readable \in BOOLEAN, written \in BOOLEAN :
             LET r == restore("foreground", readable)
             IN  IF ~r.restored \/ ~r.eligible
                 THEN bundle' = r.bundle /\ service' = "none" /\ UNCHANGED disk
                 ELSE /\ checkpoint(r.bundle, written)
                      /\ service' = IF r.foreground THEN "running" ELSE "none"
      BY <1>6 DEF onStartCommand
    <2> DEFINE r == restore("foreground", readable)
    <2>2. UNCHANGED <<hostUp, activity, panel, chatVars>>
      BY <1>6 DEF onStartCommand
    <2>3. "foreground" \in WakeReason
      BY DEF WakeReason
    <2>4. CASE ~r.restored \/ ~r.eligible
      BY <2>1, <2>2, <2>3, <2>4, Restores DEF ContinuityInv, SurfacesMatchMemory, ChatInv, Follows, NoChat, chatVars
    <2>5. CASE ~(~r.restored \/ ~r.eligible)
      <3>1. /\ checkpoint(r.bundle, written)
            /\ service' = IF r.foreground THEN "running" ELSE "none"
        BY <2>1, <2>5
      <3>2. /\ r.bundle \in ValidBundle \cup {NoBundle}
            /\ r.bundle # NoBundle => Follows(r.bundle, disk)
            /\ r.foreground => r.bundle # NoBundle /\ r.bundle.state = "ActiveExecution"
            /\ bundle # NoBundle /\ bundle.state \in {"WaitingApproval", "ActiveExecution"} =>
                 r.bundle # NoBundle /\ r.bundle.state = bundle.state
                 /\ r.bundle.pending = bundle.pending
        BY <2>3, Restores
      <3> HIDE DEF r
      <3> QED BY <2>2, <3>1, <3>2, Saves DEF ContinuityInv, SurfacesMatchMemory, ChatInv, chatVars
    <2> QED BY <2>4, <2>5
  <1>7. CASE onTaskRemoved_or_onDestroy
    <2>1. PICK written \in BOOLEAN : checkpoint(bundle, written)
      BY <1>7 DEF onTaskRemoved_or_onDestroy
    <2>2. service = "running" /\ UNCHANGED <<hostUp, activity, panel, job, chatVars>>
      BY <1>7 DEF onTaskRemoved_or_onDestroy
    <2> QED BY <2>1, <2>2, Saves DEF ContinuityInv, SurfacesMatchMemory, ChatInv, chatVars
  <1>8. CASE continuity_process_death
    <2>1. ChatInv'
      BY <1>8, QuietChat DEF continuity_process_death
    <2>2. SurfacesMatchMemory'
      BY <1>8 DEF continuity_process_death, SurfacesMatchMemory, NoChat
    <2> QED BY <1>8, <2>1, <2>2 DEF continuity_process_death, ContinuityInv
  <1>9. CASE chat_approval_required
    <2>1. /\ ~chatPending /\ chatPending' = TRUE /\ shows' = shows + 1
          /\ UNCHANGED <<disk, bundle, hostUp, activity, panel, job, service, answers, untimely>>
      BY <1>9 DEF chat_approval_required
    <2>2. ChatInv'
      BY <2>1 DEF ContinuityInv, ChatInv
    <2>3. SurfacesMatchMemory'
      BY <2>1 DEF ContinuityInv, ChatInv, SurfacesMatchMemory
    <2> QED BY <2>1, <2>2, <2>3 DEF ContinuityInv, Follows
  <1>10. CASE chat_panel_shown
    <2>1. /\ shows > 0 /\ shows' = shows - 1 /\ panel' = TRUE
          /\ UNCHANGED <<disk, bundle, hostUp, activity, job, service, chatPending, answers, untimely>>
      BY <1>10 DEF chat_panel_shown
    <2>a. /\ shows \in Nat /\ answers \in Nat
          /\ ~untimely => chatPending /\ answers = 0
      BY <2>1 DEF ContinuityInv, ChatInv
    <2>b. shows - 1 \in Nat
      BY <2>1, <2>a
    <2>2. ChatInv'
      BY <2>1, <2>a, <2>b DEF ContinuityInv, ChatInv
    <2>3. SurfacesMatchMemory'
      BY <2>1 DEF ContinuityInv, ChatInv, SurfacesMatchMemory
    <2> QED BY <2>1, <2>2, <2>3 DEF ContinuityInv, Follows
  <1>11. CASE chat_answer_taken
    <2>1. /\ answers > 0 /\ answers' = answers - 1
          /\ \/ chatPending /\ chatPending' = FALSE /\ shows' = shows
             \/ shows' = shows + 1 /\ chatPending' = chatPending
          /\ UNCHANGED <<disk, bundle, hostUp, activity, panel, job, service, untimely>>
      BY <1>11 DEF chat_answer_taken
    <2>a. /\ shows \in Nat /\ answers \in Nat /\ chatPending \in BOOLEAN /\ untimely \in BOOLEAN
          /\ ~untimely => chatPending /\ ~panel /\ answers = 1 /\ shows = 0
      BY <2>1 DEF ContinuityInv, ChatInv
    <2>b. /\ answers' \in Nat /\ shows' \in Nat
          /\ ~untimely => answers' = 0
      BY <2>1, <2>a
    <2>c. ~untimely => chatPending' \/ shows' = 0
      BY <2>1, <2>a
    <2>d. chatPending' \in BOOLEAN /\ untimely' \in BOOLEAN /\ untimely' = untimely
      BY <2>1, <2>a, Zenon
    <2>2. ChatInv'
      BY <2>b, <2>c, <2>d DEF ChatInv
    <2>3. SurfacesMatchMemory'
      BY <2>1 DEF ContinuityInv, ChatInv, SurfacesMatchMemory
    <2> QED BY <2>1, <2>2, <2>3 DEF ContinuityInv, Follows
  <1>12. CASE UNCHANGED continuityVars
    BY <1>12 DEF continuityVars, ContinuityInv, SurfacesMatchMemory, ChatInv, Follows, NoChat, chatVars
  <1> QED BY <1>1, <1>2, <1>3, <1>4, <1>5, <1>6, <1>7, <1>8, <1>9, <1>10, <1>11,
            <1>12 DEF ContinuityNext

(* The invariant of the shell's callbacks.                                 *)
LEMMA ContinuityHolds == ContinuitySpec => []ContinuityInv
  <1>1. ContinuityInit => ContinuityInv
    <2> SUFFICES ASSUME ContinuityInit PROVE ContinuityInv
      OBVIOUS
    <2>1. ASSUME disk # NoBundle PROVE disk \in ValidBundle
      <3>1. disk \in build_mobile_continuity_bundle
        BY <2>1 DEF ContinuityInit
      <3> QED BY <3>1, ContinuityAssumption
              DEF build_mobile_continuity_bundle, ValidBundle, WakeReason, validate_links
    <2>2. ChatInv
      <3>1. chatPending \in BOOLEAN /\ untimely \in BOOLEAN
        BY Zenon DEF ContinuityInit
      <3>2. shows \in Nat /\ answers \in Nat /\ ~(shows > 0) /\ ~(answers > 0)
        BY SMT DEF ContinuityInit
      <3> QED BY <3>1, <3>2, Zenon DEF ChatInv
    <2>3. SurfacesMatchMemory
      BY DEF ContinuityInit, SurfacesMatchMemory
    <2> QED BY <2>1, <2>2, <2>3 DEF ContinuityInit, ContinuityInv
  <1>2. ContinuityInv /\ [ContinuityNext]_continuityVars => ContinuityInv'
    BY ContinuityStep
  <1> QED BY <1>1, <1>2, PTL DEF ContinuitySpec

(* An approval panel that MainActivity shows has a question behind it,     *)
(* unless the chat was answered before it had shown its own; a question of *)
(* the chat is never lost; and a foreground service that stays up has      *)
(* active work, however the callbacks of activity, job, service and boot   *)
(* receiver restore over one another.                                      *)
THEOREM SurfacesAreServed == ContinuitySpec => []SurfacesMatchMemory
  <1>1. ContinuityInv => SurfacesMatchMemory
    BY DEF ContinuityInv
  <1> QED BY <1>1, ContinuityHolds, PTL

(* NtdContinuityStore.save never puts an older bundle over a newer one and *)
(* never brings back a question whose answer it has saved.                 *)
THEOREM FileMovesForward == ContinuitySpec => DurableMovesForward
  <1>1. ContinuityInv /\ [ContinuityNext]_continuityVars
          => [disk' # disk => /\ disk # NoBundle /\ disk'.seq > disk.seq
                              /\ disk'.pending # "none" => disk.pending # "none"]_continuityVars
    BY ContinuityStep
  <1> QED BY <1>1, ContinuityHolds, PTL DEF ContinuitySpec, DurableMovesForward

-----------------------------------------------------------------------------
(* The paired-PC profiles.                                                 *)

PcPairProfile == [seed : Nat, whole : BOOLEAN]

PcPairCall == [alias : Aliases, stage : {"checked", "created", "written"}, seed : Nat]

(* No receipt promises what is at the alias.                               *)
Free(a) == paired[a] = 0 \/ a \in overwritten

(* A call under way writes a file that no receipt promises.                *)
CallIsFree ==
    \/ provisioning = NoCall
    \/ provisioning \in PcPairCall /\ Free(provisioning.alias)

PairingInv ==
    /\ profiles \in [Aliases -> PcPairProfile]
    /\ paired \in [Aliases -> Nat]
    /\ nextSeed \in Nat \ {0}
    /\ connection \in PcPairProfile
    /\ CallIsFree
    /\ PairedUntilRevoked

(* A step that leaves every profile that a receipt promises as it is.      *)
LEMMA KeepsPaired ==
    ASSUME PairingInv, paired' = paired, connection' = connection, overwritten' = overwritten,
           NEW a \in Aliases, Free(a),
           \A b \in Aliases : b # a => profiles'[b] = profiles[b]
    PROVE  PairedUntilRevoked'
  BY DEF PairingInv, PairedUntilRevoked, Free

(* Taking back a profile that no receipt promises.                         *)
LEMMA RolledBack ==
    ASSUME PairingInv, NEW a \in Aliases, Free(a), Failed(a)
    PROVE  PairingInv'
  <1>1. /\ provisioning' = NoCall
        /\ UNCHANGED <<nextSeed, receipt, connection, paired, overwritten>>
        /\ \/ profiles' = [profiles EXCEPT ![a] = NoProfile]
           \/ UNCHANGED profiles
    BY DEF Failed, rollback_pc_pair_commit
  <1>2. NoProfile \in PcPairProfile
    BY DEF NoProfile, PcPairProfile
  <1>3. /\ profiles' \in [Aliases -> PcPairProfile]
        /\ \A b \in Aliases : b # a => profiles'[b] = profiles[b]
    BY <1>1, <1>2 DEF PairingInv
  <1>4. PairedUntilRevoked'
    BY <1>1, <1>3, KeepsPaired
  <1>5. CallIsFree'
    BY <1>1, Zenon DEF CallIsFree
  <1> QED BY <1>1, <1>3, <1>4, <1>5 DEF PairingInv

(* The call goes on with some content p at the path of its profile.        *)
LEMMA CallGoesOn ==
    ASSUME PairingInv, provisioning \in PcPairCall, Free(provisioning.alias),
           NEW p \in PcPairProfile, NEW stage \in {"created", "written"},
           profiles' = [profiles EXCEPT ![provisioning.alias] = p],
           provisioning' = [provisioning EXCEPT !.stage = stage],
           UNCHANGED <<nextSeed, receipt, connection, paired, overwritten>>
    PROVE  PairingInv'
  <1> DEFINE a == provisioning.alias
  <1>1. a \in Aliases
    BY DEF PcPairCall
  <1>2. /\ profiles' \in [Aliases -> PcPairProfile]
        /\ \A b \in Aliases : b # a => profiles'[b] = profiles[b]
    BY <1>1 DEF PairingInv
  <1>3. PairedUntilRevoked'
    BY <1>1, <1>2, KeepsPaired
  <1>4. provisioning' \in PcPairCall /\ provisioning'.alias = a
    BY DEF PcPairCall
  <1>5. Free(provisioning.alias)'
    BY <1>4 DEF Free
  <1>6. CallIsFree'
    BY <1>4, <1>5, Zenon DEF CallIsFree
  <1> QED BY <1>2, <1>3, <1>6 DEF PairingInv

(* Each call of the settings activity, and the chat thread between them.   *)
LEMMA PairingStep ==
    ASSUME PairingInv, [PairingNext]_pairingVars
    PROVE  PairingInv'
  <1>a. ASSUME provisioning # NoCall
        PROVE  /\ provisioning \in PcPairCall /\ Free(provisioning.alias)
               /\ provisioning.alias \in Aliases /\ provisioning.seed \in Nat
    BY <1>a DEF PairingInv, PcPairCall, CallIsFree
  <1>1. ASSUME NEW a \in Aliases, provision_pc_pair_profile(a) PROVE PairingInv'
    <2>1. /\ profiles[a] = NoProfile /\ nextSeed \in Nat \ {0}
          /\ provisioning' = [alias |-> a, stage |-> "checked", seed |-> nextSeed]
          /\ nextSeed' = nextSeed + 1
          /\ UNCHANGED <<profiles, receipt, connection, paired, overwritten>>
      BY <1>1 DEF provision_pc_pair_profile, PairingInv
    <2>2. Free(a)
      BY <2>1 DEF PairingInv, PairedUntilRevoked, NoProfile, Free
    <2>3. provisioning' \in PcPairCall /\ provisioning'.alias = a
      BY <2>1 DEF PcPairCall
    <2>4. Free(provisioning.alias)'
      BY <2>1, <2>2, <2>3 DEF Free
    <2>5. PairedUntilRevoked'
      BY <2>1 DEF PairingInv, PairedUntilRevoked
    <2>6. CallIsFree'
      BY <2>3, <2>4, Zenon DEF CallIsFree
    <2> QED BY <2>1, <2>5, <2>6 DEF PairingInv
  <1>2. ASSUME NEW a \in Aliases, describe_pc_pair_profile(a) PROVE PairingInv'
    BY <1>2 DEF describe_pc_pair_profile, PairingInv, PairedUntilRevoked, CallIsFree, Free
  <1>3. ASSUME NEW a \in Aliases, revoke_pc_pair_profile(a) PROVE PairingInv'
    <2>1. NoProfile \in PcPairProfile
      BY DEF NoProfile, PcPairProfile
    <2>2. /\ profiles' = [profiles EXCEPT ![a] = NoProfile]
          /\ paired' = [paired EXCEPT ![a] = 0]
          /\ provisioning = NoCall
          /\ UNCHANGED <<provisioning, nextSeed, connection, overwritten>>
      BY <1>3 DEF revoke_pc_pair_profile
    <2>3. profiles' \in [Aliases -> PcPairProfile] /\ paired' \in [Aliases -> Nat]
      BY <2>1, <2>2 DEF PairingInv
    <2>4. PairedUntilRevoked'
      BY <2>2 DEF PairingInv, PairedUntilRevoked
    <2>5. CallIsFree'
      BY <2>2, Zenon DEF CallIsFree
    <2> QED BY <2>2, <2>3, <2>4, <2>5 DEF PairingInv
  <1>4. ASSUME NEW a \in Aliases, connect_peer(a) PROVE PairingInv'
    BY <1>4 DEF connect_peer, load_pc_pair_profile, PairingInv, PairedUntilRevoked, PcPairProfile,
                CallIsFree, Free
  <1>5. ASSUME NEW a \in Aliases, write_atomic_or_rollback_write(a) PROVE PairingInv'
    <2>1. PICK p \in PlanFile \cup {NoProfile} : profiles' = [profiles EXCEPT ![a] = p]
      BY <1>5 DEF write_atomic_or_rollback_write
    <2>2. /\ overwritten' = overwritten \cup {a}
          /\ UNCHANGED <<provisioning, nextSeed, receipt, connection, paired>>
      BY <1>5 DEF write_atomic_or_rollback_write
    <2>3. p \in PcPairProfile
      <3>1. NoProfile \in PcPairProfile
        BY DEF NoProfile, PcPairProfile
      <3>2. 1..(nextSeed - 1) \cup {MaxSeeds + 1} \subseteq Nat
        BY PcPairingAssumption DEF PairingInv
      <3>3. PlanFile \subseteq PcPairProfile
        BY <3>2 DEF PlanFile, PcPairProfile
      <3> QED BY <3>1, <3>3
    <2>4. /\ profiles' \in [Aliases -> PcPairProfile]
          /\ \A b \in Aliases : b # a => profiles'[b] = profiles[b]
      BY <2>1, <2>3 DEF PairingInv
    <2>5. PairedUntilRevoked'
      BY <2>2, <2>4 DEF PairingInv, PairedUntilRevoked
    <2>6. Free(provisioning.alias) => Free(provisioning.alias)'
      BY <2>2 DEF Free
    <2>7. CallIsFree'
      BY <2>2, <2>6 DEF PairingInv, CallIsFree
    <2> QED BY <2>2, <2>4, <2>5, <2>7 DEF PairingInv
  <1>6. CASE create_profile
    <2>1. provisioning # NoCall
      BY <1>6 DEF create_profile, NoCall
    <2>2. CASE Failed(provisioning.alias)
      BY <1>a, <2>1, <2>2, RolledBack
    <2>3. CASE ~Failed(provisioning.alias)
      <3> DEFINE p == [seed |-> provisioning.seed, whole |-> FALSE]
      <3>1. /\ profiles' = [profiles EXCEPT ![provisioning.alias] = p]
            /\ provisioning' = [provisioning EXCEPT !.stage = "created"]
            /\ UNCHANGED <<nextSeed, receipt, connection, paired, overwritten>>
        BY <1>6, <2>3 DEF create_profile
      <3>2. p \in PcPairProfile
        BY <1>a, <2>1 DEF PcPairProfile
      <3> HIDE DEF p
      <3> QED BY <1>a, <2>1, <3>1, <3>2, CallGoesOn
    <2> QED BY <2>2, <2>3
  <1>7. CASE write_profile
    <2>1. provisioning # NoCall
      BY <1>7 DEF write_profile, NoCall
    <2>2. CASE Failed(provisioning.alias)
      BY <1>a, <2>1, <2>2, RolledBack
    <2>3. CASE ~Failed(provisioning.alias)
      <3>1. PICK p \in Written(profiles[provisioning.alias], provisioning.seed) :
               profiles' = [profiles EXCEPT ![provisioning.alias] = p]
        BY <1>7, <2>3 DEF write_profile
      <3>2. /\ provisioning' = [provisioning EXCEPT !.stage = "written"]
            /\ UNCHANGED <<nextSeed, receipt, connection, paired, overwritten>>
        BY <1>7, <2>3 DEF write_profile
      <3>3. profiles[provisioning.alias] \in PcPairProfile
        BY <1>a, <2>1 DEF PairingInv
      <3>4. p \in PcPairProfile
        <4> DEFINE sd == provisioning.seed
        <4>1. sd \in Nat
          BY <1>a, <2>1
        <4>2. [seed |-> sd, whole |-> TRUE] \in PcPairProfile
          BY <4>1 DEF PcPairProfile
        <4>3. [seed : {sd}, whole : BOOLEAN] \subseteq PcPairProfile
          BY <4>1 DEF PcPairProfile
        <4> QED BY <3>1, <3>3, <4>2, <4>3, Zenon DEF Written
      <3> QED BY <1>a, <2>1, <3>1, <3>2, <3>4, CallGoesOn
    <2> QED BY <2>2, <2>3
  <1>8. CASE reload_profile
    <2> DEFINE a == provisioning.alias
    <2>1. provisioning # NoCall
      BY <1>8 DEF reload_profile, NoCall
    <2>2. CASE Failed(a)
      BY <1>a, <2>1, <2>2, RolledBack
    <2>3. CASE ~Failed(a)
      <3>1. /\ load_pc_pair_profile(a) /\ profiles[a].seed = provisioning.seed
            /\ paired' = [paired EXCEPT ![a] = provisioning.seed]
            /\ overwritten' = overwritten \ {a}
            /\ provisioning' = NoCall
            /\ UNCHANGED <<profiles, nextSeed, connection>>
        BY <1>8, <2>3 DEF reload_profile
      <3>2. a \in Aliases /\ provisioning.seed \in Nat
        BY <1>a, <2>1
      <3>3. profiles[a] \in PcPairProfile /\ profiles[a].whole
        BY <3>1, <3>2 DEF PairingInv, load_pc_pair_profile
      <3>4. profiles[a] = [seed |-> provisioning.seed, whole |-> TRUE]
        BY <3>1, <3>3 DEF PcPairProfile
      <3>5. paired' \in [Aliases -> Nat] /\ paired'[a] = provisioning.seed
            /\ \A b \in Aliases : b # a => paired'[b] = paired[b]
        BY <3>1, <3>2 DEF PairingInv
      <3>6. PairedUntilRevoked'
        BY <3>1, <3>4, <3>5 DEF PairingInv, PairedUntilRevoked
      <3>7. CallIsFree'
        BY <3>1, Zenon DEF CallIsFree
      <3> QED BY <3>1, <3>5, <3>6, <3>7 DEF PairingInv
    <2> QED BY <2>2, <2>3
  <1>9. CASE pairing_process_death
    <2>1. /\ provisioning' = NoCall /\ connection' = NoProfile
          /\ UNCHANGED <<profiles, nextSeed, paired, overwritten>>
      BY <1>9 DEF pairing_process_death
    <2>2. CallIsFree'
      BY <2>1, Zenon DEF CallIsFree
    <2>3. NoProfile \in PcPairProfile
      BY DEF NoProfile, PcPairProfile
    <2>4. PairedUntilRevoked'
      BY <2>1 DEF PairingInv, PairedUntilRevoked
    <2> QED BY <2>1, <2>2, <2>3, <2>4 DEF PairingInv
  <1>10. CASE UNCHANGED pairingVars
    BY <1>10 DEF pairingVars, PairingInv, PairedUntilRevoked, CallIsFree, Free
  <1> QED BY <1>1, <1>2, <1>3, <1>4, <1>5, <1>6, <1>7, <1>8, <1>9, <1>10 DEF PairingNext

(* A pairing the user was told of keeps its identity until he revokes it   *)
(* or a plan writes its file, whatever provision_pc_pair_profile refuses,  *)
(* fails to write or rolls back, and however a plan writes in the middle   *)
(* of it; connect_peer loads only profiles that were written whole.        *)
THEOREM PairingStays == PairingSpec => []PairedUntilRevoked
  <1>1. PairingInit => PairingInv
    <2> SUFFICES ASSUME PairingInit PROVE PairingInv
      OBVIOUS
    <2>1. CallIsFree
      BY Zenon DEF PairingInit, CallIsFree
    <2>2. NoProfile \in PcPairProfile
      BY DEF NoProfile, PcPairProfile
    <2>3. PairedUntilRevoked
      BY DEF PairingInit, PairedUntilRevoked
    <2> QED BY <2>1, <2>2, <2>3 DEF PairingInit, PairingInv
  <1>2. PairingInv /\ [PairingNext]_pairingVars => PairingInv'
    BY PairingStep
  <1>3. PairingInv => PairedUntilRevoked
    BY DEF PairingInv
  <1> QED BY <1>1, <1>2, <1>3, PTL DEF PairingSpec

-----------------------------------------------------------------------------
(* The asset store and the bundled model.                                  *)

(* What a store gives receipts for.                                        *)
Receipts(store) == UNION {{<<a, p.version>> : p \in store[a]} : a \in AssetIds}

OnePerVersion(store) ==
    \A a \in AssetIds : \A p, q \in store[a] : p.version = q.version => p = q

AssimilationInv ==
    /\ versions \in [AssetIds -> SUBSET NativePackage]
    /\ ReceiptFindsItsPackage
    /\ bundled \in {"none", "good", "bad"}
    /\ OpenModelServesSigned

(* A receipt belongs to a package.                                         *)
LEMMA ReceiptOfPackage ==
    ASSUME NEW store, NEW x
    PROVE  x \in Receipts(store) <=> \E a \in AssetIds : \E p \in store[a] : x = <<a, p.version>>
  BY DEF Receipts

(* A package that is accepted has a number of its own.                     *)
LEMMA StagedOnce ==
    ASSUME NEW store \in [AssetIds -> SUBSET NativePackage], OnePerVersion(store),
           NEW p \in NativePackage, NEW with_shards \in BOOLEAN,
           Accepted(store, p, with_shards)
    PROVE  /\ Stage(store, p) \in [AssetIds -> SUBSET NativePackage]
           /\ OnePerVersion(Stage(store, p))
           /\ Receipts(Stage(store, p)) = Receipts(store) \cup {<<p.asset, p.version>>}
           /\ p \in Stage(store, p)[p.asset]
           /\ \A a \in AssetIds : store[a] \subseteq Stage(store, p)[a]
  <1>1. p.asset \in AssetIds /\ p.version \in 1..MaxVersion
    BY DEF NativePackage
  <1>2. \A a \in AssetIds : Stage(store, p)[a] = IF a = p.asset THEN store[a] \cup {p} ELSE store[a]
    BY <1>1 DEF Stage
  <1>3. Stage(store, p) \in [AssetIds -> SUBSET NativePackage]
    BY <1>1 DEF Stage
  <1>4. \A q \in store[p.asset] : q.version \in 1..MaxVersion /\ q.version # p.version
    <2> SUFFICES ASSUME NEW q \in store[p.asset]
                 PROVE  q.version \in 1..MaxVersion /\ q.version # p.version
      OBVIOUS
    <2>1. q \in NativePackage
      BY <1>1
    <2>2. q.version \in 1..MaxVersion
      BY <2>1 DEF NativePackage
    <2>3. q.version \in Latest(store, p.asset)
      BY DEF Latest
    <2>4. p.version > q.version
      BY <2>3 DEF Accepted
    <2> QED BY <1>1, <2>2, <2>4
  <1>5. OnePerVersion(Stage(store, p))
    <2> SUFFICES ASSUME NEW a \in AssetIds, NEW x \in Stage(store, p)[a],
                        NEW y \in Stage(store, p)[a], x.version = y.version
                 PROVE  x = y
      BY DEF OnePerVersion
    <2>1. x \in store[a] /\ y \in store[a] => x = y
      BY DEF OnePerVersion
    <2>2. (x = p \/ x \in store[a]) /\ (y = p \/ y \in store[a])
      BY <1>2
    <2>3. a # p.asset => x \in store[a] /\ y \in store[a]
      BY <1>2
    <2>4. a = p.asset => (x \in store[a] => x.version # p.version)
                         /\ (y \in store[a] => y.version # p.version)
      BY <1>4
    <2> QED BY <2>1, <2>2, <2>3, <2>4
  <1>6. Receipts(Stage(store, p)) = Receipts(store) \cup {<<p.asset, p.version>>}
    <2>1. ASSUME NEW x \in Receipts(Stage(store, p))
          PROVE  x \in Receipts(store) \cup {<<p.asset, p.version>>}
      <3>1. PICK a \in AssetIds : \E q \in Stage(store, p)[a] : x = <<a, q.version>>
        BY <2>1, ReceiptOfPackage
      <3>2. PICK q \in Stage(store, p)[a] : x = <<a, q.version>>
        BY <3>1
      <3>3. CASE q \in store[a]
        BY <3>2, <3>3, ReceiptOfPackage
      <3>4. CASE q \notin store[a]
        BY <1>2, <3>2, <3>4
      <3> QED BY <3>3, <3>4
    <2>2. ASSUME NEW x \in Receipts(store) PROVE x \in Receipts(Stage(store, p))
      <3>1. PICK a \in AssetIds : \E q \in store[a] : x = <<a, q.version>>
        BY <2>2, ReceiptOfPackage
      <3>2. PICK q \in store[a] : x = <<a, q.version>>
        BY <3>1
      <3>3. q \in Stage(store, p)[a]
        BY <1>2
      <3> QED BY <3>2, <3>3, ReceiptOfPackage
    <2>3. <<p.asset, p.version>> \in Receipts(Stage(store, p))
      BY <1>1, <1>2, ReceiptOfPackage
    <2> QED BY <2>1, <2>2, <2>3
  <1> QED BY <1>1, <1>2, <1>3, <1>5, <1>6

(* A batch is taken as a whole or leaves the store as it was.              *)
LEMMA BatchStep ==
    ASSUME AssimilationInv, NEW batch, NEW with_shards \in BOOLEAN,
           \/ \E p \in NativePackage : batch = <<p>>
           \/ \E p, q \in NativePackage : batch = <<p, q>>,
           commit_batch(batch, with_shards)
    PROVE  AssimilationInv'
  <1> DEFINE store == Committed(versions, batch, with_shards)
             new == {<<batch[n].asset, batch[n].version>> : n \in DOMAIN batch}
             taken == \A n \in DOMAIN batch : batch[n] \in store[batch[n].asset]
             Whole == /\ store \in [AssetIds -> SUBSET NativePackage] /\ OnePerVersion(store)
                      /\ \/ store = versions
                         \/ taken /\ Receipts(store) = Receipts(versions) \cup new
  <1>1. versions' = store /\ receipts_given' = receipts_given \cup (IF taken THEN new ELSE {})
        /\ UNCHANGED <<shardFiles, bundled, model, served>>
    BY DEF commit_batch
  <1>2. /\ versions \in [AssetIds -> SUBSET NativePackage] /\ OnePerVersion(versions)
        /\ receipts_given = Receipts(versions)
    BY DEF AssimilationInv, ReceiptFindsItsPackage, OnePerVersion, Receipts
  <1>3. \A n \in DOMAIN batch : batch[n] \in NativePackage /\ batch[n].asset \in AssetIds
    BY DEF NativePackage
  <1>4. ASSUME store = versions PROVE taken => new \subseteq Receipts(versions)
    <2> SUFFICES ASSUME taken, NEW n \in DOMAIN batch
                 PROVE  <<batch[n].asset, batch[n].version>> \in Receipts(versions)
      OBVIOUS
    <2>1. batch[n] \in versions[batch[n].asset] /\ batch[n].asset \in AssetIds
      BY <1>3, <1>4
    <2> QED BY <2>1, ReceiptOfPackage
  <1>5. Whole
    <2>1. ASSUME NEW p \in NativePackage, batch = <<p>>
          PROVE  Whole
      <3>1. CASE ~Accepted(versions, p, with_shards)
        BY <1>2, <2>1, <3>1 DEF Committed
      <3>2. CASE Accepted(versions, p, with_shards)
        <4>1. store = Stage(versions, p)
          BY <2>1, <3>2 DEF Committed
        <4>2. new = {<<p.asset, p.version>>} /\ DOMAIN batch = {1} /\ batch[1] = p
          BY <2>1
        <4> HIDE DEF store, new
        <4> QED BY <1>2, <3>2, <4>1, <4>2, StagedOnce
      <3> QED BY <3>1, <3>2
    <2>2. ASSUME NEW p \in NativePackage, NEW q \in NativePackage, batch = <<p, q>>
          PROVE  Whole
      <3> DEFINE one == Stage(versions, p)
      <3>1. CASE ~(Accepted(versions, p, with_shards) /\ Accepted(one, q, with_shards))
        BY <1>2, <2>2, <3>1 DEF Committed
      <3>2. CASE Accepted(versions, p, with_shards) /\ Accepted(one, q, with_shards)
        <4>1. store = Stage(one, q)
          BY <2>2, <3>2 DEF Committed
        <4>2. /\ new = {<<p.asset, p.version>>, <<q.asset, q.version>>}
              /\ DOMAIN batch = {1, 2} /\ batch[1] = p /\ batch[2] = q
          BY <2>2
        <4>3. /\ one \in [AssetIds -> SUBSET NativePackage] /\ OnePerVersion(one)
              /\ Receipts(one) = Receipts(versions) \cup {<<p.asset, p.version>>}
              /\ p \in one[p.asset]
          BY <1>2, <3>2, StagedOnce
        <4>4. p.asset \in AssetIds
          BY DEF NativePackage
        <4> HIDE DEF store, new, one
        <4>5. /\ store \in [AssetIds -> SUBSET NativePackage] /\ OnePerVersion(store)
              /\ Receipts(store) = Receipts(one) \cup {<<q.asset, q.version>>}
              /\ q \in store[q.asset] /\ one[p.asset] \subseteq store[p.asset]
          BY <3>2, <4>1, <4>3, <4>4, StagedOnce
        <4> QED BY <4>2, <4>3, <4>5
      <3> QED BY <3>1, <3>2
    <2> QED BY <2>1, <2>2
  <1>6. receipts_given' = Receipts(store)
    <2> HIDE DEF store, new, taken
    <2> QED BY <1>1, <1>2, <1>4, <1>5
  <1>7. ReceiptFindsItsPackage'
    <2> HIDE DEF store
    <2> QED BY <1>1, <1>5, <1>6 DEF ReceiptFindsItsPackage, OnePerVersion, Receipts
  <1> QED BY <1>1, <1>5, <1>7 DEF AssimilationInv, OpenModelServesSigned

(* Each operation of the forge, the store and the model.                   *)
LEMMA AssimilationStep ==
    ASSUME AssimilationInv, [AssimilationNext]_assimilationVars
    PROVE  AssimilationInv'
  <1>1. ASSUME NEW s \in SourcePackage, assimilate(s) PROVE AssimilationInv'
    <2>1. build_native_package(s) \in NativePackage
      BY DEF build_native_package, SourcePackage, NativePackage
    <2>2. commit_batch(<<build_native_package(s)>>, FALSE)
      BY <1>1 DEF assimilate
    <2> QED BY <2>1, <2>2, BatchStep
  <1>2. ASSUME NEW s \in SourcePackage, assimilate_streamed(s) PROVE AssimilationInv'
    <2>1. build_streamed_native_package(s) \in NativePackage
      BY DEF build_streamed_native_package, SourcePackage, NativePackage
    <2>2. commit_batch(<<build_streamed_native_package(s)>>, TRUE)
      BY <1>2 DEF assimilate_streamed
    <2> QED BY <2>1, <2>2, BatchStep
  <1>3. ASSUME NEW p \in NativePackage, NEW with_shards \in BOOLEAN,
               commit_batch(<<p>>, with_shards)
        PROVE  AssimilationInv'
    BY <1>3, BatchStep
  <1>4. ASSUME NEW p \in NativePackage, NEW q \in NativePackage, NEW with_shards \in BOOLEAN,
               commit_batch(<<p, q>>, with_shards)
        PROVE  AssimilationInv'
    BY <1>4, BatchStep
  <1>5. ASSUME UNCHANGED <<versions, receipts_given, bundled, model, served>>
        PROVE  AssimilationInv'
    BY <1>5 DEF AssimilationInv, ReceiptFindsItsPackage, OpenModelServesSigned
  <1>6. ASSUME NEW a \in AssetIds, NEW with_shards \in BOOLEAN, rollback(a, with_shards)
        PROVE  AssimilationInv'
    BY <1>5, <1>6 DEF rollback
  <1>7. ASSUME NEW b \in Bodies, persist_content_addressed(b) \/ shard_damaged(b)
        PROVE  AssimilationInv'
    BY <1>5, <1>7 DEF persist_content_addressed, shard_damaged
  <1>8. ASSUME UNCHANGED <<versions, receipts_given>>,
               bundled' \in {"none", "good", "bad"}, OpenModelServesSigned'
        PROVE  AssimilationInv'
    BY <1>8 DEF AssimilationInv, ReceiptFindsItsPackage
  <1>9. CASE bundled_damaged \/ prepareBundledModel
    BY <1>8, <1>9 DEF bundled_damaged, prepareBundledModel, AssimilationInv, OpenModelServesSigned
  <1>10. CASE open_chat_model
    BY <1>8, <1>10 DEF open_chat_model, read_hash_verified, AssimilationInv, OpenModelServesSigned
  <1>11. CASE resolve_tensor
    BY <1>8, <1>11 DEF resolve_tensor, read_hash_verified, AssimilationInv, OpenModelServesSigned
  <1>12. CASE model_process_death
    BY <1>8, <1>12 DEF model_process_death, AssimilationInv, OpenModelServesSigned
  <1>13. CASE UNCHANGED assimilationVars
    BY <1>5, <1>13 DEF assimilationVars
  <1> QED BY <1>1, <1>2, <1>3, <1>4, <1>6, <1>7, <1>9, <1>10, <1>11, <1>12, <1>13
          DEF AssimilationNext

(* The invariant of the forge, the store and the model.                    *)
LEMMA AssimilationHolds == AssimilationSpec => []AssimilationInv
  <1>1. AssimilationInit => AssimilationInv
    BY DEF AssimilationInit, AssimilationInv, ReceiptFindsItsPackage, OpenModelServesSigned
  <1>2. AssimilationInv /\ [AssimilationNext]_assimilationVars => AssimilationInv'
    BY AssimilationStep
  <1> QED BY <1>1, <1>2, PTL DEF AssimilationSpec

(* The receipts that VersionedAssetStore returned are those of the         *)
(* packages it holds, and no two packages share an asset and a version,    *)
(* whatever batches fail in the middle and whatever is rolled back.        *)
THEOREM ReceiptsMatchPackages == AssimilationSpec => []ReceiptFindsItsPackage
  <1>1. AssimilationInv => ReceiptFindsItsPackage
    BY DEF AssimilationInv
  <1> QED BY <1>1, AssimilationHolds, PTL

(* prepare_bundled_model takes no shard from under an open model, and the  *)
(* resolver hands out only tensors whose file verified as it was read.     *)
THEOREM ModelServesSigned == AssimilationSpec => []OpenModelServesSigned
  <1>1. AssimilationInv => OpenModelServesSigned
    BY DEF AssimilationInv
  <1> QED BY <1>1, AssimilationHolds, PTL

-----------------------------------------------------------------------------
(* Sovereign backups.                                                      *)

Objects == [digest : Capsules, sealed : BOOLEAN]

BackupType ==
    [kind : {"Full", "Thin", "State"}, manifest : SUBSET PortableAsset,
     manifest_sealed : BOOLEAN, objects : SUBSET Objects]

(* No passage changes what a sealed manifest lists, and the new device     *)
(* holds only objects that open.                                           *)
PortabilityInv ==
    /\ objects \in [Devices -> SUBSET Objects]
    /\ backups \in Seq(BackupType)
    /\ made \in Seq(SUBSET PortableAsset) /\ Len(made) = Len(backups)
    /\ \A n \in 1..Len(backups) : backups[n].manifest = made[n]
    /\ \A o \in objects["new"] : decrypt_record(o)

(* The step that RestoresAllOrNothing allows.                              *)
WholeRestore ==
    objects'["new"] # objects["new"] =>
        /\ restoredSet'.backup # 0 /\ restoredSet'.assets = made[restoredSet'.backup]
        /\ \A x \in restoredSet'.assets : Has(objects'["new"], x.capsule)
        /\ \A o \in objects'["new"] : decrypt_record(o)

(* Each operation on backups, and their passage.                           *)
LEMMA PortabilityStep ==
    ASSUME PortabilityInv, [PortabilityNext]_portabilityVars
    PROVE  PortabilityInv' /\ WholeRestore
  <1>0. DOMAIN backups = 1..Len(backups) /\ DOMAIN made = 1..Len(backups) /\ Len(backups) \in Nat
    BY LenProperties DEF PortabilityInv
  <1>1. ASSUME NEW kind \in {"Full", "Thin", "State"}, NEW a \in PortableAsset,
               NEW b \in PortableAsset, create(kind, a, b)
        PROVE  PortabilityInv' /\ WholeRestore
    <2> DEFINE assets == {x \in {a, b} : kind = "State" => is_stateful(x)}
               duplicate == a.class = b.class
               digests == {x.capsule : x \in IF duplicate THEN {a} ELSE assets}
               next == UNION {insert(objects["old"], c) : c \in digests}
               new == PortableBackup(kind, assets,
                         IF kind = "Thin" THEN {} ELSE {o \in objects'["old"] : o.digest \in digests})
    <2>1. digests \subseteq Capsules
      BY DEF PortableAsset
    <2>2. objects["old"] \in SUBSET Objects
      BY DEF PortabilityInv, Devices
    <2>3. \A c \in digests : insert(objects["old"], c) \in SUBSET Objects
      <3> SUFFICES ASSUME NEW c \in digests PROVE insert(objects["old"], c) \in SUBSET Objects
        OBVIOUS
      <3>1. c \in Capsules
        BY <2>1
      <3>2. EncryptedObject(c, TRUE) \in Objects
        BY <3>1 DEF EncryptedObject, Objects
      <3> HIDE DEF digests
      <3> QED BY <2>2, <3>2 DEF insert
    <2>4. next \in SUBSET Objects
      BY <2>3
    <2>5. objects' = [objects EXCEPT !["old"] = next]
      BY <1>1 DEF create
    <2> HIDE DEF next, digests
    <2>6. objects' \in [Devices -> SUBSET Objects] /\ objects'["new"] = objects["new"]
          /\ objects'["old"] \in SUBSET Objects
      BY <2>4, <2>5 DEF PortabilityInv, Devices
    <2>7. CASE duplicate
      <3>1. UNCHANGED <<backups, made>>
        BY <1>1, <2>7 DEF create
      <3> QED BY <2>6, <3>1 DEF PortabilityInv, WholeRestore
    <2>8. CASE ~duplicate
      <3>1. backups' = Append(backups, new) /\ made' = Append(made, assets)
        BY <1>1, <2>8 DEF create, digests
      <3>2. assets \in SUBSET PortableAsset
        OBVIOUS
      <3>3. new \in BackupType /\ new.manifest = assets
        <4>1. (IF kind = "Thin" THEN {} ELSE {o \in objects'["old"] : o.digest \in digests})
                \in SUBSET Objects
          BY <2>6
        <4> HIDE DEF assets
        <4> QED BY <3>2, <4>1 DEF PortableBackup, BackupType
      <3> HIDE DEF new, assets
      <3>4. /\ backups' \in Seq(BackupType) /\ made' \in Seq(SUBSET PortableAsset)
            /\ Len(made') = Len(backups')
            /\ \A n \in 1..Len(backups') : backups'[n].manifest = made'[n]
        BY <1>0, <3>1, <3>2, <3>3 DEF PortabilityInv
      <3> QED BY <2>6, <3>4 DEF PortabilityInv, WholeRestore
    <2> QED BY <2>7, <2>8
  <1>2. ASSUME NEW n \in DOMAIN backups, passage(n) PROVE PortabilityInv' /\ WholeRestore
    <2>1. backups[n] \in BackupType /\ n \in 1..Len(backups)
      BY <1>0 DEF PortabilityInv
    <2>2. UNCHANGED <<objects, made, restoredSet>>
      BY <1>2 DEF passage
    <2>3. PICK b \in BackupType : backups' = [backups EXCEPT ![n] = b]
                                  /\ b.manifest = backups[n].manifest
      <3>1. ASSUME NEW os \in SUBSET Objects, backups' = [backups EXCEPT ![n].objects = os]
            PROVE  \E b \in BackupType : backups' = [backups EXCEPT ![n] = b]
                                          /\ b.manifest = backups[n].manifest
        <4>1. [backups[n] EXCEPT !.objects = os] \in BackupType
          BY <2>1 DEF BackupType
        <4>2. [backups[n] EXCEPT !.objects = os].manifest = backups[n].manifest
          BY <2>1 DEF BackupType
        <4> QED BY <3>1, <4>1, <4>2
      <3>2. ASSUME backups' = [backups EXCEPT ![n].manifest_sealed = FALSE]
            PROVE  \E b \in BackupType : backups' = [backups EXCEPT ![n] = b]
                                          /\ b.manifest = backups[n].manifest
        <4>1. [backups[n] EXCEPT !.manifest_sealed = FALSE] \in BackupType
          BY <2>1 DEF BackupType
        <4>2. [backups[n] EXCEPT !.manifest_sealed = FALSE].manifest = backups[n].manifest
          BY <2>1 DEF BackupType
        <4> QED BY <3>2, <4>1, <4>2
      <3>3. backups[n].objects \in SUBSET Objects
        BY <2>1 DEF BackupType
      <3>4. ASSUME NEW o \in backups[n].objects
            PROVE  /\ backups[n].objects \ {o} \in SUBSET Objects
                   /\ (backups[n].objects \ {o}) \cup {EncryptedObject(o.digest, FALSE)} \in SUBSET Objects
        <4>1. o.digest \in Capsules
          BY <3>3 DEF Objects
        <4>2. EncryptedObject(o.digest, FALSE) \in Objects
          BY <4>1 DEF EncryptedObject, Objects
        <4> QED BY <3>3, <4>2
      <3>5. \A m \in DOMAIN backups : backups[m].objects \in SUBSET Objects
        <4>1. \A m \in DOMAIN backups : backups[m] \in BackupType
          BY <1>0 DEF PortabilityInv
        <4> QED BY <4>1 DEF BackupType
      <3>6. ASSUME NEW o \in backups[n].objects,
                   backups' = [backups EXCEPT ![n].objects =
                       (@ \ {o}) \cup {EncryptedObject(o.digest, FALSE)}]
            PROVE  \E b \in BackupType : backups' = [backups EXCEPT ![n] = b]
                                          /\ b.manifest = backups[n].manifest
        BY <3>1, <3>4, <3>6, ZenonT(60)
      <3>7. ASSUME NEW o \in backups[n].objects,
                   backups' = [backups EXCEPT ![n].objects = @ \ {o}]
            PROVE  \E b \in BackupType : backups' = [backups EXCEPT ![n] = b]
                                          /\ b.manifest = backups[n].manifest
        BY <3>1, <3>4, <3>7, ZenonT(60)
      <3> QED BY <1>2, <3>1, <3>2, <3>5, <3>6, <3>7 DEF passage
    <2>4. backups' \in Seq(BackupType) /\ Len(backups') = Len(backups)
          /\ \A m \in 1..Len(backups) : backups'[m].manifest = backups[m].manifest
      BY <2>1, <2>3, ExceptSeq DEF PortabilityInv
    <2> QED BY <2>2, <2>4 DEF PortabilityInv, WholeRestore
  <1>3. ASSUME NEW n \in DOMAIN backups, restore_backup(n) PROVE PortabilityInv' /\ WholeRestore
    <2>1. backups[n] \in BackupType /\ n \in 1..Len(backups) /\ n # 0
          /\ backups[n].manifest = made[n]
      BY <1>0 DEF PortabilityInv
    <2>2. PICK staged \in ImportAll(objects["new"], backups[n].objects) :
             /\ \A a \in backups[n].manifest : get(staged, a.capsule)
             /\ objects' = [objects EXCEPT !["new"] = staged]
             /\ restoredSet' = [backup |-> n, assets |-> backups[n].manifest]
      BY <1>3 DEF restore_backup
    <2>3. UNCHANGED <<backups, made>>
      BY <1>3 DEF restore_backup
    <2>4. /\ \A o \in backups[n].objects : decrypt_record(o)
          /\ staged = objects["new"] \cup {o \in backups[n].objects : ~Has(objects["new"], o.digest)}
      BY <2>2 DEF ImportAll
    <2>5. staged \in SUBSET Objects /\ \A o \in staged : decrypt_record(o)
      BY <2>1, <2>4 DEF PortabilityInv, BackupType, Devices
    <2>6. objects' \in [Devices -> SUBSET Objects] /\ objects'["new"] = staged
      BY <2>2, <2>5 DEF PortabilityInv, Devices
    <2>7. \A x \in restoredSet'.assets : Has(staged, x.capsule)
      BY <2>2 DEF get, Has
    <2> QED BY <2>1, <2>2, <2>3, <2>5, <2>6, <2>7 DEF PortabilityInv, WholeRestore
  <1>4. CASE UNCHANGED portabilityVars
    BY <1>4 DEF portabilityVars, PortabilityInv, WholeRestore
  <1> QED BY <1>1, <1>2, <1>3, <1>4 DEF PortabilityNext

(* restore_backup changes the new device's store only together with all    *)
(* the assets the backup was made of, and never takes in an object that    *)
(* does not open, whatever happened to the backup on its way.              *)
THEOREM RestoreIsWhole == PortabilitySpec => RestoresAllOrNothing
  <1>1. PortabilityInit => PortabilityInv
    BY DEF PortabilityInit, PortabilityInv, Devices
  <1>2. PortabilityInv /\ [PortabilityNext]_portabilityVars
          => PortabilityInv' /\ [WholeRestore]_portabilityVars
    BY PortabilityStep
  <1> QED BY <1>1, <1>2, PTL DEF PortabilitySpec, RestoresAllOrNothing, WholeRestore
=============================================================================
