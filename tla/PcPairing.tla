----------------------------- MODULE PcPairing ------------------------------
(***************************************************************************)
(* The paired-PC profiles on the phone: provisioning, describing, revoking *)
(* and listing them from the settings activity, which runs on the main     *)
(* thread, while an action plan on the chat thread loads one to connect.   *)
(*                                                                         *)
(* A profile pins the desktop's identity and holds the phone's own seed;   *)
(* the seed, drawn anew by every provisioning, stands for the whole body.  *)
(* A profile file is created, written and synced in steps, so that the     *)
(* chat thread or a process death can find it in the middle.               *)
(*                                                                         *)
(* The profiles lie below the root of the file.write and artifact.download *)
(* adapters, which keep no path of it from a plan: the chat thread may     *)
(* also replace, remove or put back a profile file at any moment.          *)
(***************************************************************************)
EXTENDS Integers

CONSTANTS
    Aliases,     \* well-formed peer aliases
    MaxSeeds     \* bound: how often a profile is provisioned

ASSUME PcPairingAssumption == MaxSeeds \in Nat

VARIABLES
    profiles,    \* alias -> NoProfile, or the seed and whether all is written
    provisioning,\* the call under way: its alias and stage, or NoCall
    nextSeed,    \* the next seed of os_random
    receipt,     \* the public identity on the screen: an alias and a seed
    connection,  \* the profile that the chat thread connected with
    paired,      \* alias -> the seed the user was told of and has not asked
                 \* to revoke since, or 0 (history)
    overwritten  \* the aliases whose file a plan changed since (history)

pairingVars ==
    <<profiles, provisioning, nextSeed, receipt, connection, paired, overwritten>>

NoProfile == [seed |-> 0, whole |-> FALSE]
NoCall == [alias |-> "none", stage |-> "idle", seed |-> 0]
NoReceipt == [alias |-> "none", seed |-> 0]

PairingInit ==
    /\ profiles = [a \in Aliases |-> NoProfile]
    /\ provisioning = NoCall /\ nextSeed = 1
    /\ receipt = NoReceipt /\ connection = NoProfile
    /\ paired = [a \in Aliases |-> 0] /\ overwritten = {}

(* A profile loads when its seven lines are there, the last of them END.   *)
load_pc_pair_profile(a) == profiles[a] # NoProfile /\ profiles[a].whole

list_pc_pair_profiles == {a \in Aliases : load_pc_pair_profile(a)}

(* Removes the target; this may fail like any other write.                 *)
rollback_pc_pair_commit(a) ==
    \/ profiles' = [profiles EXCEPT ![a] = NoProfile]
    \/ UNCHANGED profiles

Failed(a) ==
    /\ rollback_pc_pair_commit(a)
    /\ provisioning' = NoCall
    /\ UNCHANGED <<nextSeed, receipt, connection, paired, overwritten>>

(* Mutant: an alias in use is found out by create_new, whose failure is    *)
(* rolled back like any other.                                             *)
provision_pc_pair_profile_late(a) ==
    /\ provisioning = NoCall /\ nextSeed <= MaxSeeds
    /\ provisioning' = [alias |-> a, stage |-> "checked", seed |-> nextSeed]
    /\ nextSeed' = nextSeed + 1
    /\ UNCHANGED <<profiles, receipt, connection, paired, overwritten>>

(* The call begins: an alias in use is refused before anything is written. *)
provision_pc_pair_profile(a) ==
    /\ provisioning = NoCall /\ nextSeed <= MaxSeeds
    /\ profiles[a] = NoProfile
    /\ provisioning' = [alias |-> a, stage |-> "checked", seed |-> nextSeed]
    /\ nextSeed' = nextSeed + 1
    /\ UNCHANGED <<profiles, receipt, connection, paired, overwritten>>

(* The file is created without replacement; what a plan has put there      *)
(* since the check makes this fail, and the rollback removes it.           *)
create_profile ==
    /\ provisioning.stage = "checked"
    /\ \/ /\ profiles[provisioning.alias] = NoProfile
          /\ profiles' = [profiles EXCEPT ![provisioning.alias] =
                                [seed |-> provisioning.seed, whole |-> FALSE]]
          /\ provisioning' = [provisioning EXCEPT !.stage = "created"]
          /\ UNCHANGED <<nextSeed, receipt, connection, paired, overwritten>>
       \/ Failed(provisioning.alias)

(* What is at the path once the created file, of which only the seed is    *)
(* known, was written.  A plan that renamed another file over it keeps     *)
(* that one; an undo that wrote into it leaves a mixture, which may load.  *)
Written(p, seed) ==
    IF p = [seed |-> seed, whole |-> FALSE]
    THEN {[seed |-> seed, whole |-> TRUE]}
    ELSE {p} \cup {q \in [seed : {seed}, whole : BOOLEAN] : p # NoProfile}

write_profile ==
    /\ provisioning.stage = "created"
    /\ \/ /\ \E p \in Written(profiles[provisioning.alias], provisioning.seed) :
                profiles' = [profiles EXCEPT ![provisioning.alias] = p]
          /\ provisioning' = [provisioning EXCEPT !.stage = "written"]
          /\ UNCHANGED <<nextSeed, receipt, connection, paired, overwritten>>
       \/ Failed(provisioning.alias)

(* The syncs succeed, the reload finds what was to be written and the      *)
(* receipt is shown, or the file is taken back.                            *)
reload_profile ==
    /\ provisioning.stage = "written"
    /\ \/ /\ load_pc_pair_profile(provisioning.alias)
          /\ profiles[provisioning.alias].seed = provisioning.seed
          /\ receipt' = [alias |-> provisioning.alias, seed |-> provisioning.seed]
          /\ paired' = [paired EXCEPT ![provisioning.alias] = provisioning.seed]
          /\ overwritten' = overwritten \ {provisioning.alias}
          /\ provisioning' = NoCall
          /\ UNCHANGED <<profiles, nextSeed, connection>>
       \/ Failed(provisioning.alias)

describe_pc_pair_profile(a) ==
    /\ provisioning = NoCall /\ load_pc_pair_profile(a)
    /\ receipt' = [alias |-> a, seed |-> profiles[a].seed]
    /\ UNCHANGED <<profiles, provisioning, nextSeed, connection, paired, overwritten>>

(* Whatever is there is removed, a torn file too; the screen forgets its   *)
(* receipt.  When the sync of the directory fails the file is gone, and    *)
(* the screen keeps the receipt.                                           *)
revoke_pc_pair_profile(a) ==
    /\ provisioning = NoCall /\ profiles[a] # NoProfile
    /\ profiles' = [profiles EXCEPT ![a] = NoProfile]
    /\ \/ receipt' = NoReceipt
       \/ UNCHANGED receipt
    /\ paired' = [paired EXCEPT ![a] = 0]
    /\ UNCHANGED <<provisioning, nextSeed, connection, overwritten>>

(* The chat thread, at any moment.                                         *)
connect_peer(a) ==
    /\ load_pc_pair_profile(a)
    /\ connection' = profiles[a]
    /\ UNCHANGED <<profiles, provisioning, nextSeed, receipt, paired, overwritten>>

(* A file of a plan: no profile at all, one with a seed from elsewhere, or *)
(* what the path held before.                                              *)
PlanFile == [seed : 1..(nextSeed - 1) \cup {MaxSeeds + 1}, whole : BOOLEAN]

(* file.write and artifact.download replace the file below the profile's   *)
(* path; their undo puts the file before it back or removes it.            *)
write_atomic_or_rollback_write(a) ==
    /\ \E p \in PlanFile \cup {NoProfile} : profiles' = [profiles EXCEPT ![a] = p]
    /\ overwritten' = overwritten \cup {a}
    /\ UNCHANGED <<provisioning, nextSeed, receipt, connection, paired>>

(* A file in the middle of its provisioning stays as it is.                *)
pairing_process_death ==
    /\ provisioning' = NoCall /\ receipt' = NoReceipt /\ connection' = NoProfile
    /\ UNCHANGED <<profiles, nextSeed, paired, overwritten>>

PairingNext ==
    \/ (\E a \in Aliases :
            \/ provision_pc_pair_profile(a) \/ describe_pc_pair_profile(a)
            \/ revoke_pc_pair_profile(a)
            \/ connect_peer(a) \/ write_atomic_or_rollback_write(a))
    \/ create_profile \/ write_profile \/ reload_profile \/ pairing_process_death

PairingSpec == PairingInit /\ [][PairingNext]_pairingVars

-----------------------------------------------------------------------------
(* A pairing that the user was told of stays, with the identity he was     *)
(* told, until he revokes it: no provisioning that is refused or fails,    *)
(* and no rollback of one, takes it away or replaces it.  Only a plan that *)
(* writes the profile's own path does (overwritten); yet even if it writes *)
(* in the middle of a provisioning, the receipt that ends it is of the     *)
(* file that is there.  And the chat thread never connects with a part of  *)
(* a profile, though it may look in the middle of a provisioning or find   *)
(* what a death left behind.                                               *)
PairedUntilRevoked ==
    /\ \A a \in Aliases :
        paired[a] # 0 /\ a \notin overwritten =>
            profiles[a] = [seed |-> paired[a], whole |-> TRUE]
    /\ connection # NoProfile => connection.whole
=============================================================================
