---------------------------- MODULE Portability -----------------------------
(***************************************************************************)
(* Sovereign backups: the encrypted, content-addressed object stores of    *)
(* two devices with the same key (store.rs, crypto.rs), the backups that   *)
(* one makes of its assets (asset.rs, backup.rs), and their restoration on *)
(* the other, after a passage in which they may be damaged.                *)
(*                                                                         *)
(* A capsule stands for its digest.  A sealed object or manifest opens to  *)
(* what was sealed, with the key, nonce and associated data it was sealed  *)
(* with, or not at all: a damaged one has sealed = FALSE.                  *)
(***************************************************************************)
EXTENDS Integers, Sequences

CONSTANTS
    Capsules,    \* contents, each with its digest and its length
    MaxBackups   \* bound: the backups that are made

ASSUME PortabilityAssumption == MaxBackups \in Nat

VARIABLES
    objects,     \* device -> the objects of its store
    backups,     \* the backups made, as they are now
    made,        \* the assets that each was made of (history)
    restoredSet  \* what the last restoration returned, and of which backup

portabilityVars == <<objects, backups, made, restoredSet>>

Devices == {"old", "new"}

(* A stateless and a stateful one of the four.                             *)
AssetClass == {"Model", "Memory"}

is_stateful(asset) == asset.class = "Memory"

(* One id and version of each class, so the class tells assets apart.      *)
PortableAsset == [class : AssetClass, capsule : Capsules]

EncryptedObject(digest, sealed) == [digest |-> digest, sealed |-> sealed]

PortabilityInit ==
    /\ objects = [d \in Devices |-> {}]
    /\ backups = <<>> /\ made = <<>>
    /\ restoredSet = [backup |-> 0, assets |-> {}]

-----------------------------------------------------------------------------
(* decrypt_record: it opens, and to the content with that digest.          *)
decrypt_record(object) == object.sealed

Has(store, digest) == \E o \in store : o.digest = digest

(* A capsule that is there already has to open.                            *)
insert(store, digest) ==
    IF Has(store, digest) THEN store ELSE store \cup {EncryptedObject(digest, TRUE)}

get(store, digest) == \E o \in store : o.digest = digest /\ decrypt_record(o)

(* The store with the objects of a backup, or none: every one must open,   *)
(* and one that the store has stays as it is.                              *)
ImportAll(store, new) ==
    IF \A o \in new : decrypt_record(o)
    THEN {store \cup {o \in new : ~Has(store, o.digest)}} ELSE {}

-----------------------------------------------------------------------------
(* Backups.                                                                *)

PortableBackup(kind, assets, object_set) ==
    [kind |-> kind, manifest |-> assets, manifest_sealed |-> TRUE, objects |-> object_set]

(* PortableBackupBuilder::create, for a list of two.  What was inserted    *)
(* before a duplicate is found stays in the store; a thin backup holds no  *)
(* objects.                                                                *)
create(kind, a, b) ==
    LET assets == {x \in {a, b} : kind = "State" => is_stateful(x)}
        duplicate == a.class = b.class
        digests == {x.capsule : x \in IF duplicate THEN {a} ELSE assets}
    IN  /\ assets # {} /\ Len(backups) < MaxBackups
        /\ \A c \in digests : Has(objects["old"], c) => get(objects["old"], c)
        /\ objects' = [objects EXCEPT !["old"] = UNION {insert(@, c) : c \in digests}]
        /\ IF duplicate
           THEN UNCHANGED <<backups, made>>
           ELSE /\ backups' = Append(backups, PortableBackup(kind, assets,
                                IF kind = "Thin" THEN {}
                                ELSE {o \in objects'["old"] : o.digest \in digests}))
                /\ made' = Append(made, assets)
        /\ UNCHANGED restoredSet

(* A backup on its way: an object or the manifest is damaged, an object is *)
(* lost, or the objects of another backup are put into it.                 *)
passage(n) ==
    /\ \/ \E o \in backups[n].objects :
            backups' = [backups EXCEPT ![n].objects =
                (@ \ {o}) \cup {EncryptedObject(o.digest, FALSE)}]
       \/ \E o \in backups[n].objects : backups' = [backups EXCEPT ![n].objects = @ \ {o}]
       \/ backups' = [backups EXCEPT ![n].manifest_sealed = FALSE]
       \/ \E m \in DOMAIN backups : backups' = [backups EXCEPT ![n].objects = backups[m].objects]
    /\ UNCHANGED <<objects, made, restoredSet>>

(* Mutant: the objects go into the store as they are imported.             *)
restore_backup_unstaged(n) ==
    /\ \E staged \in ImportAll(objects["new"], backups[n].objects) :
        /\ objects' = [objects EXCEPT !["new"] = staged]
        /\ IF backups[n].manifest_sealed
              /\ \A a \in backups[n].manifest : get(staged, a.capsule)
           THEN restoredSet' = [backup |-> n, assets |-> backups[n].manifest]
           ELSE UNCHANGED restoredSet
    /\ UNCHANGED <<backups, made>>

(* The objects are imported into a copy of the store, the manifest opens,  *)
(* its assets are all found; only then is the copy the store.              *)
restore_backup(n) ==
    /\ backups[n].manifest_sealed
    /\ \E staged \in ImportAll(objects["new"], backups[n].objects) :
        /\ \A a \in backups[n].manifest : get(staged, a.capsule)
        /\ objects' = [objects EXCEPT !["new"] = staged]
        /\ restoredSet' = [backup |-> n, assets |-> backups[n].manifest]
    /\ UNCHANGED <<backups, made>>

PortabilityNext ==
    \/ (\E kind \in {"Full", "Thin", "State"}, a, b \in PortableAsset : create(kind, a, b))
    \/ (\E n \in DOMAIN backups : passage(n) \/ restore_backup(n))

PortabilitySpec == PortabilityInit /\ [][PortabilityNext]_portabilityVars

-----------------------------------------------------------------------------
(* A restoration is whole: the store of the new device changes only        *)
(* together with a result that is all of what the backup was made of, and  *)
(* every object it then has opens, so that none that was damaged on its    *)
(* way can sit there under a digest and block the capsule.                 *)
RestoresAllOrNothing ==
    [][objects'["new"] # objects["new"] =>
        /\ restoredSet'.backup # 0 /\ restoredSet'.assets = made[restoredSet'.backup]
        /\ \A x \in restoredSet'.assets : Has(objects'["new"], x.capsule)
        /\ \A o \in objects'["new"] : decrypt_record(o)]_portabilityVars
=============================================================================
