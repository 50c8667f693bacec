---------------------------- MODULE Assimilation ----------------------------
(***************************************************************************)
(* The capability forge and the native model: a source is vetted, imported *)
(* and packed (forge.rs, importer.rs, sandbox.rs, package.rs), packages    *)
(* are committed in batches to the versioned asset store (store.rs), the   *)
(* tensors of a thin package are shard files named by their hash           *)
(* (shards.rs), and the bundled model of the app is copied out, verified,  *)
(* activated and then read tensor by tensor (activation.rs, lib.rs).       *)
(*                                                                         *)
(* A body stands for all that a capsule holds; the tensors of the thin     *)
(* package with body b are in the shard file b.  A file holds what was     *)
(* hashed ("good") or something else ("bad").                              *)
(***************************************************************************)
EXTENDS Integers, Sequences

CONSTANTS
    AssetIds,      \* ids of assets
    Bodies,        \* contents of capsules
    MaxVersion     \* bound: the versions a source may ask for

ASSUME AssimilationAssumption == MaxVersion \in Nat

VARIABLES
    versions,      \* asset id -> the committed packages
    active,        \* asset id -> the active version, or 0
    receipts_given,\* the <<asset id, version>> of every receipt returned
    shardFiles,    \* the forge's shards: body -> "none", "good" or "bad"
    bundled,       \* the shard of the bundled model, likewise
    model,         \* the open chat model: "closed", "copying" or "open"
    served         \* what the resolver handed to the executor

assimilationVars == <<versions, active, receipts_given, shardFiles, bundled, model, served>>

NativePackage ==
    [asset : AssetIds, version : 1..MaxVersion, kind : {"Capability", "Intelligence"},
     capsule : {"Full", "Thin"}, body : Bodies, signed : BOOLEAN]

AssimilationInit ==
    /\ versions = [a \in AssetIds |-> {}] /\ active = [a \in AssetIds |-> 0]
    /\ receipts_given = {} /\ served = {} /\ model = "closed"
    /\ shardFiles = [b \in Bodies |-> "none"] /\ bundled = "none"

-----------------------------------------------------------------------------
(* Shards.                                                                 *)

(* Mutant: the file is trusted.                                            *)
read_hash_verified_trusting(file) == file # "none"

(* A shard is read only with the length and the hash it is named by.       *)
read_hash_verified(file) == file = "good"

(* Written to a temporary file and renamed; an existing file is compared,  *)
(* and one that does not have its hash is refused, not replaced.           *)
persist_content_addressed(b) ==
    /\ shardFiles[b] = "none"
    /\ shardFiles' = [shardFiles EXCEPT ![b] = "good"]
    /\ UNCHANGED <<versions, active, receipts_given, bundled, model, served>>

(* Something outside the program damages or deletes a file.                *)
shard_damaged(b) ==
    /\ shardFiles[b] # "none"
    /\ \E f \in {"bad", "none"} : shardFiles' = [shardFiles EXCEPT ![b] = f]
    /\ UNCHANGED <<versions, active, receipts_given, bundled, model, served>>

bundled_damaged ==
    /\ bundled = "good"
    /\ bundled' = "bad"
    /\ UNCHANGED <<versions, active, receipts_given, shardFiles, model, served>>

-----------------------------------------------------------------------------
(* Packages.                                                               *)

activate_thin_generative_capsule(p) == read_hash_verified(shardFiles[p.body])

(* Signed by the trusted key over its sections, its log naming the asset,  *)
(* the version and the kind.                                               *)
verify_native_package(p) == p.capsule = "Full" /\ p.signed

verify_native_package_with_shards(p) ==
    /\ p.kind = "Intelligence" /\ p.signed
    /\ p.capsule = "Thin" => activate_thin_generative_capsule(p)

Latest(store, a) == {p.version : p \in store[a]}

Accepted(store, p, with_shards) ==
    /\ IF with_shards THEN verify_native_package_with_shards(p)
                      ELSE verify_native_package(p)
    /\ \A v \in Latest(store, p.asset) : p.version > v

Stage(store, p) == [store EXCEPT ![p.asset] = @ \cup {p}]

(* Mutant: a batch is committed package by package.                        *)
Committed_in_place(store, batch, with_shards) ==
    IF ~Accepted(store, batch[1], with_shards) THEN store
    ELSE IF Len(batch) = 2 /\ Accepted(Stage(store, batch[1]), batch[2], with_shards)
         THEN Stage(Stage(store, batch[1]), batch[2])
    ELSE Stage(store, batch[1])

(* The store after a batch of one or two: all of it, or what was there.    *)
Committed(store, batch, with_shards) ==
    LET one == Stage(store, batch[1])
    IN  IF ~Accepted(store, batch[1], with_shards) THEN store
        ELSE IF Len(batch) = 1 THEN one
        ELSE IF Accepted(one, batch[2], with_shards) THEN Stage(one, batch[2])
        ELSE store

(* A receipt for every package of a batch that was taken as a whole.       *)
commit_batch(batch, with_shards) ==
    LET store == Committed(versions, batch, with_shards)
        taken == \A n \in DOMAIN batch : batch[n] \in store[batch[n].asset]
    IN  /\ versions' = store
        /\ active' = [a \in AssetIds |->
                        IF store[a] = versions[a] THEN active[a]
                        ELSE CHOOSE v \in {p.version : p \in store[a]} :
                                \A p \in store[a] : p.version <= v]
        /\ receipts_given' = receipts_given \cup
                IF taken THEN {<<batch[n].asset, batch[n].version>> : n \in DOMAIN batch}
                         ELSE {}
        /\ UNCHANGED <<shardFiles, bundled, model, served>>

(* An older version becomes the active one when it still verifies.         *)
rollback(a, with_shards) ==
    /\ \E p \in versions[a] :
        /\ IF with_shards THEN verify_native_package_with_shards(p)
                          ELSE verify_native_package(p)
        /\ active' = [active EXCEPT ![a] = p.version]
    /\ UNCHANGED <<versions, receipts_given, shardFiles, bundled, model, served>>

(* What a source may turn out to be.  A flawed one fails at the gate that  *)
(* its flaw names, and leaves no trace.                                    *)
SourcePackage ==
    [asset : AssetIds, version : 1..MaxVersion, kind : {"Capability", "Intelligence"},
     body : Bodies,
     flaw : {"none", "license", "digest", "size", "importer", "regression", "isolation"}]

validate_source(s) == s.flaw \notin {"license", "digest", "size"}

(* Discovery and import name the same importer, kind and asset.            *)
discover_and_import(s) == s.flaw # "importer"

(* Every regression of the candidate passes, without network or writes.    *)
sandbox_validate(s) == s.flaw \notin {"regression", "isolation"}

(* The graph or the capability, the provenance and the log, signed.        *)
build_native_package(s) ==
    [asset |-> s.asset, version |-> s.version, kind |-> s.kind,
     capsule |-> "Full", body |-> s.body, signed |-> TRUE]

(* Likewise for a lowered model, whose tensors stay in their shards.       *)
build_streamed_native_package(s) ==
    [asset |-> s.asset, version |-> s.version, kind |-> "Intelligence",
     capsule |-> "Thin", body |-> s.body, signed |-> TRUE]

assimilate(s) ==
    /\ validate_source(s) /\ discover_and_import(s) /\ sandbox_validate(s)
    /\ verify_native_package(build_native_package(s))
    /\ commit_batch(<<build_native_package(s)>>, FALSE)

(* A model that was lowered to shards: built, which verifies it with them, *)
(* and committed with them.                                                *)
assimilate_streamed(s) ==
    /\ sandbox_validate(s)
    /\ verify_native_package_with_shards(build_streamed_native_package(s))
    /\ commit_batch(<<build_streamed_native_package(s)>>, TRUE)

-----------------------------------------------------------------------------
(* The bundled model.                                                      *)

(* chatReady, which is synchronized, deletes what a former run left and    *)
(* copies the files of the app; not again once a model is open.            *)
prepareBundledModel ==
    /\ model = "closed"
    /\ model' = "copying"
    /\ bundled' = "none"
    /\ UNCHANGED <<versions, active, receipts_given, shardFiles, served>>

(* The copy ends, and the model is verified and opened, or it stays closed.*)
open_chat_model ==
    /\ model = "copying"
    /\ bundled' \in {"none", "good", "bad"}
    /\ model' = IF read_hash_verified(bundled') THEN "open" ELSE "closed"
    /\ UNCHANGED <<versions, active, receipts_given, shardFiles, served>>

(* FileBackedTensorResolver: every tensor is verified again as it is read; *)
(* one that does not verify fails the generation.                          *)
resolve_tensor ==
    /\ model = "open"
    /\ served' = served \cup
            {IF read_hash_verified(bundled) THEN bundled ELSE "refused"}
    /\ UNCHANGED <<versions, active, receipts_given, shardFiles, bundled, model>>

model_process_death ==
    /\ model' = "closed" /\ served' = {}
    /\ UNCHANGED <<versions, active, receipts_given, shardFiles, bundled>>

AssimilationNext ==
    \/ (\E s \in SourcePackage : assimilate(s) \/ assimilate_streamed(s))
    \/ (\E p \in NativePackage, with_shards \in BOOLEAN : commit_batch(<<p>>, with_shards))
    \/ (\E p, q \in NativePackage, with_shards \in BOOLEAN :
            commit_batch(<<p, q>>, with_shards))
    \/ (\E a \in AssetIds, with_shards \in BOOLEAN : rollback(a, with_shards))
    \/ (\E b \in Bodies : persist_content_addressed(b) \/ shard_damaged(b)) \/ bundled_damaged
    \/ prepareBundledModel \/ open_chat_model \/ resolve_tensor \/ model_process_death

AssimilationSpec == AssimilationInit /\ [][AssimilationNext]_assimilationVars

-----------------------------------------------------------------------------
(* Receipts and packages correspond one to one: a batch that fails in the  *)
(* middle leaves nothing behind, and not even after a rollback to an older *)
(* version can another package take a number that is in use, so that a     *)
(* receipt always finds what it was given for.                             *)
ReceiptFindsItsPackage ==
    /\ receipts_given = UNION {{<<a, p.version>> : p \in versions[a]} : a \in AssetIds}
    /\ \A a \in AssetIds : \A p, q \in versions[a] : p.version = q.version => p = q

(* While a model is open nothing in the app takes its shards away, and the *)
(* executor is never given a tensor that differs from the signed one,      *)
(* though the file may change after the model was verified and opened.     *)
OpenModelServesSigned ==
    /\ model = "open" => bundled # "none"
    /\ "bad" \notin served
=============================================================================
