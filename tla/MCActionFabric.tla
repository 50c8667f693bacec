--------------------------- MODULE MCActionFabric ---------------------------
(* Instances of ActionFabric for TLC.                                       *)
EXTENDS ActionFabric

CONSTANTS read, file, post   \* device.observe, file.write, browser.interact

MCCapabilities == {read, file, post}

MCSideEffect ==
    [c \in MCCapabilities |->
        CASE c = read -> "ReadOnly" [] c = file -> "Reversible" [] c = post -> "ExternalWrite"]

MCVerificationRequired == [c \in MCCapabilities |-> c # read]
MCRollbackSupported == [c \in MCCapabilities |-> c = file]
MCResumable == [c \in MCCapabilities |-> c = file]
MCRequiredScopes == [c \in MCCapabilities |-> {c}]

MCGrants ==
    {[scopes |-> MCCapabilities, allow_external_write |-> TRUE, allow_irreversible |-> FALSE],
     [scopes |-> {read, file}, allow_external_write |-> FALSE, allow_irreversible |-> FALSE]}

MCNode(c) == [capability |-> c, side_effect |-> MCSideEffect[c],
              verification_required |-> c # read, malformed |-> FALSE]

(* Two writes that can be undone, and one with a node whose contract does  *)
(* not agree with its descriptor.                                          *)
TwoFiles == {<<MCNode(file), MCNode(file)>>,
             <<[MCNode(file) EXCEPT !.verification_required = FALSE]>>}

(* A write that cannot be undone and one that can; and a read, so that     *)
(* several plans share the id counter up to its limit.                     *)
PostFileRead == {<<MCNode(post), MCNode(file)>>, <<MCNode(read)>>}

AllGraphs == TwoFiles \cup PostFileRead

OneFile == {<<MCNode(file)>>}
=============================================================================
