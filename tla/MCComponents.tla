---------------------------- MODULE MCComponents ----------------------------
(***************************************************************************)
(* One instance of each component that shares no state with the others     *)
(* (ActionFabric and ChatSession have instances of their own).             *)
(* `focus`, chosen once, is the component that moves; the others stay in   *)
(* their initial states, so that the states of this instance are those of  *)
(* the components one after the other, never their product.                *)
(***************************************************************************)
EXTENDS CognitiveHost, Conversation, Browser, WebSearch, Artifacts, ActionPlanning,
        Continuity, PcFabric, PcPairing, Assimilation, Portability, Compute, Generation, TLC

CONSTANTS urlA, urlB    \* two URLs
VARIABLE focus

(* Two pages of different origins.                                         *)
MCOrigin == (urlA :> "A") @@ (urlB :> "B")

(* A page of results: up to three, one address of which is not public.     *)
MCItems == {[url |-> 1, public |-> TRUE], [url |-> 2, public |-> TRUE],
            [url |-> 3, public |-> FALSE]}
MCPages == UNION {[1..n -> MCItems] : n \in 0..3}

(* Plans that write, fetch and send the same path in several orders.       *)
File(op, content) == [op |-> op, path |-> "p", content |-> content]
MCFilePlans ==
    { <<File("download", "x")>>,
      <<File("write", "x"), File("download", "y")>>,
      <<File("upload", "x"), File("write", "y")>>,
      <<File("write", "y"), File("upload", "x"), File("grant_write", "x")>> }

(* Two actions with the same ActionId, as two chat tasks produce, and the  *)
(* two kinds of request no handler of the paired PC takes.                 *)
MCRequests ==
    {[id |-> 1, action |-> "write"], [id |-> 1, action |-> "read"],
     [id |-> 2, action |-> "missing"], [id |-> 2, action |-> "newer"]}

(* A phone with both accelerators, one exact on the first input only, one  *)
(* never; cool, hot, and short of memory and power.                        *)
MCDevices == {[total_ram |-> 8, supports_vulkan |-> TRUE, supports_npu |-> TRUE]}
MCPolicies ==
    {[reserve_ram |-> 2, page_bytes |-> 3, min_battery |-> 15, allow_vulkan |-> TRUE,
      allow_npu |-> TRUE, prefer_low_power |-> FALSE, bytes_per_element |-> 2]}
Resources(ram, battery, thermal) ==
    [available_ram |-> ram, battery |-> battery, charging |-> FALSE, thermal |-> thermal,
     latency_budget |-> 1]
MCSnapshots == {Resources(9, 80, 0), Resources(3, 10, 1), Resources(6, 200, 2)}
MCAccelerators ==
    {vulkan_provider(2, TensorOps, TensorOps \X {1}), npu_provider(0, TensorOps, {})}

(* Prompts and outputs of a vocabulary of two, refused ones among them.    *)
MCPrompts == {<<>>, <<1>>, <<0, 1>>, <<2>>}
MCOutputs == {<<3, 1>>, <<0, 0, 1, 2>>, <<1>>, <<2, 2>>}

MCInit ==
    /\ focus \in {"cognition", "conversation", "browser", "web", "artifacts",
                  "planning", "continuity", "fabric", "pairing", "assimilation", "portability",
                  "compute", "generation", "cache"}
    /\ CognitionInit /\ ConversationInit /\ BrowserInit /\ WebInit /\ ArtifactsInit
    /\ PlanInit /\ ContinuityInit /\ Init /\ PairingInit /\ AssimilationInit /\ PortabilityInit
    /\ ComputeInit /\ GenerationInit
    /\ focus # "artifacts" => files = [p \in Paths |-> {}]
    /\ focus # "compute" => snapshot.thermal = Nominal
    /\ focus # "continuity" => disk = NoBundle /\ ~hostUp

(* Only component c moves.                                                 *)
Only(c) ==
    /\ focus = c
    /\ UNCHANGED focus
    /\ IF c = "cognition" THEN TRUE ELSE UNCHANGED cogVars
    /\ IF c = "conversation" THEN TRUE ELSE UNCHANGED convVars
    /\ IF c = "browser" THEN TRUE ELSE UNCHANGED browserVars
    /\ IF c = "web" THEN TRUE ELSE UNCHANGED webVars
    /\ IF c = "artifacts" THEN TRUE ELSE UNCHANGED artifactVars
    /\ IF c = "planning" THEN TRUE ELSE UNCHANGED planVars
    /\ IF c = "continuity" THEN TRUE ELSE UNCHANGED continuityVars
    /\ IF c = "fabric" THEN TRUE ELSE UNCHANGED vars
    /\ IF c = "pairing" THEN TRUE ELSE UNCHANGED pairingVars
    /\ IF c = "assimilation" THEN TRUE ELSE UNCHANGED assimilationVars
    /\ IF c = "portability" THEN TRUE ELSE UNCHANGED portabilityVars
    /\ IF c = "compute" THEN TRUE ELSE UNCHANGED computeVars
    /\ IF c = "generation" THEN TRUE ELSE UNCHANGED genVars
    /\ IF c = "cache" THEN TRUE ELSE UNCHANGED kvVars

MCNext ==
    \/ Only("cognition") /\ CognitionNext
    \/ Only("conversation") /\ ConversationNext
    \/ Only("browser") /\ BrowserNext
    \/ Only("web") /\ WebNext
    \/ Only("artifacts") /\ ArtifactsNext
    \/ Only("planning") /\ PlanNext
    \/ Only("continuity") /\ ContinuityNext
    \/ Only("fabric") /\ Next
    \/ Only("pairing") /\ PairingNext
    \/ Only("assimilation") /\ AssimilationNext
    \/ Only("portability") /\ PortabilityNext
    \/ Only("compute") /\ ComputeNext
    \/ Only("generation") /\ GenerateNext
    \/ Only("cache") /\ CacheNext

MCVars == <<focus, cogVars, convVars, browserVars, webVars, artifactVars, planVars,
            continuityVars, vars, pairingVars, assimilationVars, portabilityVars,
            computeVars, generationVars>>

MCSpec == MCInit /\ [][MCNext]_MCVars /\ BrowserFairness
=============================================================================
