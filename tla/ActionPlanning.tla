-------------------------- MODULE ActionPlanning ----------------------------
(***************************************************************************)
(* From a message to governed actions: the planners and the grammar of     *)
(* native action plans (assistant_actions.rs), the approval of external    *)
(* writes, the descriptors and the authority of a plan, the adapters and   *)
(* the verifier that judges what they return (lib.rs of the bridge).       *)
(*                                                                         *)
(* A line of a plan is a record: the capability, its operation, the shape  *)
(* of its argument, the paired peer it names, and a payload, which stands  *)
(* for the rest of its text (a URL, a path, a selector, a value).  Where a *)
(* verifier tells two texts of a line apart, the argument is the second:   *)
(* the bytes of a granted write, the source of an upload.  Text is not     *)
(* built or split here; a line says which parsed form it has.              *)
(***************************************************************************)
EXTENDS Integers, Sequences, FiniteSets

CONSTANTS
    Payloads,     \* what else a line says
    PairedPeers,  \* well-formed peer aliases
    MAX_ACTIONS   \* the most actions of a plan

ASSUME ActionPlanningAssumption == MAX_ACTIONS \in Nat \ {0}

VARIABLES
    planStage,    \* "idle", "planned", "awaiting", "approved", "direct",
                  \* "refused", "running", "stopped", "complete"
    lines,        \* the plan: its lines, in order
    shown,        \* the capabilities the approval card names
    consent,      \* whether the user approved what was shown
    cause,        \* why a plan was refused
    receipts      \* the evidence of the actions committed so far

planVars == <<planStage, lines, shown, consent, cause, receipts>>

-----------------------------------------------------------------------------
(* The grammar: parse_action_line accepts these forms, by domain.          *)

Line(cap, op, arg, peer, payload) ==
    [cap |-> cap, op |-> op, arg |-> arg, peer |-> peer, payload |-> payload]

Plain(caps) == {Line(c, "none", "none", "none", p) : c \in caps, p \in Payloads}

WebCaps == {"web.search", "web.fetch", "artifact.download", "artifact.upload",
            "browser.observe", "browser.interact"}
FileCaps == {"file.read", "file.write", "file.grant.read", "file.grant.write"}
DeviceCaps == {"device.observe", "device.interact", "app.action"}
PcCaps == {"pc.observe", "pc.execute", "pc.artifact.read", "pc.artifact.write"}

(* A line with two texts.                                                  *)
TwoTexts(cap) == {Line(cap, "none", a, "none", p) : a \in Payloads, p \in Payloads}

WebLines ==
    Plain(WebCaps \ {"browser.interact", "artifact.upload"})
    \cup TwoTexts("artifact.upload")
    \cup {Line("browser.interact", op, arg, "none", p) :
            op \in {"click", "submit", "navigate", "set_value", "other"},
            arg \in {"none", "text"}, p \in Payloads}

FileLines == Plain(FileCaps \ {"file.grant.write"}) \cup TwoTexts("file.grant.write")

DeviceLines ==
    {Line("device.observe", op, "none", "none", p) :
        op \in {"resources", "other"}, p \in Payloads}
    \cup {Line("device.interact", op, arg, "none", p) :
            op \in {"clipboard.set_text", "other"}, arg \in {"none", "text"},
            p \in Payloads}
    \cup {Line("app.action", op, arg, "none", p) :
            op \in {"launch", "accessibility.click", "accessibility.set_text", "other"},
            arg \in {"none", "selector", "malformed"}, p \in Payloads}

PcLines ==
    {Line(c, "none", "none", peer, p) :
        c \in PcCaps, peer \in PairedPeers \cup {"invalid"}, p \in Payloads}

ParsedLines == WebLines \cup FileLines \cup DeviceLines \cup PcLines

(* A line of a capability that the grammar does not have.                  *)
UnknownLine == Line("unknown", "none", "none", "none", CHOOSE p \in Payloads : TRUE)

parse_native_action_plan(text) ==
    IF /\ text # <<>> /\ Len(text) <= MAX_ACTIONS
       /\ \A n \in DOMAIN text : text[n] \in ParsedLines
    THEN {text} ELSE {}

(* Mutant: a write into the granted tree passes as one that can be undone. *)
SideEffect_grant(cap) ==
    CASE cap \in {"file.write", "artifact.download", "file.grant.write"} -> "Reversible"
      [] cap \in {"artifact.upload", "browser.interact",
                  "device.interact", "app.action", "pc.execute", "pc.artifact.write"} ->
            "ExternalWrite"
      [] OTHER -> "ReadOnly"

(* The side effect that parse_action_line gives a node.                    *)
SideEffect(cap) ==
    CASE cap \in {"file.write", "artifact.download"} -> "Reversible"
      [] cap \in {"artifact.upload", "file.grant.write", "browser.interact",
                  "device.interact", "app.action", "pc.execute", "pc.artifact.write"} ->
            "ExternalWrite"
      [] OTHER -> "ReadOnly"

-----------------------------------------------------------------------------
(* Planning.                                                               *)

PlanInit ==
    /\ planStage = "idle" /\ lines = <<>> /\ shown = {} /\ consent = FALSE
    /\ cause = "none" /\ receipts = <<>>

plan_text(text) ==
    /\ planStage = "idle"
    /\ IF parse_native_action_plan(text) = {}
       THEN planStage' = "direct" /\ lines' = <<>>
       ELSE planStage' = "planned" /\ lines' = text
    /\ UNCHANGED <<shown, consent, cause, receipts>>

(* The commands that a message may spell out: one line each.               *)
WebCommands ==
    Plain({"web.search", "browser.observe"}) \cup TwoTexts("artifact.upload")
    \cup {l \in WebLines : l.cap = "browser.interact" /\ l.op # "other"
                             /\ (l.op = "set_value" <=> l.arg = "text")}

DeviceCommands ==
    Plain({"file.grant.read"}) \cup TwoTexts("file.grant.write")
    \cup {l \in DeviceLines :
            \/ l.cap = "device.interact" /\ l.op # "other" /\ l.arg = "text"
            \/ l.cap = "app.action" /\ l.op = "launch" /\ l.arg = "none"
            \/ l.cap = "app.action" /\ l.arg = "selector"
                 /\ l.op \in {"accessibility.click", "accessibility.set_text"}}

PcCommands == {l \in PcLines : l.peer # "invalid"}

governed_explicit_action_plan ==
    \E l \in WebCommands \cup DeviceCommands \cup PcCommands : plan_text(<<l>>)

(* One of the surfaces that the message asks about, the best scored.       *)
run_constrained_device_planner ==
    \E l \in DeviceLines :
        l.cap = "device.observe" /\ l.op = "resources" /\ plan_text(<<l>>)

(* The model writes what it likes; a plan is cut short at its END line.    *)
run_native_action_planner ==
    /\ planStage = "idle"
    /\ \E first \in ParsedLines \cup {UnknownLine} :
        \/ plan_text(<<first>>)
        \/ \E second \in ParsedLines \cup {UnknownLine} : plan_text(<<first, second>>)

-----------------------------------------------------------------------------
(* Approval.                                                               *)

(* The external writes that external_write_approval knows how to show.     *)
Approvable(l) ==
    CASE l.cap \in {"artifact.upload", "file.grant.write"} -> TRUE
      [] l.cap = "browser.interact" ->
            \/ l.op \in {"click", "submit", "navigate"} /\ l.arg = "none"
            \/ l.op = "set_value" /\ l.arg = "text"
      [] l.cap = "device.interact" -> l.op = "clipboard.set_text" /\ l.arg = "text"
      [] l.cap = "app.action" ->
            \/ l.op = "launch" /\ l.arg = "none"
            \/ l.op \in {"accessibility.click", "accessibility.set_text"}
                 /\ l.arg = "selector"
      [] l.cap \in {"pc.execute", "pc.artifact.write"} -> l.peer # "invalid"
      [] OTHER -> FALSE

Writes == {n \in DOMAIN lines : SideEffect(lines[n].cap) = "ExternalWrite"}

Refuse(why) ==
    /\ planStage' = "refused" /\ cause' = why
    /\ UNCHANGED <<lines, shown, consent, receipts>>

external_write_approval ==
    /\ planStage = "planned" /\ Writes # {}
    /\ IF \A n \in Writes : Approvable(lines[n])
       THEN /\ planStage' = "awaiting"
            /\ shown' = {lines[n].cap : n \in Writes}
            /\ UNCHANGED <<lines, consent, cause, receipts>>
       ELSE Refuse("unsupported write")

resolve_plan_approval ==
    /\ planStage = "awaiting"
    /\ \/ planStage' = "approved" /\ consent' = TRUE
       \/ planStage' = "direct" /\ consent' = FALSE
    /\ UNCHANGED <<lines, shown, cause, receipts>>

-----------------------------------------------------------------------------
(* The descriptors and the authority of execute_android_verified_actions.  *)

Descriptor(effect, scopes) == [effect |-> effect, scopes |-> scopes]

app_action_scope_names ==
    {IF lines[n].op = "launch" THEN "app.launch" ELSE "app.accessibility.interact" :
        n \in {m \in DOMAIN lines : lines[m].cap = "app.action"}}

WebDescriptors(cap) ==
    CASE cap \in {"web.search", "web.fetch"} -> Descriptor("ReadOnly", {"network.read"})
      [] cap = "browser.observe" ->
            Descriptor("ReadOnly", {"network.read", "browser.observe"})
      [] cap = "browser.interact" ->
            Descriptor("ExternalWrite", {"network.read", "browser.interact"})
      [] cap = "artifact.download" ->
            Descriptor("Reversible", {"network.read", "file.app_private"})
      [] cap = "artifact.upload" ->
            Descriptor("ExternalWrite", {"network.write", "file.app_private"})

FileDescriptors(cap) ==
    CASE cap = "file.read" -> Descriptor("ReadOnly", {"file.app_private"})
      [] cap = "file.write" -> Descriptor("Reversible", {"file.app_private"})
      [] cap = "file.grant.read" -> Descriptor("ReadOnly", {"file.user_grant.read"})
      [] cap = "file.grant.write" -> Descriptor("ExternalWrite", {"file.user_grant.write"})

DeviceDescriptors(cap) ==
    CASE cap = "device.observe" -> Descriptor("ReadOnly", {})
      [] cap = "device.interact" -> Descriptor("ExternalWrite", {"device.clipboard.write"})
      [] cap = "app.action" -> Descriptor("ExternalWrite", app_action_scope_names)

(* Each of these has the one scope of its own name.                        *)
PcDescriptors(cap) ==
    Descriptor(IF cap \in {"pc.execute", "pc.artifact.write"} THEN "ExternalWrite"
                                                              ELSE "ReadOnly", {cap})

Registry(cap) ==
    CASE cap \in WebCaps -> WebDescriptors(cap)
      [] cap \in FileCaps -> FileDescriptors(cap)
      [] cap \in DeviceCaps -> DeviceDescriptors(cap)
      [] cap \in PcCaps -> PcDescriptors(cap)

PlanCaps == {lines[n].cap : n \in DOMAIN lines}

ReadAuthority ==
    {"network.read", "file.app_private"}
    \cup {"file.user_grant.read" : c \in PlanCaps \cap {"file.grant.read"}}
    \cup (PlanCaps \cap {"browser.observe", "pc.observe", "pc.artifact.read"})

(* Only for a plan with an external write, and after its approval.         *)
WriteAuthority ==
    {"network.write" : c \in PlanCaps \cap {"artifact.upload"}}
    \cup {"file.user_grant.write" : c \in PlanCaps \cap {"file.grant.write"}}
    \cup {"device.clipboard.write" : c \in PlanCaps \cap {"device.interact"}}
    \cup (PlanCaps \cap {"browser.interact", "pc.execute", "pc.artifact.write"})
    \cup app_action_scope_names

Authority == ReadAuthority \cup IF Writes = {} THEN {} ELSE WriteAuthority

(* One capability reaches one peer.                                        *)
pc_peer_for_capability(c) ==
    {lines[n].peer : n \in {m \in DOMAIN lines : lines[m].cap = c}}

(* Mutant: a plan runs whatever the user said.                             *)
execute_android_verified_actions_anyway ==
    /\ planStage \in {"planned", "approved", "awaiting"}
    /\ IF \E c \in PcCaps \cap PlanCaps :
            Cardinality(pc_peer_for_capability(c)) # 1 \/ "invalid" \in pc_peer_for_capability(c)
       THEN Refuse("peer")
       ELSE /\ planStage' = "running"
            /\ UNCHANGED <<lines, shown, consent, cause, receipts>>

execute_android_verified_actions ==
    /\ planStage = "approved" \/ (planStage = "planned" /\ Writes = {})
    /\ IF \E c \in PcCaps \cap PlanCaps :
            Cardinality(pc_peer_for_capability(c)) # 1 \/ "invalid" \in pc_peer_for_capability(c)
       THEN Refuse("peer")
       ELSE IF Writes # {} /\ ~consent
       THEN Refuse("no approval")
       ELSE IF \E c \in PlanCaps : Registry(c).effect # SideEffect(c)
                                     \/ ~ Registry(c).scopes \subseteq Authority
       THEN Refuse("no authority")
       ELSE /\ planStage' = "running"
            /\ UNCHANGED <<lines, shown, consent, cause, receipts>>

-----------------------------------------------------------------------------
(* Adapters and verifier.                                                  *)

Current == lines[Len(receipts) + 1]

(* What an adapter's platform may answer about: the action it was given,   *)
(* or, late, another one of the same platform.                             *)
Answers ==
    {lines[n] : n \in {m \in DOMAIN lines : lines[m].cap = Current.cap}}

(* The forms that an adapter carries out at all.                           *)
AdapterAccepts(l) ==
    CASE l.cap = "device.observe" -> l.op = "resources"
      [] l.cap \in {"browser.interact", "device.interact", "app.action"} -> Approvable(l)
      [] OTHER -> TRUE

(* The browser adapters compare the receipt themselves, the paired PC      *)
(* answers over its own session, and the rest is for the verifier.         *)
AdapterBinds(l, answer) ==
    l.cap \in {"browser.observe", "browser.interact"} \cup PcCaps => answer = l

(* AndroidProductionVerifier: a receipt names what was written.  Of an     *)
(* upload only the URL is the platform's word, of a granted write only the *)
(* length and digest of the bytes; the rest of their evidence is the       *)
(* adapter's own.                                                          *)
WebVerified(l, answer) ==
    /\ l.cap \in {"browser.observe", "browser.interact"} => answer = l
    /\ l.cap = "artifact.upload" => answer.payload = l.payload

FileVerified(l, answer) == l.cap = "file.grant.write" => answer.arg = l.arg

DeviceVerified(l, answer) ==
    l.cap \in {"device.interact", "app.action"} => answer = l

PcVerified(l, answer) == answer.peer = l.peer

Verified_output(l, answer) ==
    CASE l \in WebLines -> WebVerified(l, answer)
      [] l \in FileLines -> FileVerified(l, answer)
      [] l \in DeviceLines -> DeviceVerified(l, answer)
      [] OTHER -> PcVerified(l, answer)

(* The action at the cursor: its adapter fails, and the plan stops with a  *)
(* checkpoint, or it answers, and the verifier accepts or rejects that.    *)
run_current_action ==
    /\ planStage = "running"
    /\ \/ /\ planStage' = "stopped"
          /\ UNCHANGED receipts
       \/ \E answer \in Answers :
            /\ AdapterAccepts(Current) /\ AdapterBinds(Current, answer)
            /\ IF Verified_output(Current, answer)
               THEN /\ receipts' = Append(receipts, answer)
                    /\ planStage' = IF Len(receipts) + 1 = Len(lines)
                                    THEN "complete" ELSE "running"
               ELSE planStage' = "stopped" /\ UNCHANGED receipts
    /\ UNCHANGED <<lines, shown, consent, cause>>

PlanNext ==
    \/ governed_explicit_action_plan \/ run_constrained_device_planner
    \/ run_native_action_planner
    \/ external_write_approval \/ resolve_plan_approval
    \/ execute_android_verified_actions \/ run_current_action

PlanSpec == PlanInit /\ [][PlanNext]_planVars

-----------------------------------------------------------------------------
(* The evidence is about the write of line l: the bytes of a granted       *)
(* write, whatever document they went to; the URL of an upload, whatever   *)
(* was read; all of a line of the browser, the device or an app.           *)
EvidenceOf(l, answer) ==
    /\ answer.cap = l.cap
    /\ CASE l.cap = "file.grant.write" -> answer.arg = l.arg
         [] l.cap = "artifact.upload" -> answer.payload = l.payload
         [] OTHER -> answer = l

(* What changes something outside the app runs only when the user approved *)
(* a card that names its capability, and the evidence committed for it is  *)
(* about that write as far as its platform reports it, though the platform *)
(* may answer about another action.  Which adapters write is read off the  *)
(* platforms they call, not off the side effect that a node declares; a    *)
(* paired PC binds its evidence by a session of its own.                   *)
WritesWereShown ==
    /\ planStage \in {"running", "stopped", "complete"} =>
        \A n \in DOMAIN lines :
            lines[n].cap \in {"artifact.upload", "file.grant.write", "browser.interact",
                              "device.interact", "app.action", "pc.execute",
                              "pc.artifact.write"}
                => consent /\ lines[n].cap \in shown
    /\ \A n \in DOMAIN receipts :
        SideEffect(lines[n].cap) = "ExternalWrite" /\ lines[n].cap \notin PcCaps
            => EvidenceOf(lines[n], receipts[n])

(* A plan is never refused for authority once it could be planned and was  *)
(* approved: grammar, descriptors and grants agree on every capability.    *)
ApprovedPlanRuns == cause \notin {"no authority", "no approval"}
=============================================================================
