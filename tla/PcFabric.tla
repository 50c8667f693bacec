------------------------------ MODULE PcFabric ------------------------------
(***************************************************************************)
(* The paired PC fabric (crates/ntd-pc-fabric): the phone's adapter        *)
(* (adapter.rs) exchanges encrypted frames with a desktop agent (agent.rs) *)
(* over a TCP stream (transport.rs, connector.rs).  Every connection makes *)
(* a session of its own (crypto.rs) with its own agent and its own cache   *)
(* of finished requests.                                                   *)
(*                                                                         *)
(* A step of the phone is what its thread does up to the next read of the  *)
(* stream; a step of an agent is one frame.  An agent still works off the  *)
(* frames of a connection the phone has given up.  Request and result      *)
(* digests are collision-free: a digest is the request itself, the hash of *)
(* an artifact is the request whose handler produced it.                   *)
(***************************************************************************)
EXTENDS Integers, Sequences, FiniteSets

CONSTANTS
    Requests,      \* the requests: [id : ActionId, action : a remote action]
    Reads,         \* actions that return an artifact (pc.artifact.read)
    NotInstalled,  \* actions of a capability without a handler
    OtherVersion,  \* actions whose handler has another version
    Chunks,        \* chunks of an artifact
    MaxSessions,   \* bound on the connections
    MaxFrames,     \* bound on the frames the phone seals in a session
    None

Ids == {r.id : r \in Requests}
Sessions == 1..MaxSessions

(* RemoteMessage.                                                          *)
Status == {"Completed", "Retryable", "Rejected"}
CapabilityQuery == [type |-> "CapabilityQuery"]
Capabilities == [type |-> "Capabilities"]
Request(r) == [type |-> "Request", request |-> r]
RemoteResult(r, status, transfer) ==
    [type |-> "Result", request |-> r, status |-> status, transfer |-> transfer]
ArtifactPull(transfer, offset) ==
    [type |-> "ArtifactPull", transfer |-> transfer, offset |-> offset]
ArtifactChunk(transfer, offset, data) ==
    [type |-> "ArtifactChunk", transfer |-> transfer, offset |-> offset, data |-> data]

Results ==
    [type : {"Result"}, request : Requests, status : Status, transfer : Nat]

ASSUME PcAssumption ==
    /\ None \notin Requests \cup Results
    /\ Chunks \in Nat /\ MaxSessions \in Nat

ToPc ==
    {CapabilityQuery} \cup [type : {"Request"}, request : Requests]
    \cup [type : {"ArtifactPull"}, transfer : Nat \ {0}, offset : Nat]

ToPhone ==
    {Capabilities} \cup Results
    \cup [type : {"ArtifactChunk"}, transfer : Nat \ {0}, offset : Nat, data : Requests]

Frame(M) == [sequence : Nat, message : M]

NoTransfer == 0

VARIABLES
    sessions,   \* the connections made so far; the last one is the phone's
    phone,      \* the adapter: [pc, tx, rx, request, transfer, sha256, bytes, outcome]
    agent,      \* the agents: [tx, rx, completed_requests, outgoing_artifacts]
    toPc, toPhone,   \* the two directions of each stream
    executed,   \* how often each agent's handlers carried out each request
    clean       \* the sessions in which nothing was late, lost or refused yet

vars == <<sessions, phone, agent, toPc, toPhone, executed, clean>>

Waiting == {"discovering", "executing", "pulling"}

Phone ==
    [pc : {"none", "idle"} \cup Waiting, tx : Nat, rx : Nat,
     request : Requests \cup {None}, transfer : Nat, sha256 : Requests \cup {None},
     bytes : Seq(Requests), outcome : Status \cup {"none", "Err"}]

Agent ==
    [tx : Nat, rx : Nat, completed_requests : [Ids -> Results \cup {None}],
     outgoing_artifacts : Seq(Requests)]

TypeOK ==
    /\ sessions \in 0..MaxSessions
    /\ phone \in Phone
    /\ agent \in [Sessions -> Agent]
    /\ toPc \in [Sessions -> Seq(Frame(ToPc))]
    /\ toPhone \in [Sessions -> Seq(Frame(ToPhone))]
    /\ executed \in [Sessions -> [Requests -> Nat]]
    /\ clean \subseteq Sessions

(* PairedPcAdapter::new and DesktopAgent::new on a fresh SecureSession.    *)
Adapter(pc) ==
    [pc |-> pc, tx |-> 0, rx |-> 0, request |-> None, transfer |-> NoTransfer,
     sha256 |-> None, bytes |-> <<>>, outcome |-> "none"]

DesktopAgent ==
    [tx |-> 0, rx |-> 0, completed_requests |-> [i \in Ids |-> None],
     outgoing_artifacts |-> <<>>]

Init ==
    /\ sessions = 0
    /\ phone = Adapter("none")
    /\ agent = [s \in Sessions |-> DesktopAgent]
    /\ toPc = [s \in Sessions |-> <<>>]
    /\ toPhone = [s \in Sessions |-> <<>>]
    /\ executed = [s \in Sessions |-> [r \in Requests |-> 0]]
    /\ clean = Sessions

-----------------------------------------------------------------------------
(* The phone.                                                              *)

(* exchange_message up to the read: SecureSession::seal counts the frame   *)
(* before the transport writes it, and the write may fail.                 *)
Seal(p, s, message, next) ==
    \/ /\ phone' = [next EXCEPT !.tx = p.tx + 1]
       /\ toPc' = [toPc EXCEPT ![s] = Append(@, [sequence |-> p.tx, message |-> message])]
       /\ UNCHANGED clean
    \/ /\ phone' = [next EXCEPT !.tx = p.tx + 1, !.outcome = "Err",
                                !.pc = IF @ = "discovering" THEN "none" ELSE "idle"]
       /\ clean' = clean \ {s}
       /\ UNCHANGED toPc

(* connect_paired_tcp and the query of discover_capabilities.  The old     *)
(* stream is closed: its replies are gone, its requests are not.           *)
connect ==
    /\ phone.pc \in {"none", "idle"}
    /\ sessions < MaxSessions
    /\ sessions' = sessions + 1
    /\ Seal(Adapter("none"), sessions', CapabilityQuery, Adapter("discovering"))
    /\ toPhone' = [s \in Sessions |-> <<>>]
    /\ UNCHANGED <<agent, executed>>

(* CapabilityAdapter::execute, up to the read of the reply.                *)
execute(r) ==
    /\ phone.pc = "idle" /\ phone.tx < MaxFrames
    /\ Seal(phone, sessions, Request(r),
            [phone EXCEPT !.pc = "executing", !.request = r, !.transfer = NoTransfer,
                          !.sha256 = None, !.bytes = <<>>, !.outcome = "none"])
    /\ UNCHANGED <<sessions, agent, toPhone, executed>>

(* The call returns; without its adapter when discovery failed.            *)
Return(p, outcome) ==
    /\ phone' = [p EXCEPT !.outcome = outcome,
                          !.pc = IF @ = "discovering" /\ outcome = "Err" THEN "none" ELSE "idle"]
    /\ UNCHANGED <<toPc, clean>>

(* Mutant: the result answers the request whose id it has.                 *)
verify_against_id_only(result, request) == result.request.id = request.id

verify_against(result, request) == result.request = request

(* pull_artifact: the next chunk, or the end of the loop and the hash.     *)
Pull(p) ==
    IF Len(p.bytes) < Chunks
      THEN /\ p.tx < MaxFrames
           /\ Seal(p, sessions, ArtifactPull(p.transfer, Len(p.bytes)), [p EXCEPT !.pc = "pulling"])
      ELSE Return(p, IF \A i \in DOMAIN p.bytes : p.bytes[i] = p.sha256
                       THEN "Completed" ELSE "Err")

(* What the waiting call does with a reply, once SecureSession::open has   *)
(* accepted and counted it.                                                *)
Accept(p, m) ==
    CASE p.pc = "discovering" -> Return(p, IF m = Capabilities THEN "none" ELSE "Err")
      [] p.pc = "executing" ->
           IF m.type = "Result" /\ verify_against(m, p.request)
             THEN IF m.status = "Completed" /\ p.request.action \in Reads
                    THEN Pull([p EXCEPT !.transfer = m.transfer, !.sha256 = m.request])
                    ELSE Return(p, m.status)
             ELSE Return(p, "Err")
      [] p.pc = "pulling" ->
           IF m.type = "ArtifactChunk" /\ m.transfer = p.transfer /\ m.offset = Len(p.bytes)
             THEN Pull([p EXCEPT !.bytes = Append(@, m.data)])
             ELSE Return(p, "Err")

receive ==
    /\ phone.pc \in Waiting
    /\ toPhone[sessions] # <<>>
    /\ LET f == Head(toPhone[sessions]) IN
         IF f.sequence = phone.rx THEN Accept([phone EXCEPT !.rx = @ + 1], f.message)
                                  ELSE Return(phone, "Err")
    /\ toPhone' = [toPhone EXCEPT ![sessions] = Tail(@)]
    /\ UNCHANGED <<sessions, agent, executed>>

(* The read times out.  The stream stays: a late reply is the next read's, *)
(* unless a part of it was read and is lost.                               *)
timeout ==
    /\ phone.pc \in Waiting
    /\ phone' = [phone EXCEPT !.outcome = "Err",
                              !.pc = IF @ = "discovering" THEN "none" ELSE "idle"]
    /\ \/ UNCHANGED toPhone
       \/ /\ toPhone[sessions] # <<>>
          /\ toPhone' = [toPhone EXCEPT ![sessions] = Tail(@)]
    /\ clean' = clean \ {sessions}
    /\ UNCHANGED <<sessions, agent, toPc, executed>>

-----------------------------------------------------------------------------
(* The desktop agent: handle_encrypted_frame on the next frame of session  *)
(* s.  The loop that reads and writes the frames is not in the repository: *)
(* it writes what the agent returns, and may fail to.                      *)

Incoming(s) == Head(toPc[s])
Cached(s, r) == agent[s].completed_requests[r.id]

(* SecureSession::open accepts the frame.                                  *)
Opens(s) == toPc[s] # <<>> /\ Incoming(s).sequence = agent[s].rx

Reply(s, a, message) ==
    /\ agent' = [agent EXCEPT ![s] = [a EXCEPT !.rx = @ + 1, !.tx = @ + 1]]
    /\ toPc' = [toPc EXCEPT ![s] = Tail(@)]
    /\ \/ /\ s = sessions
          /\ toPhone' = [toPhone EXCEPT ![s] =
                            Append(@, [sequence |-> agent[s].tx, message |-> message])]
          /\ UNCHANGED clean
       \/ /\ clean' = clean \ {s}
          /\ UNCHANGED toPhone
    /\ UNCHANGED <<sessions, phone>>

answer_query(s) ==
    /\ Opens(s) /\ Incoming(s).message = CapabilityQuery
    /\ Reply(s, agent[s], Capabilities)
    /\ UNCHANGED executed

Asked(s, r) == Opens(s) /\ Incoming(s).message = Request(r)

execute_request_cached(s, r) ==
    /\ Asked(s, r)
    /\ Cached(s, r) # None /\ Cached(s, r).request = r
    /\ Reply(s, agent[s], Cached(s, r))
    /\ UNCHANGED executed

execute_request_not_installed(s, r) ==
    /\ Asked(s, r)
    /\ Cached(s, r) = None /\ r.action \in NotInstalled
    /\ Reply(s, agent[s], RemoteResult(r, "Rejected", NoTransfer))
    /\ UNCHANGED executed

(* The handler is called.                                                  *)
Handled(s, r) ==
    /\ Asked(s, r)
    /\ Cached(s, r) = None /\ r.action \notin NotInstalled \cup OtherVersion

(* The transfer id of the handler's artifact.                              *)
store_artifacts(s, r) ==
    IF r.action \in Reads THEN Len(agent[s].outgoing_artifacts) + 1 ELSE NoTransfer

(* Mutant: the result is sent and not kept.                                *)
remember_nothing(s, result) == agent[s]

(* completed_requests.insert.                                              *)
remember(s, result) ==
    [agent[s] EXCEPT !.completed_requests[result.request.id] = result]

execute_request_completed(s, r) ==
    LET result == RemoteResult(r, "Completed", store_artifacts(s, r))
        a == remember(s, result) IN
    /\ Handled(s, r)
    /\ Reply(s, IF r.action \in Reads THEN [a EXCEPT !.outgoing_artifacts = Append(@, r)] ELSE a,
             result)
    /\ executed' = [executed EXCEPT ![s][r] = @ + 1]

(* PolicyDenied, or any error but Io.                                      *)
execute_request_denied(s, r) ==
    LET result == RemoteResult(r, "Rejected", NoTransfer) IN
    /\ Handled(s, r)
    /\ Reply(s, remember(s, result), result)
    /\ UNCHANGED executed

(* An Io error is not kept: the request may be tried again.                *)
execute_request_io(s, r) ==
    /\ Handled(s, r)
    /\ Reply(s, agent[s], RemoteResult(r, "Retryable", NoTransfer))
    /\ UNCHANGED executed

(* Mutant: the chunk after the one that was asked for.                     *)
chunk_at_next(s, transfer, offset) ==
    ArtifactChunk(transfer, offset + 1, agent[s].outgoing_artifacts[transfer])

chunk_at(s, transfer, offset) ==
    ArtifactChunk(transfer, offset, agent[s].outgoing_artifacts[transfer])

Pulls(s) == Opens(s) /\ Incoming(s).message.type = "ArtifactPull"

Servable(s, m) == m.transfer \in DOMAIN agent[s].outgoing_artifacts /\ m.offset <= Chunks

answer_pull(s) ==
    /\ Pulls(s)
    /\ Servable(s, Incoming(s).message)
    /\ Reply(s, agent[s], chunk_at(s, Incoming(s).message.transfer, Incoming(s).message.offset))
    /\ UNCHANGED executed

(* handle_encrypted_frame returns an error: no reply.                      *)
refuse(s) ==
    /\ toPc[s] # <<>>
    /\ \/ /\ ~Opens(s)
          /\ UNCHANGED agent
       \/ /\ \/ \E r \in Requests :
                  \/ Asked(s, r) /\ Cached(s, r) # None /\ Cached(s, r).request # r
                  \/ /\ Asked(s, r) /\ Cached(s, r) = None
                     /\ r.action \notin NotInstalled /\ r.action \in OtherVersion
                  \/ Handled(s, r) /\ r.action \in Reads  \* store_artifacts fails
             \/ Pulls(s) /\ ~Servable(s, Incoming(s).message)
          /\ agent' = [agent EXCEPT ![s].rx = @ + 1]
    /\ toPc' = [toPc EXCEPT ![s] = Tail(@)]
    /\ clean' = clean \ {s}
    /\ UNCHANGED <<sessions, phone, toPhone, executed>>

handle_encrypted_frame(s) ==
    \/ answer_query(s)
    \/ \E r \in Requests :
        \/ execute_request_cached(s, r) \/ execute_request_not_installed(s, r)
        \/ execute_request_completed(s, r) \/ execute_request_denied(s, r)
        \/ execute_request_io(s, r)
    \/ answer_pull(s)
    \/ refuse(s)

Next ==
    \/ connect
    \/ \E r \in Requests : execute(r)
    \/ receive
    \/ timeout
    \/ \E s \in 1..sessions : handle_encrypted_frame(s)

Spec == Init /\ [][Next]_vars

-----------------------------------------------------------------------------
(* Properties.                                                             *)

(* A Completed result that the phone accepts is that of its own request,   *)
(* carried out by the agent of this very session, and so is every byte of  *)
(* the artifact: neither a late reply of an earlier exchange nor an id     *)
(* that was used before is mistaken for it.                                *)
ResultForItsRequest ==
    phone.outcome = "Completed" =>
        /\ executed[sessions][phone.request] = 1
        /\ phone.request.action \in Reads =>
             phone.bytes = [i \in 1..Chunks |-> phone.request]

(* Within a session an ActionId is carried out at most once, for one       *)
(* action, however often it is sent again.                                 *)
AtMostOncePerSession ==
    \A s \in Sessions : \A q, r \in Requests :
        q.id = r.id /\ executed[s][q] > 0 /\ executed[s][r] > 0 => q = r /\ executed[s][r] = 1

(* As long as nothing is late, lost or refused, both ends stay in step:    *)
(* at most one frame is under way and no call ends in a protocol error.    *)
CleanSessionInStep ==
    sessions \in clean =>
        /\ phone.outcome # "Err"
        /\ Len(toPc[sessions]) + Len(toPhone[sessions]) =
             (IF phone.pc \in Waiting THEN 1 ELSE 0)

(* What docs/PAIRED_PC_FABRIC.md says: a retry or cold continuation does   *)
(* not replay a committed remote side effect.                              *)
NotReplayed ==
    \A r \in Requests : \A s, t \in Sessions :
        executed[s][r] > 0 /\ executed[t][r] > 0 => s = t
=============================================================================
