--------------------------- MODULE PcFabricProofs ---------------------------
(***************************************************************************)
(* Theorems about PcFabric, for every set of requests, every number of     *)
(* sessions and frames and every length of an artifact.  The invariant     *)
(* ties three copies of a result together: the handlers' record of what    *)
(* was carried out, the agent's cache, and the replies under way, of which *)
(* the phone may read late ones.                                           *)
(***************************************************************************)
EXTENDS PcFabric, SequenceTheorems, TLAPS

(* A Completed result of session s tells the truth.                        *)
Truthful(s, c) ==
    c.status = "Completed" =>
        /\ executed[s][c.request] = 1
        /\ c.request.action \in Reads => c.transfer # NoTransfer

(* What was carried out is cached under its id, and the cache is truthful. *)
CacheInv ==
    \A s \in Sessions :
        /\ \A i \in Ids : LET c == agent[s].completed_requests[i] IN
             c # None => c.request.id = i /\ Truthful(s, c)
        /\ \A r \in Requests : executed[s][r] # 0 =>
             executed[s][r] = 1 /\ Cached(s, r) # None /\ Cached(s, r).request = r

(* Every result under way to the phone is truthful.                        *)
ReplyInv ==
    \A s \in Sessions : \A k \in DOMAIN toPhone[s] :
        LET m == toPhone[s][k].message IN m.type = "Result" => Truthful(s, m)

(* The call in progress, and the last one that completed.                  *)
PhoneInv ==
    /\ phone.pc # "none" => sessions \in Sessions
    /\ phone.pc \in Waiting => phone.outcome = "none"
    /\ phone.pc = "executing" => phone.request \in Requests /\ phone.bytes = <<>>
    /\ phone.pc = "pulling" =>
        /\ phone.request \in Requests /\ phone.request.action \in Reads
        /\ phone.sha256 = phone.request
        /\ phone.transfer # NoTransfer
        /\ executed[sessions][phone.request] = 1
        /\ Len(phone.bytes) < Chunks
    /\ phone.outcome = "Completed" =>
        /\ sessions \in Sessions /\ phone.request \in Requests
        /\ executed[sessions][phone.request] = 1
        /\ phone.request.action \in Reads => phone.bytes = [i \in 1..Chunks |-> phone.request]

IInv == TypeOK /\ CacheInv /\ ReplyInv /\ PhoneInv

-----------------------------------------------------------------------------

(* The empty system satisfies the invariant.                               *)
LEMMA InitInv == Init => IInv
  <1> SUFFICES ASSUME Init PROVE IInv
    OBVIOUS
  <1> USE PcAssumption DEF Init
  <1>1. <<>> \in Seq(Requests) /\ <<>> \in Seq(Frame(ToPc)) /\ <<>> \in Seq(Frame(ToPhone))
    OBVIOUS
  <1>2. Adapter("none") \in Phone
    BY <1>1 DEF Adapter, Phone, NoTransfer
  <1>3. DesktopAgent \in Agent
    BY <1>1 DEF DesktopAgent, Agent
  <1>4. TypeOK
    BY <1>1, <1>2, <1>3 DEF TypeOK
  <1>5. CacheInv
    BY DEF CacheInv, DesktopAgent, Sessions, Ids
  <1>6. ReplyInv
    BY DEF ReplyInv
  <1>7. PhoneInv
    BY DEF PhoneInv, Adapter, Waiting
  <1> QED BY <1>4, <1>5, <1>6, <1>7 DEF IInv

(* A step of the phone keeps what the agents know, so only the types, the  *)
(* replies that are left and the phone itself are to be shown.             *)
LEMMA PhoneStep ==
    ASSUME IInv, UNCHANGED <<agent, executed>>, TypeOK',
           \A s \in Sessions : \A k \in DOMAIN toPhone'[s] :
               \E j \in DOMAIN toPhone[s] : toPhone'[s][k] = toPhone[s][j],
           PhoneInv'
    PROVE  IInv'
  <1>1. CacheInv'
    BY DEF IInv, CacheInv, Truthful, Cached
  <1>2. ReplyInv'
    BY DEF IInv, ReplyInv, Truthful
  <1> QED BY <1>1, <1>2 DEF IInv

(* Reading a frame off the stream to the phone.                            *)
LEMMA TailStream ==
    ASSUME TypeOK, sessions \in Sessions, toPhone[sessions] # <<>>,
           toPhone' = [toPhone EXCEPT ![sessions] = Tail(@)]
    PROVE  /\ toPhone' \in [Sessions -> Seq(Frame(ToPhone))]
           /\ \A s \in Sessions : \A k \in DOMAIN toPhone'[s] :
                \E j \in DOMAIN toPhone[s] : toPhone'[s][k] = toPhone[s][j]
  <1>1. /\ toPhone[sessions] \in Seq(Frame(ToPhone))
        /\ Tail(toPhone[sessions]) \in Seq(Frame(ToPhone))
        /\ Len(Tail(toPhone[sessions])) = Len(toPhone[sessions]) - 1
        /\ \A k \in 1..Len(Tail(toPhone[sessions])) :
             Tail(toPhone[sessions])[k] = toPhone[sessions][k + 1]
    BY HeadTailProperties DEF TypeOK
  <1>2. toPhone' \in [Sessions -> Seq(Frame(ToPhone))]
    BY <1>1 DEF TypeOK
  <1>3. ASSUME NEW k \in DOMAIN toPhone'[sessions]
        PROVE  \E j \in DOMAIN toPhone[sessions] : toPhone'[sessions][k] = toPhone[sessions][j]
    <2>1. toPhone'[sessions] = Tail(toPhone[sessions])
      BY DEF TypeOK
    <2>2. k \in 1..Len(Tail(toPhone[sessions])) /\ DOMAIN toPhone[sessions] = 1..Len(toPhone[sessions])
      BY <1>1, <2>1, LenProperties
    <2>3. k + 1 \in DOMAIN toPhone[sessions]
      BY <1>1, <2>2, LenProperties
    <2> QED BY <1>1, <2>1, <2>2, <2>3
  <1>4. \A s \in Sessions \ {sessions} : toPhone'[s] = toPhone[s]
    BY DEF TypeOK
  <1> QED BY <1>2, <1>3, <1>4

(* Facts about the parts of a phone record that a step replaces.           *)
LEMMA PhoneFields ==
    ASSUME NEW p \in Phone
    PROVE  /\ p.tx \in Nat /\ p.rx \in Nat /\ p.transfer \in Nat
           /\ p.bytes \in Seq(Requests)
           /\ \A n \in Nat : [p EXCEPT !.tx = n] \in Phone /\ [p EXCEPT !.rx = n] \in Phone
           /\ \A q \in {"none", "idle"} \cup Waiting, o \in Status \cup {"none", "Err"} :
                [p EXCEPT !.outcome = o, !.pc = q] \in Phone
  BY DEF Phone

(* Sealing a frame: the types, and what becomes of the phone when the      *)
(* frame is written and when it is not.                                    *)
LEMMA SealStep ==
    ASSUME TypeOK, NEW s \in Sessions, NEW p \in Phone, NEW next \in Phone,
           NEW m \in ToPc, Seal(p, s, m, next)
    PROVE  /\ phone' \in Phone
           /\ toPc' \in [Sessions -> Seq(Frame(ToPc))]
           /\ clean' \subseteq Sessions
           /\ \/ phone' = [next EXCEPT !.tx = p.tx + 1]
              \/ phone'.outcome = "Err" /\ phone'.pc \in {"none", "idle"}
  <1>1. p.tx \in Nat /\ p.tx + 1 \in Nat
    BY DEF Phone
  <1>2. [sequence |-> p.tx, message |-> m] \in Frame(ToPc)
    BY <1>1 DEF Frame
  <1>3. toPc' \in [Sessions -> Seq(Frame(ToPc))]
    <2>1. toPc \in [Sessions -> Seq(Frame(ToPc))] /\ toPc[s] \in Seq(Frame(ToPc))
      BY DEF TypeOK
    <2>2. Append(toPc[s], [sequence |-> p.tx, message |-> m]) \in Seq(Frame(ToPc))
      BY <1>2, <2>1, AppendProperties
    <2>3. \/ toPc' = [toPc EXCEPT ![s] = Append(@, [sequence |-> p.tx, message |-> m])]
          \/ toPc' = toPc
      BY DEF Seal
    <2> QED BY <2>1, <2>2, <2>3
  <1>4. clean' \subseteq Sessions
    BY DEF Seal, TypeOK
  <1>5. CASE phone' = [next EXCEPT !.tx = p.tx + 1]
    BY <1>1, <1>3, <1>4, <1>5, PhoneFields
  <1>6. CASE phone' = [next EXCEPT !.tx = p.tx + 1, !.outcome = "Err",
                                   !.pc = IF @ = "discovering" THEN "none" ELSE "idle"]
    <2>1. phone' \in Phone
      BY <1>1, <1>6 DEF Phone
    <2>2. phone'.outcome = "Err" /\ phone'.pc \in {"none", "idle"}
      BY <1>6 DEF Phone
    <2> QED BY <1>3, <1>4, <2>1, <2>2
  <1> QED BY <1>5, <1>6 DEF Seal

(* A new connection starts with an empty stream to the phone.              *)
LEMMA ConnectInv ==
    ASSUME IInv, connect PROVE IInv'
  <1> USE PcAssumption
  <1>1. sessions' \in Sessions /\ sessions' \in 0..MaxSessions
    BY DEF connect, Sessions, IInv, TypeOK
  <1>2. Adapter("none") \in Phone /\ Adapter("discovering") \in Phone /\ CapabilityQuery \in ToPc
    BY DEF Adapter, Phone, NoTransfer, Waiting, ToPc
  <1>3. /\ phone' \in Phone /\ toPc' \in [Sessions -> Seq(Frame(ToPc))]
        /\ clean' \subseteq Sessions
        /\ \/ phone' = [Adapter("discovering") EXCEPT !.tx = Adapter("none").tx + 1]
           \/ phone'.outcome = "Err" /\ phone'.pc \in {"none", "idle"}
    BY <1>1, <1>2, SealStep DEF connect, IInv
  <1>4. toPhone' = [s \in Sessions |-> <<>>] /\ agent' = agent /\ executed' = executed
    BY DEF connect
  <1>5. TypeOK'
    BY <1>1, <1>3, <1>4 DEF IInv, TypeOK
  <1>6. PhoneInv'
    BY <1>1, <1>3 DEF PhoneInv, Adapter, Waiting
  <1>7. \A s \in Sessions : \A k \in DOMAIN toPhone'[s] :
          \E j \in DOMAIN toPhone[s] : toPhone'[s][k] = toPhone[s][j]
    BY <1>4
  <1> QED BY <1>4, <1>5, <1>6, <1>7, PhoneStep

(* A new request forgets the artifact and the outcome of the last one.     *)
LEMMA ExecuteInv ==
    ASSUME IInv, NEW r \in Requests, execute(r) PROVE IInv'
  <1> DEFINE next == [phone EXCEPT !.pc = "executing", !.request = r, !.transfer = NoTransfer,
                                   !.sha256 = None, !.bytes = <<>>, !.outcome = "none"]
  <1>1. phone \in Phone /\ sessions \in Sessions
    BY DEF execute, IInv, TypeOK, PhoneInv
  <1>2. <<>> \in Seq(Requests)
    OBVIOUS
  <1>3. next \in Phone /\ next.pc = "executing" /\ next.request = r /\ next.bytes = <<>>
        /\ next.outcome = "none"
    BY <1>1, <1>2 DEF Phone, Waiting, NoTransfer
  <1>4. Request(r) \in ToPc
    BY DEF Request, ToPc
  <1>5. Seal(phone, sessions, Request(r), next)
    BY DEF execute
  <1> HIDE DEF next
  <1>6. /\ phone' \in Phone /\ toPc' \in [Sessions -> Seq(Frame(ToPc))]
        /\ clean' \subseteq Sessions
        /\ \/ phone' = [next EXCEPT !.tx = phone.tx + 1]
           \/ phone'.outcome = "Err" /\ phone'.pc \in {"none", "idle"}
    BY <1>1, <1>3, <1>4, <1>5, SealStep DEF IInv
  <1>7. UNCHANGED <<sessions, agent, toPhone, executed>>
    BY DEF execute
  <1>8. TypeOK'
    BY <1>6, <1>7 DEF IInv, TypeOK
  <1>9. PhoneInv'
    <2>1. CASE phone' = [next EXCEPT !.tx = phone.tx + 1]
      <3>1. phone'.pc = "executing" /\ phone'.request = r /\ phone'.bytes = <<>>
            /\ phone'.outcome = "none"
        BY <1>3, <2>1 DEF Phone
      <3> QED BY <1>1, <1>7, <3>1 DEF PhoneInv
    <2>2. CASE phone'.outcome = "Err" /\ phone'.pc \in {"none", "idle"}
      BY <1>1, <1>7, <2>2 DEF PhoneInv, Waiting
    <2> QED BY <1>6, <2>1, <2>2
  <1> QED BY <1>7, <1>8, <1>9, PhoneStep

(* A call that gives up keeps nothing the invariant speaks of.             *)
LEMMA TimeoutInv ==
    ASSUME IInv, timeout PROVE IInv'
  <1>1. phone \in Phone /\ sessions \in Sessions
    BY DEF timeout, IInv, TypeOK, PhoneInv, Waiting
  <1>2. phone' \in Phone /\ phone'.outcome = "Err" /\ phone'.pc \in {"none", "idle"}
    BY <1>1 DEF timeout, Phone
  <1>3. /\ toPhone' \in [Sessions -> Seq(Frame(ToPhone))]
        /\ \A s \in Sessions : \A k \in DOMAIN toPhone'[s] :
             \E j \in DOMAIN toPhone[s] : toPhone'[s][k] = toPhone[s][j]
    <2>1. CASE UNCHANGED toPhone
      BY <2>1 DEF IInv, TypeOK
    <2>2. CASE toPhone[sessions] # <<>> /\ toPhone' = [toPhone EXCEPT ![sessions] = Tail(@)]
      BY <1>1, <2>2, TailStream DEF IInv
    <2> QED BY <2>1, <2>2 DEF timeout
  <1>4. TypeOK'
    BY <1>2, <1>3 DEF timeout, IInv, TypeOK
  <1>5. PhoneInv'
    BY <1>1, <1>2 DEF timeout, PhoneInv, Waiting
  <1>6. UNCHANGED <<agent, executed>>
    BY DEF timeout
  <1> QED BY <1>3, <1>4, <1>5, <1>6, PhoneStep

(* A call that returns.                                                    *)
LEMMA ReturnStep ==
    ASSUME NEW p \in Phone, NEW o \in Status \cup {"none", "Err"}, Return(p, o)
    PROVE  /\ phone' \in Phone /\ phone'.outcome = o /\ phone'.pc \in {"none", "idle"}
           /\ phone'.request = p.request /\ phone'.bytes = p.bytes
           /\ UNCHANGED <<toPc, clean>>
  BY DEF Return, Phone

(* pull_artifact, for a descriptor that a truthful result brought.         *)
LEMMA PullStep ==
    ASSUME TypeOK, NEW p \in Phone, Pull(p), UNCHANGED <<sessions, executed>>,
           sessions \in Sessions, p.request \in Requests, p.request.action \in Reads,
           p.sha256 = p.request, p.transfer # NoTransfer, p.outcome = "none",
           executed[sessions][p.request] = 1, Len(p.bytes) <= Chunks
    PROVE  /\ phone' \in Phone /\ toPc' \in [Sessions -> Seq(Frame(ToPc))]
           /\ clean' \subseteq Sessions
           /\ PhoneInv'
  <1> USE PcAssumption
  <1>1. p.bytes \in Seq(Requests) /\ Len(p.bytes) \in Nat /\ p.transfer \in Nat \ {0}
    BY PhoneFields, LenProperties DEF NoTransfer
  <1>2. CASE Len(p.bytes) < Chunks
    <2> DEFINE next == [p EXCEPT !.pc = "pulling"]
    <2>1. next \in Phone /\ next.pc = "pulling"
          /\ next.request = p.request /\ next.sha256 = p.sha256 /\ next.bytes = p.bytes
          /\ next.transfer = p.transfer /\ next.outcome = p.outcome
      BY DEF Phone, Waiting
    <2>2. ArtifactPull(p.transfer, Len(p.bytes)) \in ToPc
      BY <1>1 DEF ArtifactPull, ToPc
    <2>3. Seal(p, sessions, ArtifactPull(p.transfer, Len(p.bytes)), next)
      BY <1>2 DEF Pull
    <2> HIDE DEF next
    <2>4. /\ phone' \in Phone /\ toPc' \in [Sessions -> Seq(Frame(ToPc))]
          /\ clean' \subseteq Sessions
          /\ \/ phone' = [next EXCEPT !.tx = p.tx + 1]
             \/ phone'.outcome = "Err" /\ phone'.pc \in {"none", "idle"}
      BY <2>1, <2>2, <2>3, SealStep
    <2>5. CASE phone' = [next EXCEPT !.tx = p.tx + 1]
      <3>1. /\ phone'.pc = "pulling" /\ phone'.request = p.request
            /\ phone'.sha256 = p.sha256 /\ phone'.bytes = p.bytes
            /\ phone'.transfer = p.transfer /\ phone'.outcome = p.outcome
        BY <2>1, <2>5 DEF Phone
      <3> QED BY <1>2, <2>4, <3>1 DEF PhoneInv
    <2>6. CASE phone'.outcome = "Err" /\ phone'.pc \in {"none", "idle"}
      BY <2>4, <2>6 DEF PhoneInv, Waiting
    <2> QED BY <2>4, <2>5, <2>6
  <1>3. CASE ~(Len(p.bytes) < Chunks)
    <2> DEFINE whole == \A i \in DOMAIN p.bytes : p.bytes[i] = p.sha256
               o == IF whole THEN "Completed" ELSE "Err"
    <2>1. Return(p, o) /\ o \in Status \cup {"none", "Err"}
      BY <1>3 DEF Pull, Status
    <2>2. o = "Completed" => whole
      OBVIOUS
    <2> HIDE DEF o
    <2>3. /\ phone' \in Phone /\ phone'.outcome = o /\ phone'.pc \in {"none", "idle"}
          /\ phone'.request = p.request /\ phone'.bytes = p.bytes
          /\ UNCHANGED <<toPc, clean>>
      BY <2>1, ReturnStep
    <2>4. ASSUME whole PROVE p.bytes = [i \in 1..Chunks |-> p.request]
      BY <1>1, <1>3, <2>4, LenProperties
    <2> HIDE DEF whole
    <2>5. PhoneInv'
      BY <2>2, <2>3, <2>4 DEF PhoneInv, Waiting
    <2> QED BY <2>3, <2>5 DEF TypeOK
  <1> QED BY <1>2, <1>3

(* Whatever frame the phone reads, late ones included.                     *)
LEMMA ReceiveInv ==
    ASSUME IInv, receive PROVE IInv'
  <1> USE PcAssumption
  <1> DEFINE f == Head(toPhone[sessions])
             m == f.message
             p == [phone EXCEPT !.rx = @ + 1]
  <1>1. phone \in Phone /\ sessions \in Sessions /\ phone.outcome = "none"
    BY DEF receive, IInv, TypeOK, PhoneInv, Waiting
  <1>2. UNCHANGED <<sessions, agent, executed>>
    BY DEF receive
  <1>3. /\ toPhone' \in [Sessions -> Seq(Frame(ToPhone))]
        /\ \A s \in Sessions : \A k \in DOMAIN toPhone'[s] :
             \E j \in DOMAIN toPhone[s] : toPhone'[s][k] = toPhone[s][j]
    BY <1>1, TailStream DEF receive, IInv
  <1>4. m \in ToPhone /\ (m.type = "Result" => Truthful(sessions, m))
    <2>1. toPhone[sessions] \in Seq(Frame(ToPhone)) /\ toPhone[sessions] # <<>>
      BY <1>1 DEF receive, IInv, TypeOK
    <2>2. 1 \in DOMAIN toPhone[sessions] /\ f = toPhone[sessions][1] /\ f \in Frame(ToPhone)
      BY <2>1, HeadTailProperties, LenProperties
    <2> QED BY <1>1, <2>2 DEF Frame, IInv, ReplyInv
  <1>5. /\ p \in Phone /\ p.pc = phone.pc /\ p.request = phone.request
        /\ p.bytes = phone.bytes /\ p.outcome = "none" /\ p.sha256 = phone.sha256
        /\ p.transfer = phone.transfer
    BY <1>1 DEF Phone
  <1> HIDE DEF p
  <1> SUFFICES /\ phone' \in Phone /\ toPc' \in [Sessions -> Seq(Frame(ToPc))]
               /\ clean' \subseteq Sessions /\ PhoneInv'
    BY <1>2, <1>3, PhoneStep DEF IInv, TypeOK
  <1>ret. ASSUME NEW q \in Phone, NEW o \in (Status \ {"Completed"}) \cup {"none", "Err"},
                 Return(q, o)
          PROVE  /\ phone' \in Phone /\ toPc' \in [Sessions -> Seq(Frame(ToPc))]
                 /\ clean' \subseteq Sessions /\ PhoneInv'
    BY <1>1, <1>2, <1>ret, ReturnStep DEF PhoneInv, Waiting, IInv, TypeOK, Status
  <1>6. CASE f.sequence # phone.rx
    BY <1>1, <1>6, <1>ret DEF receive
  <1>7. CASE f.sequence = phone.rx
    <2>1. Accept(p, m)
      BY <1>7 DEF receive, p
    <2>2. CASE phone.pc = "discovering"
      BY <1>5, <1>ret, <2>1, <2>2 DEF Accept
    <2>3. CASE phone.pc = "executing"
      <3>1. phone.request \in Requests /\ phone.bytes = <<>>
        BY <2>3 DEF IInv, PhoneInv
      <3>2. CASE ~(m.type = "Result" /\ verify_against(m, p.request))
        BY <1>5, <1>ret, <2>1, <2>3, <3>2 DEF Accept
      <3>3. CASE m.type = "Result" /\ verify_against(m, p.request)
        <4>1. m \in Results /\ m.request = p.request /\ m.status \in Status
          BY <1>4, <3>3 DEF ToPhone, Capabilities, Results, verify_against
        <4>2. CASE m.status = "Completed" /\ p.request.action \in Reads
          <5> DEFINE q == [p EXCEPT !.transfer = m.transfer, !.sha256 = m.request]
          <5>1. Pull(q)
            BY <1>5, <2>1, <2>3, <3>3, <4>2 DEF Accept
          <5>2. /\ q \in Phone /\ q.request = p.request /\ q.bytes = p.bytes
                /\ q.sha256 = m.request /\ q.transfer = m.transfer /\ q.outcome = p.outcome
            BY <1>5, <4>1 DEF Phone, Results
          <5>3. executed[sessions][p.request] = 1 /\ m.transfer # NoTransfer
            BY <1>4, <3>3, <4>1, <4>2 DEF Truthful
          <5>4. Len(q.bytes) <= Chunks
            BY <1>5, <3>1, <5>2
          <5> HIDE DEF q
          <5> QED BY <1>1, <1>2, <1>5, <3>1, <4>1, <4>2, <5>1, <5>2, <5>3, <5>4, PullStep
                  DEF IInv
        <4>3. CASE ~(m.status = "Completed" /\ p.request.action \in Reads)
          <5>1. Return(p, m.status)
            BY <1>5, <2>1, <2>3, <3>3, <4>3 DEF Accept
          <5>2. /\ phone' \in Phone /\ phone'.outcome = m.status
                /\ phone'.pc \in {"none", "idle"} /\ phone'.request = p.request
                /\ UNCHANGED <<toPc, clean>>
            BY <1>5, <4>1, <5>1, ReturnStep
          <5>3. m.status = "Completed" => executed[sessions][p.request] = 1
            BY <1>4, <3>3, <4>1 DEF Truthful
          <5>4. PhoneInv'
            BY <1>1, <1>2, <1>5, <3>1, <4>3, <5>2, <5>3 DEF PhoneInv, Waiting
          <5> QED BY <5>2, <5>4 DEF IInv, TypeOK
        <4> QED BY <4>2, <4>3
      <3> QED BY <3>2, <3>3
    <2>4. CASE phone.pc = "pulling"
      <3>1. /\ phone.request \in Requests /\ phone.request.action \in Reads
            /\ phone.sha256 = phone.request /\ phone.transfer # NoTransfer
            /\ executed[sessions][phone.request] = 1 /\ Len(phone.bytes) < Chunks
        BY <2>4 DEF IInv, PhoneInv
      <3> DEFINE chunk == /\ m.type = "ArtifactChunk" /\ m.transfer = p.transfer
                          /\ m.offset = Len(p.bytes)
                 q == [p EXCEPT !.bytes = Append(@, m.data)]
      <3>2. CASE ~chunk
        BY <1>5, <1>ret, <2>1, <2>4, <3>2 DEF Accept
      <3>3. CASE chunk
        <4>1. Pull(q)
          BY <1>5, <2>1, <2>4, <3>3 DEF Accept
        <4>2. m.data \in Requests
          BY <1>4, <3>3 DEF ToPhone, Capabilities, Results
        <4>3. /\ p.bytes \in Seq(Requests) /\ Append(p.bytes, m.data) \in Seq(Requests)
              /\ Len(Append(p.bytes, m.data)) = Len(p.bytes) + 1 /\ Len(p.bytes) \in Nat
          <5>1. p.bytes \in Seq(Requests)
            BY <1>5 DEF Phone
          <5> QED BY <4>2, <5>1, AppendProperties, LenProperties
        <4>4. /\ q \in Phone /\ q.request = p.request /\ q.bytes = Append(p.bytes, m.data)
              /\ q.sha256 = p.sha256 /\ q.transfer = p.transfer /\ q.outcome = p.outcome
          BY <1>5, <4>3 DEF Phone
        <4>5. Len(q.bytes) <= Chunks
          BY <1>5, <3>1, <4>3, <4>4
        <4> HIDE DEF q
        <4> QED BY <1>1, <1>2, <1>5, <3>1, <4>1, <4>4, <4>5, PullStep DEF IInv
      <3> QED BY <3>2, <3>3
    <2> QED BY <2>2, <2>3, <2>4 DEF receive, Waiting
  <1> QED BY <1>6, <1>7

-----------------------------------------------------------------------------

(* An agent record that counts one more frame in each direction.           *)
LEMMA AgentCounts ==
    ASSUME NEW a \in Agent
    PROVE  LET b == [a EXCEPT !.rx = @ + 1, !.tx = @ + 1] IN
             b \in Agent /\ b.completed_requests = a.completed_requests
  <1>1. a.rx + 1 \in Nat /\ a.tx + 1 \in Nat
    BY DEF Agent
  <1> QED BY <1>1 DEF Agent

(* What the agents' steps have in common: a truthful reply is written or   *)
(* lost, and what was carried out stays carried out.                       *)
LEMMA ReplyStep ==
    ASSUME IInv, NEW s \in Sessions, toPc[s] # <<>>, NEW a \in Agent, NEW m \in ToPhone,
           Reply(s, a, m), executed' \in [Sessions -> [Requests -> Nat]],
           \A t \in Sessions, r \in Requests : executed[t][r] = 1 => executed'[t][r] = 1,
           m.type = "Result" /\ m.status = "Completed" =>
               executed'[s][m.request] = 1 /\ (m.request.action \in Reads => m.transfer # NoTransfer)
    PROVE  /\ TypeOK' /\ ReplyInv' /\ PhoneInv'
           /\ agent'[s].completed_requests = a.completed_requests
           /\ \A t \in Sessions \ {s} : agent'[t] = agent[t]
  <1>1. TypeOK /\ agent[s] \in Agent /\ agent[s].tx \in Nat
    BY DEF IInv, TypeOK, Agent
  <1> DEFINE b == [a EXCEPT !.rx = @ + 1, !.tx = @ + 1]
             frame == [sequence |-> agent[s].tx, message |-> m]
  <1>2. b \in Agent /\ b.completed_requests = a.completed_requests
    BY AgentCounts
  <1>3. agent' = [agent EXCEPT ![s] = b]
    BY DEF Reply
  <1> HIDE DEF b
  <1>4. /\ agent' \in [Sessions -> Agent] /\ agent'[s] = b
        /\ \A t \in Sessions \ {s} : agent'[t] = agent[t]
    BY <1>1, <1>2, <1>3 DEF TypeOK
  <1>5. toPc' \in [Sessions -> Seq(Frame(ToPc))]
    <2>1. toPc' = [toPc EXCEPT ![s] = Tail(@)] /\ toPc \in [Sessions -> Seq(Frame(ToPc))]
      BY <1>1 DEF Reply, TypeOK
    <2>2. Tail(toPc[s]) \in Seq(Frame(ToPc))
      BY <2>1, HeadTailProperties
    <2> QED BY <2>1, <2>2
  <1>6. frame \in Frame(ToPhone) /\ frame.message = m
    BY <1>1 DEF Frame
  <1>7. UNCHANGED <<sessions, phone>> /\ clean' \subseteq Sessions
    BY <1>1 DEF Reply, TypeOK
  <1>8. PhoneInv'
    BY <1>7 DEF IInv, PhoneInv
  <1>9. toPhone \in [Sessions -> Seq(Frame(ToPhone))]
    BY <1>1 DEF TypeOK
  <1>10. ASSUME NEW t \in Sessions, NEW k \in DOMAIN toPhone[t],
                toPhone[t][k].message.type = "Result",
                toPhone[t][k].message.status = "Completed"
         PROVE  /\ executed'[t][toPhone[t][k].message.request] = 1
                /\ toPhone[t][k].message.request.action \in Reads =>
                     toPhone[t][k].message.transfer # NoTransfer
    <2>1. toPhone[t][k] \in Frame(ToPhone)
      <3>1. toPhone[t] \in Seq(Frame(ToPhone)) /\ k \in 1..Len(toPhone[t])
        BY <1>9, LenProperties
      <3> QED BY <3>1, ElementOfSeq
    <2>2. toPhone[t][k].message.request \in Requests
      BY <1>10, <2>1 DEF Frame, ToPhone, Capabilities, Results
    <2>3. Truthful(t, toPhone[t][k].message)
      BY <1>10 DEF IInv, ReplyInv
    <2> QED BY <1>10, <2>2, <2>3 DEF Truthful
  <1>11. toPhone' \in [Sessions -> Seq(Frame(ToPhone))] /\ ReplyInv'
    <2>1. CASE UNCHANGED toPhone
      <3>1. toPhone' = toPhone
        BY <2>1
      <3>2. ASSUME NEW t \in Sessions, NEW k \in DOMAIN toPhone'[t],
                   toPhone'[t][k].message.type = "Result"
            PROVE  LET c == toPhone'[t][k].message IN
                     c.status = "Completed" =>
                         /\ executed'[t][c.request] = 1
                         /\ c.request.action \in Reads => c.transfer # NoTransfer
        BY <1>10, <3>1, <3>2
      <3> QED BY <1>9, <3>1, <3>2 DEF ReplyInv, Truthful
    <2>2. CASE toPhone' = [toPhone EXCEPT ![s] = Append(@, frame)]
      <3> HIDE DEF frame
      <3>1. /\ Append(toPhone[s], frame) \in Seq(Frame(ToPhone))
            /\ Len(Append(toPhone[s], frame)) = Len(toPhone[s]) + 1
            /\ \A k \in 1..Len(toPhone[s]) : Append(toPhone[s], frame)[k] = toPhone[s][k]
            /\ Append(toPhone[s], frame)[Len(toPhone[s]) + 1] = frame
            /\ Len(toPhone[s]) \in Nat
        BY <1>6, <1>9, AppendProperties, LenProperties
      <3>2. toPhone' \in [Sessions -> Seq(Frame(ToPhone))]
        BY <1>9, <2>2, <3>1
      <3>3. \A t \in Sessions \ {s} : toPhone'[t] = toPhone[t]
        BY <1>9, <2>2
      <3>4. toPhone'[s] = Append(toPhone[s], frame)
        BY <1>9, <2>2
      <3>5. ASSUME NEW k \in DOMAIN toPhone'[s]
            PROVE  \/ k \in DOMAIN toPhone[s] /\ toPhone'[s][k] = toPhone[s][k]
                   \/ toPhone'[s][k] = frame
        <4>1. k \in 1..(Len(toPhone[s]) + 1) /\ DOMAIN toPhone[s] = 1..Len(toPhone[s])
          BY <1>9, <3>1, <3>4, LenProperties
        <4>2. k \in 1..Len(toPhone[s]) \/ k = Len(toPhone[s]) + 1
          BY <3>1, <4>1
        <4> QED BY <3>1, <3>4, <4>1, <4>2
      <3>6. ASSUME NEW t \in Sessions, NEW k \in DOMAIN toPhone'[t],
                   toPhone'[t][k].message.type = "Result"
            PROVE  LET c == toPhone'[t][k].message IN
                     c.status = "Completed" =>
                         /\ executed'[t][c.request] = 1
                         /\ c.request.action \in Reads => c.transfer # NoTransfer
        <4>1. CASE k \in DOMAIN toPhone[t] /\ toPhone'[t][k] = toPhone[t][k]
          BY <1>10, <3>6, <4>1 DEF Truthful
        <4>2. CASE t = s /\ toPhone'[t][k] = frame
          BY <1>6, <3>6, <4>2
        <4> QED BY <3>3, <3>5, <4>1, <4>2
      <3> QED BY <3>2, <3>6 DEF ReplyInv, Truthful
    <2> QED BY <2>1, <2>2 DEF Reply
  <1>12. TypeOK'
    BY <1>1, <1>4, <1>5, <1>7, <1>11 DEF TypeOK
  <1> QED BY <1>2, <1>4, <1>8, <1>11, <1>12

(* An agent that neither executes nor remembers anything.                  *)
LEMMA CacheKept ==
    ASSUME IInv, NEW s \in Sessions, UNCHANGED executed,
           agent'[s].completed_requests = agent[s].completed_requests,
           \A t \in Sessions \ {s} : agent'[t] = agent[t]
    PROVE  CacheInv'
  <1>1. \A t \in Sessions : agent'[t].completed_requests = agent[t].completed_requests
    OBVIOUS
  <1> QED BY <1>1 DEF IInv, CacheInv, Truthful, Cached

(* An agent that remembers the result of a request with a fresh id.        *)
LEMMA CacheGrows ==
    ASSUME IInv, NEW s \in Sessions, NEW r \in Requests, Cached(s, r) = None,
           NEW c \in Results, c.request = r,
           agent'[s].completed_requests = [agent[s].completed_requests EXCEPT ![r.id] = c],
           \A t \in Sessions \ {s} : agent'[t] = agent[t],
           \/ UNCHANGED executed /\ c.status # "Completed"
           \/ /\ executed' = [executed EXCEPT ![s][r] = @ + 1]
              /\ r.action \in Reads => c.transfer # NoTransfer
    PROVE  CacheInv'
  <1> USE PcAssumption
  <1>1. /\ r.id \in Ids /\ c # None
        /\ executed \in [Sessions -> [Requests -> Nat]]
        /\ agent[s].completed_requests \in [Ids -> Results \cup {None}]
    BY DEF IInv, TypeOK, Agent, Ids
  <1>2. /\ agent'[s].completed_requests[r.id] = c
        /\ \A i \in Ids \ {r.id} :
             agent'[s].completed_requests[i] = agent[s].completed_requests[i]
    BY <1>1
  <1>3. \A q \in Requests : q.id = r.id => executed[s][q] = 0
    BY DEF IInv, CacheInv, Cached
  <1>4. /\ \A q \in Requests \ {r} : executed'[s][q] = executed[s][q]
        /\ \A t \in Sessions \ {s}, q \in Requests : executed'[t][q] = executed[t][q]
        /\ executed'[s][r] \in {0, 1} /\ (c.status = "Completed" => executed'[s][r] = 1)
    BY <1>1, <1>3
  <1>5. ASSUME NEW t \in Sessions, NEW i \in Ids, agent'[t].completed_requests[i] # None
        PROVE  LET d == agent'[t].completed_requests[i] IN
                 /\ d.request.id = i
                 /\ d.status = "Completed" =>
                      /\ executed'[t][d.request] = 1
                      /\ d.request.action \in Reads => d.transfer # NoTransfer
    <2>1. CASE t = s /\ i = r.id
      BY <1>2, <1>4, <2>1
    <2>2. CASE ~(t = s /\ i = r.id)
      <3> DEFINE d == agent[t].completed_requests[i]
      <3>1. agent'[t].completed_requests[i] = d
        BY <1>2, <2>2
      <3>2. d # None /\ d \in Results /\ d.request \in Requests
        BY <1>5, <3>1 DEF IInv, TypeOK, Agent, Results
      <3>3. /\ d.request.id = i
            /\ d.status = "Completed" =>
                 /\ executed[t][d.request] = 1
                 /\ d.request.action \in Reads => d.transfer # NoTransfer
        BY <3>2 DEF IInv, CacheInv, Truthful
      <3> HIDE DEF d
      <3>4. t = s => d.request # r
        BY <2>2, <3>3
      <3> QED BY <1>4, <3>1, <3>2, <3>3, <3>4
    <2> QED BY <2>1, <2>2
  <1>6. ASSUME NEW t \in Sessions, NEW q \in Requests, executed'[t][q] # 0
        PROVE  /\ executed'[t][q] = 1 /\ agent'[t].completed_requests[q.id] # None
               /\ agent'[t].completed_requests[q.id].request = q
    <2>1. CASE t = s /\ q = r
      BY <1>1, <1>2, <1>4, <1>6, <2>1
    <2>2. CASE ~(t = s /\ q = r)
      <3>1. executed'[t][q] = executed[t][q] /\ q.id \in Ids
        BY <1>4, <2>2 DEF Ids
      <3>2. /\ executed[t][q] = 1 /\ agent[t].completed_requests[q.id] # None
            /\ agent[t].completed_requests[q.id].request = q
        BY <1>6, <3>1 DEF IInv, CacheInv, Cached
      <3>3. t = s => q.id # r.id
        BY <1>3, <3>2
      <3>4. agent'[t].completed_requests[q.id] = agent[t].completed_requests[q.id]
        BY <1>2, <3>1, <3>3
      <3> QED BY <3>1, <3>2, <3>4
    <2> QED BY <2>1, <2>2
  <1> QED BY <1>5, <1>6 DEF CacheInv, Truthful, Cached

(* A reply that goes with no new result: an answer to a query or a pull, a *)
(* cached result, a request that was not carried out and is not kept.      *)
LEMMA UnchangedCacheInv ==
    ASSUME IInv, NEW s \in Sessions, toPc[s] # <<>>, NEW m \in ToPhone,
           Reply(s, agent[s], m), UNCHANGED executed,
           m.type = "Result" => Truthful(s, m)
    PROVE  IInv'
  <1>1. agent[s] \in Agent /\ executed' \in [Sessions -> [Requests -> Nat]]
    BY DEF IInv, TypeOK
  <1>2. m.type = "Result" /\ m.status = "Completed" =>
          executed'[s][m.request] = 1 /\ (m.request.action \in Reads => m.transfer # NoTransfer)
    BY DEF Truthful
  <1>3. \A t \in Sessions, r \in Requests : executed[t][r] = 1 => executed'[t][r] = 1
    OBVIOUS
  <1>4. /\ TypeOK' /\ ReplyInv' /\ PhoneInv'
        /\ agent'[s].completed_requests = agent[s].completed_requests
        /\ \A t \in Sessions \ {s} : agent'[t] = agent[t]
    BY <1>1, <1>2, <1>3, ReplyStep
  <1> QED BY <1>4, CacheKept DEF IInv

(* The frame at the head of a stream has its type.                         *)
LEMMA IncomingType ==
    ASSUME TypeOK, NEW s \in Sessions, toPc[s] # <<>>
    PROVE  Incoming(s).message \in ToPc
  <1>1. Incoming(s) \in Frame(ToPc)
    BY HeadTailProperties DEF TypeOK, Incoming
  <1> QED BY <1>1 DEF Frame

(* Frames that are answered without the request cache.                     *)
LEMMA AnswerInv ==
    ASSUME IInv, NEW s \in Sessions, answer_query(s) \/ answer_pull(s) PROVE IInv'
  <1>1. toPc[s] # <<>>
    BY DEF answer_query, answer_pull, Pulls, Opens
  <1>2. CASE answer_query(s)
    <2>1. Capabilities \in ToPhone /\ Capabilities.type # "Result"
      BY DEF ToPhone, Capabilities
    <2> QED BY <1>1, <1>2, <2>1, UnchangedCacheInv DEF answer_query
  <1>3. CASE answer_pull(s)
    <2> DEFINE q == Incoming(s).message
    <2>1. q \in ToPc /\ q.type = "ArtifactPull" /\ Servable(s, q)
      BY <1>1, <1>3, IncomingType DEF answer_pull, Pulls, IInv
    <2>2. q.transfer \in Nat \ {0} /\ q.offset \in Nat
      BY <2>1 DEF ToPc, CapabilityQuery
    <2>3. agent[s].outgoing_artifacts[q.transfer] \in Requests
      <3>1. agent[s].outgoing_artifacts \in Seq(Requests)
        BY DEF IInv, TypeOK, Agent
      <3>2. q.transfer \in 1..Len(agent[s].outgoing_artifacts)
        BY <2>1, <3>1, LenProperties DEF Servable
      <3> QED BY <3>1, <3>2, ElementOfSeq
    <2> DEFINE m == chunk_at(s, q.transfer, q.offset)
    <2>4. m \in ToPhone /\ m.type # "Result"
      BY <2>2, <2>3 DEF chunk_at, ArtifactChunk, ToPhone
    <2>5. Reply(s, agent[s], m) /\ UNCHANGED executed
      BY <1>3 DEF answer_pull
    <2> HIDE DEF m
    <2> QED BY <1>1, <2>4, <2>5, UnchangedCacheInv
  <1> QED BY <1>2, <1>3

(* Requests that are answered from the cache, or not carried out.          *)
LEMMA NotKeptInv ==
    ASSUME IInv, NEW s \in Sessions, NEW r \in Requests,
           \/ execute_request_cached(s, r)
           \/ execute_request_not_installed(s, r)
           \/ execute_request_io(s, r)
    PROVE  IInv'
  <1>1. toPc[s] # <<>>
    BY DEF execute_request_cached, execute_request_not_installed, execute_request_io,
           Handled, Asked, Opens
  <1>2. CASE execute_request_cached(s, r)
    <2>1. r.id \in Ids
      BY DEF Ids
    <2>2. Cached(s, r) \in Results /\ Truthful(s, Cached(s, r))
      BY <1>2, <2>1 DEF execute_request_cached, Cached, IInv, TypeOK, CacheInv, Agent
    <2>3. Cached(s, r) \in ToPhone
      BY <2>2 DEF ToPhone
    <2>4. Reply(s, agent[s], Cached(s, r)) /\ UNCHANGED executed
      BY <1>2 DEF execute_request_cached
    <2> QED BY <1>1, <2>2, <2>3, <2>4, UnchangedCacheInv
  <1>3. ASSUME NEW status \in {"Rejected", "Retryable"}
        PROVE  LET m == RemoteResult(r, status, NoTransfer) IN
                 m \in ToPhone /\ Truthful(s, m)
    BY <1>3 DEF RemoteResult, Truthful, ToPhone, Results, Status, NoTransfer
  <1>4. CASE execute_request_not_installed(s, r)
    BY <1>1, <1>3, <1>4, UnchangedCacheInv DEF execute_request_not_installed
  <1>5. CASE execute_request_io(s, r)
    BY <1>1, <1>3, <1>5, UnchangedCacheInv DEF execute_request_io
  <1> QED BY <1>2, <1>4, <1>5

(* A handler that refuses: the refusal is kept under the id.               *)
LEMMA DeniedInv ==
    ASSUME IInv, NEW s \in Sessions, NEW r \in Requests, execute_request_denied(s, r)
    PROVE  IInv'
  <1> DEFINE c == RemoteResult(r, "Rejected", NoTransfer)
             a == remember(s, c)
  <1>1. /\ c \in Results /\ c \in ToPhone /\ c.request = r /\ c.status = "Rejected"
        /\ r.id \in Ids
    BY DEF RemoteResult, Results, ToPhone, Status, NoTransfer, Ids
  <1>2. /\ toPc[s] # <<>> /\ Cached(s, r) = None
        /\ Reply(s, a, c) /\ UNCHANGED executed
    BY DEF execute_request_denied, Handled, Asked, Opens
  <1> HIDE DEF c
  <1>3. /\ a \in Agent
        /\ a.completed_requests = [agent[s].completed_requests EXCEPT ![r.id] = c]
    BY <1>1 DEF remember, Agent, IInv, TypeOK
  <1> HIDE DEF a
  <1>4. executed' \in [Sessions -> [Requests -> Nat]]
    BY <1>2 DEF IInv, TypeOK
  <1>5. \A t \in Sessions, q \in Requests : executed[t][q] = 1 => executed'[t][q] = 1
    BY <1>2
  <1>6. /\ TypeOK' /\ ReplyInv' /\ PhoneInv'
        /\ agent'[s].completed_requests = a.completed_requests
        /\ \A t \in Sessions \ {s} : agent'[t] = agent[t]
    BY <1>1, <1>2, <1>3, <1>4, <1>5, ReplyStep
  <1>7. CacheInv'
    BY <1>1, <1>2, <1>3, <1>6, CacheGrows
  <1> QED BY <1>6, <1>7 DEF IInv

(* A handler that succeeds: only an id that was never carried out in this  *)
(* session gets here, which is what makes the count 1.                     *)
LEMMA CompletedInv ==
    ASSUME IInv, NEW s \in Sessions, NEW r \in Requests, execute_request_completed(s, r)
    PROVE  IInv'
  <1> DEFINE c == RemoteResult(r, "Completed", store_artifacts(s, r))
             b == remember(s, c)
             a == IF r.action \in Reads THEN [b EXCEPT !.outgoing_artifacts = Append(@, r)] ELSE b
  <1>1. agent[s] \in Agent /\ agent[s].outgoing_artifacts \in Seq(Requests)
    BY DEF IInv, TypeOK, Agent
  <1>2. /\ Append(agent[s].outgoing_artifacts, r) \in Seq(Requests)
        /\ Len(agent[s].outgoing_artifacts) \in Nat
    BY <1>1, AppendProperties, LenProperties
  <1>3. /\ store_artifacts(s, r) \in Nat
        /\ r.action \in Reads => store_artifacts(s, r) # NoTransfer
    BY <1>2 DEF store_artifacts, NoTransfer
  <1>4. /\ c \in Results /\ c \in ToPhone /\ c.request = r /\ c.status = "Completed"
        /\ c.transfer = store_artifacts(s, r) /\ r.id \in Ids
    BY <1>3 DEF RemoteResult, Results, ToPhone, Status, Ids
  <1>5. /\ toPc[s] # <<>> /\ Cached(s, r) = None /\ Reply(s, a, c)
        /\ executed' = [executed EXCEPT ![s][r] = @ + 1]
    BY DEF execute_request_completed, Handled, Asked, Opens
  <1> HIDE DEF c
  <1>6. /\ b \in Agent /\ b.outgoing_artifacts = agent[s].outgoing_artifacts
        /\ b.completed_requests = [agent[s].completed_requests EXCEPT ![r.id] = c]
    BY <1>1, <1>4 DEF remember, Agent
  <1> HIDE DEF b
  <1>7. a \in Agent /\ a.completed_requests = b.completed_requests
    BY <1>2, <1>6 DEF Agent
  <1> HIDE DEF a
  <1>8. executed \in [Sessions -> [Requests -> Nat]] /\ executed[s][r] = 0
    <2>1. executed \in [Sessions -> [Requests -> Nat]]
      BY DEF IInv, TypeOK
    <2>2. executed[s][r] # 0 => Cached(s, r) # None
      BY DEF IInv, CacheInv
    <2> QED BY <1>5, <2>1, <2>2
  <1>9. /\ executed' \in [Sessions -> [Requests -> Nat]] /\ executed'[s][r] = 1
        /\ \A t \in Sessions, q \in Requests : executed[t][q] = 1 => executed'[t][q] = 1
    BY <1>5, <1>8
  <1>10. /\ TypeOK' /\ ReplyInv' /\ PhoneInv'
         /\ agent'[s].completed_requests = a.completed_requests
         /\ \A t \in Sessions \ {s} : agent'[t] = agent[t]
    BY <1>3, <1>4, <1>5, <1>7, <1>9, ReplyStep
  <1>11. CacheInv'
    <2>1. agent'[s].completed_requests = [agent[s].completed_requests EXCEPT ![r.id] = c]
      BY <1>6, <1>7, <1>10
    <2>2. r.action \in Reads => c.transfer # NoTransfer
      BY <1>3, <1>4
    <2> QED BY <1>4, <1>5, <1>10, <2>1, <2>2, CacheGrows
  <1> QED BY <1>10, <1>11 DEF IInv

(* A frame that is refused is at most counted.                             *)
LEMMA RefuseInv ==
    ASSUME IInv, NEW s \in Sessions, refuse(s) PROVE IInv'
  <1>1. /\ toPc' = [toPc EXCEPT ![s] = Tail(@)] /\ toPc[s] # <<>>
        /\ clean' = clean \ {s} /\ UNCHANGED <<sessions, phone, toPhone, executed>>
        /\ (agent' = agent \/ agent' = [agent EXCEPT ![s].rx = @ + 1])
    BY DEF refuse
  <1>2. /\ agent' \in [Sessions -> Agent]
        /\ \A t \in Sessions : agent'[t].completed_requests = agent[t].completed_requests
    <2>1. agent \in [Sessions -> Agent] /\ agent[s] \in Agent /\ agent[s].rx + 1 \in Nat
      BY DEF IInv, TypeOK, Agent
    <2> DEFINE b == [agent[s] EXCEPT !.rx = @ + 1]
    <2>2. b \in Agent /\ b.completed_requests = agent[s].completed_requests
      BY <2>1 DEF Agent
    <2>3. agent' = agent \/ agent' = [agent EXCEPT ![s] = b]
      BY <1>1
    <2> HIDE DEF b
    <2> QED BY <2>1, <2>2, <2>3
  <1>3. toPc' \in [Sessions -> Seq(Frame(ToPc))]
    <2>1. toPc \in [Sessions -> Seq(Frame(ToPc))] /\ Tail(toPc[s]) \in Seq(Frame(ToPc))
      BY <1>1, HeadTailProperties DEF IInv, TypeOK
    <2> QED BY <1>1, <2>1
  <1>4. TypeOK'
    BY <1>1, <1>2, <1>3 DEF IInv, TypeOK
  <1>5. CacheInv'
    BY <1>1, <1>2 DEF IInv, CacheInv, Truthful, Cached
  <1>6. ReplyInv' /\ PhoneInv'
    BY <1>1 DEF IInv, ReplyInv, PhoneInv, Truthful
  <1> QED BY <1>4, <1>5, <1>6 DEF IInv

-----------------------------------------------------------------------------

(* Every step of either end keeps the invariant.                           *)
LEMMA NextInv == IInv /\ [Next]_vars => IInv'
  <1> SUFFICES ASSUME IInv, [Next]_vars PROVE IInv'
    OBVIOUS
  <1>1. CASE connect
    BY <1>1, ConnectInv
  <1>2. CASE \E r \in Requests : execute(r)
    BY <1>2, ExecuteInv
  <1>3. CASE receive
    BY <1>3, ReceiveInv
  <1>4. CASE timeout
    BY <1>4, TimeoutInv
  <1>5. CASE \E s \in 1..sessions : handle_encrypted_frame(s)
    <2>1. PICK s \in 1..sessions : handle_encrypted_frame(s)
      BY <1>5
    <2>2. s \in Sessions
      BY PcAssumption DEF IInv, TypeOK, Sessions
    <2>3. CASE answer_query(s) \/ answer_pull(s)
      BY <2>2, <2>3, AnswerInv
    <2>4. CASE refuse(s)
      BY <2>2, <2>4, RefuseInv
    <2>5. ASSUME NEW r \in Requests,
                 \/ execute_request_cached(s, r) \/ execute_request_not_installed(s, r)
                 \/ execute_request_io(s, r)
          PROVE  IInv'
      BY <2>2, <2>5, NotKeptInv
    <2>6. ASSUME NEW r \in Requests, execute_request_completed(s, r) PROVE IInv'
      BY <2>2, <2>6, CompletedInv
    <2>7. ASSUME NEW r \in Requests, execute_request_denied(s, r) PROVE IInv'
      BY <2>2, <2>7, DeniedInv
    <2> QED BY <2>1, <2>3, <2>4, <2>5, <2>6, <2>7 DEF handle_encrypted_frame
  <1>6. CASE UNCHANGED vars
    BY <1>6 DEF vars, IInv, TypeOK, CacheInv, ReplyInv, PhoneInv, Truthful, Cached
  <1> QED BY <1>1, <1>2, <1>3, <1>4, <1>5, <1>6 DEF Next

(* The inductive invariant holds in every reachable state.                 *)
THEOREM Invariance == Spec => []IInv
  BY InitInv, NextInv, PTL DEF Spec

(* Types: in particular a transfer id is never 0, so "no artifact" is not  *)
(* mistaken for the first one.                                             *)
THEOREM TypeCorrect == Spec => []TypeOK
  <1>1. IInv => TypeOK
    BY DEF IInv
  <1> QED BY <1>1, Invariance, PTL

(* The cache of completed requests (agent.rs): within a session an         *)
(* ActionId is carried out at most once, for one action.                   *)
THEOREM OncePerSession == Spec => []AtMostOncePerSession
  <1>1. ASSUME IInv PROVE AtMostOncePerSession
    <2> SUFFICES ASSUME NEW s \in Sessions, NEW q \in Requests, NEW r \in Requests,
                        q.id = r.id, executed[s][q] > 0, executed[s][r] > 0
                 PROVE  q = r /\ executed[s][r] = 1
      BY DEF AtMostOncePerSession
    <2>1. executed[s][q] # 0 /\ executed[s][r] # 0
      OBVIOUS
    <2>2. Cached(s, q).request = q /\ Cached(s, r).request = r /\ executed[s][r] = 1
      BY <1>1, <2>1 DEF IInv, CacheInv
    <2> QED BY <2>2 DEF Cached
  <1> QED BY <1>1, Invariance, PTL

(* verify_against and the checks of pull_artifact (adapter.rs): a result   *)
(* and an artifact that the phone accepts are those of its own request.    *)
THEOREM OwnResult == Spec => []ResultForItsRequest
  <1>1. IInv => ResultForItsRequest
    BY DEF IInv, PhoneInv, ResultForItsRequest
  <1> QED BY <1>1, Invariance, PTL

-----------------------------------------------------------------------------
(* Both ends in step.  The sequence numbers of SecureSession and the       *)
(* frames under way are related, while nothing was late, lost or refused,  *)
(* by what the phone waits for.                                            *)

(* The artifact of a Completed read is in the agent's outgoing_artifacts.  *)
ArtifactOf(a, c) ==
    c.status = "Completed" /\ c.request.action \in Reads =>
        /\ c.transfer \in DOMAIN a.outgoing_artifacts
        /\ a.outgoing_artifacts[c.transfer] = c.request

(* The frame the phone has sent, and the one it waits for.                 *)
Asking(p, m) ==
    \/ p.pc = "discovering" /\ m = CapabilityQuery
    \/ p.pc = "executing" /\ m = Request(p.request)
    \/ p.pc = "pulling" /\ m = ArtifactPull(p.transfer, Len(p.bytes))

Answering(p, a, m) ==
    \/ p.pc = "discovering" /\ m = Capabilities
    \/ p.pc = "executing" /\ m \in Results /\ m.request = p.request /\ ArtifactOf(a, m)
    \/ p.pc = "pulling" /\ m = ArtifactChunk(p.transfer, Len(p.bytes), p.request)

(* What pull_artifact has read so far.                                     *)
Pulled(p, a) ==
    p.pc = "pulling" =>
        /\ p.transfer \in DOMAIN a.outgoing_artifacts
        /\ a.outgoing_artifacts[p.transfer] = p.request
        /\ \A i \in DOMAIN p.bytes : p.bytes[i] = p.request

Quiet(p, a, requests, replies) ==
    /\ Len(requests) = 0 /\ Len(replies) = 0
    /\ a.rx = p.tx /\ a.tx = p.rx

InStep(p, a, requests, replies) ==
    /\ p.outcome # "Err"
    /\ \/ p.pc = "idle" /\ Quiet(p, a, requests, replies)
       \/ /\ Len(requests) = 1 /\ Len(replies) = 0
          /\ requests[1].sequence = a.rx /\ p.tx = a.rx + 1 /\ a.tx = p.rx
          /\ Asking(p, requests[1].message)
       \/ /\ Len(requests) = 0 /\ Len(replies) = 1
          /\ replies[1].sequence = p.rx /\ a.tx = p.rx + 1 /\ a.rx = p.tx
          /\ Answering(p, a, replies[1].message)
    /\ Pulled(p, a)

Synced ==
    sessions \in clean =>
        InStep(phone, agent[sessions], toPc[sessions], toPhone[sessions])

Stored ==
    \A s \in Sessions : \A i \in Ids :
        agent[s].completed_requests[i] # None =>
            ArtifactOf(agent[s], agent[s].completed_requests[i])

Unused ==
    \A s \in Sessions : s > sessions => agent[s] = DesktopAgent /\ toPc[s] = <<>>

StepInv == IInv /\ Synced /\ Stored /\ Unused

(* The empty system is in step.                                            *)
LEMMA InitStep == Init => StepInv
  <1> SUFFICES ASSUME Init PROVE StepInv
    OBVIOUS
  <1>1. IInv
    BY InitInv
  <1>2. Synced
    BY DEF Init, Synced, Sessions
  <1>3. Stored
    BY DEF Init, Stored, DesktopAgent
  <1>4. Unused
    BY DEF Init, Unused
  <1> QED BY <1>1, <1>2, <1>3, <1>4 DEF StepInv

(* Sealing a frame in a quiet session (exchange_message): the session is   *)
(* no longer clean, or the frame is the only one under way.                *)
LEMMA SealSync ==
    ASSUME TypeOK, NEW s \in Sessions, NEW p \in Phone, NEW next \in Phone,
           NEW m \in ToPc, Seal(p, s, m, next), s \in clean',
           Len(toPc[s]) = 0, agent[s].rx = p.tx, agent[s].tx = p.rx,
           next.rx = p.rx, next.outcome # "Err", Asking(next, m), Pulled(next, agent[s]),
           UNCHANGED agent, Len(toPhone'[s]) = 0
    PROVE  InStep(phone', agent'[s], toPc'[s], toPhone'[s])
  <1> DEFINE frame == [sequence |-> p.tx, message |-> m]
  <1>1. /\ phone' = [next EXCEPT !.tx = p.tx + 1]
        /\ toPc' = [toPc EXCEPT ![s] = Append(@, frame)]
    BY DEF Seal
  <1>2. p.tx \in Nat /\ frame \in Frame(ToPc) /\ frame.sequence = p.tx /\ frame.message = m
    BY DEF Phone, Frame
  <1>3. toPc[s] \in Seq(Frame(ToPc)) /\ toPc'[s] = Append(toPc[s], frame)
    BY <1>1 DEF TypeOK
  <1> HIDE DEF frame
  <1>4. Len(toPc'[s]) = 1 /\ toPc'[s][1] = frame
    BY <1>2, <1>3, AppendProperties
  <1>5. /\ phone'.pc = next.pc /\ phone'.tx = p.tx + 1 /\ phone'.rx = next.rx
        /\ phone'.request = next.request /\ phone'.transfer = next.transfer
        /\ phone'.bytes = next.bytes /\ phone'.outcome = next.outcome
    BY <1>1, <1>2 DEF Phone
  <1>6. Asking(phone', m) /\ Pulled(phone', agent[s])
    BY <1>5 DEF Asking, Pulled
  <1> QED BY <1>2, <1>4, <1>5, <1>6 DEF InStep

(* Seal never cleans a session.                                            *)
LEMMA SealClean ==
    ASSUME NEW p, NEW s, NEW m, NEW next, Seal(p, s, m, next)
    PROVE  clean' \subseteq clean
  BY DEF Seal

(* Another connection starts in step: its agent is new.                    *)
LEMMA ConnectSync ==
    ASSUME StepInv, connect PROVE Synced' /\ Stored' /\ Unused'
  <1> USE PcAssumption
  <1>1. /\ sessions' = sessions + 1 /\ sessions \in Nat /\ sessions' \in Sessions
        /\ TypeOK /\ UNCHANGED <<agent, executed>>
        /\ Seal(Adapter("none"), sessions', CapabilityQuery, Adapter("discovering"))
        /\ toPhone' = [s \in Sessions |-> <<>>]
    BY SMTT(40) DEF connect, Sessions, StepInv, IInv, TypeOK
  <1>2. Adapter("none") \in Phone /\ Adapter("discovering") \in Phone /\ CapabilityQuery \in ToPc
    BY DEF Adapter, Phone, NoTransfer, Waiting, ToPc
  <1>3. agent[sessions'] = DesktopAgent /\ toPc[sessions'] = <<>>
    BY <1>1 DEF StepInv, Unused
  <1>4. Synced'
    <2> SUFFICES ASSUME sessions' \in clean'
                 PROVE  InStep(phone', agent'[sessions'], toPc'[sessions'], toPhone'[sessions'])
      BY DEF Synced
    <2>1. Len(toPc[sessions']) = 0 /\ Len(toPhone'[sessions']) = 0
      BY <1>1, <1>3
    <2>2. agent[sessions'].rx = Adapter("none").tx /\ agent[sessions'].tx = Adapter("none").rx
      BY <1>3 DEF DesktopAgent, Adapter
    <2>3. /\ Adapter("discovering").rx = Adapter("none").rx
          /\ Adapter("discovering").outcome # "Err"
          /\ Asking(Adapter("discovering"), CapabilityQuery)
          /\ Pulled(Adapter("discovering"), agent[sessions'])
      BY DEF Adapter, Asking, Pulled
    <2> QED BY <1>1, <1>2, <2>1, <2>2, <2>3, SealSync
  <1>5. Stored'
    BY <1>1 DEF StepInv, Stored
  <1>6. Unused'
    <2> SUFFICES ASSUME NEW s \in Sessions, s > sessions'
                 PROVE  agent'[s] = DesktopAgent /\ toPc'[s] = <<>>
      BY DEF Unused
    <2>1. s > sessions /\ s # sessions'
      BY <1>1 DEF Sessions
    <2>2. toPc'[s] = toPc[s]
      BY <1>1, <2>1 DEF Seal, TypeOK
    <2> QED BY <1>1, <2>1, <2>2 DEF StepInv, Unused
  <1> QED BY <1>4, <1>5, <1>6

(* The phone reads or writes its own stream only.                          *)
LEMMA OwnStream ==
    ASSUME StepInv, UNCHANGED <<sessions, agent>>,
           \A s \in Sessions \ {sessions} : toPc'[s] = toPc[s]
    PROVE  Stored' /\ Unused'
  <1>1. Stored'
    BY DEF StepInv, Stored
  <1>2. Unused'
    <2> SUFFICES ASSUME NEW s \in Sessions, s > sessions
                 PROVE  agent'[s] = DesktopAgent /\ toPc'[s] = <<>>
      BY DEF Unused
    <2>1. s # sessions
      BY PcAssumption DEF Sessions, StepInv, IInv, TypeOK
    <2> QED BY <2>1 DEF StepInv, Unused
  <1> QED BY <1>1, <1>2

(* A new call finds the session quiet.                                     *)
LEMMA ExecuteSync ==
    ASSUME StepInv, NEW r \in Requests, execute(r) PROVE Synced' /\ Stored' /\ Unused'
  <1> DEFINE next == [phone EXCEPT !.pc = "executing", !.request = r, !.transfer = NoTransfer,
                                   !.sha256 = None, !.bytes = <<>>, !.outcome = "none"]
  <1>1. TypeOK /\ phone \in Phone /\ sessions \in Sessions /\ phone.pc = "idle"
    BY DEF execute, StepInv, IInv, TypeOK, PhoneInv
  <1>2. <<>> \in Seq(Requests)
    OBVIOUS
  <1>3. /\ next \in Phone /\ next.pc = "executing" /\ next.request = r
        /\ next.outcome = "none" /\ next.rx = phone.rx
    BY <1>1, <1>2 DEF Phone, Waiting, NoTransfer
  <1>4. Request(r) \in ToPc
    BY DEF Request, ToPc
  <1>5. Seal(phone, sessions, Request(r), next) /\ UNCHANGED <<sessions, agent, toPhone, executed>>
    BY DEF execute
  <1> HIDE DEF next
  <1>6. Synced'
    <2> SUFFICES ASSUME sessions \in clean'
                 PROVE  InStep(phone', agent'[sessions], toPc'[sessions], toPhone'[sessions])
      BY <1>5 DEF Synced
    <2>1. sessions \in clean
      BY <1>5, SealClean
    <2>2. InStep(phone, agent[sessions], toPc[sessions], toPhone[sessions])
      BY <2>1 DEF StepInv, Synced
    <2>3. Quiet(phone, agent[sessions], toPc[sessions], toPhone[sessions])
      BY <1>1, <2>2 DEF InStep, Asking, Answering
    <2>4. Asking(next, Request(r)) /\ Pulled(next, agent[sessions]) /\ next.outcome # "Err"
      BY <1>3 DEF Asking, Pulled
    <2>5. /\ Len(toPc[sessions]) = 0 /\ Len(toPhone'[sessions]) = 0
          /\ agent[sessions].rx = phone.tx /\ agent[sessions].tx = phone.rx
      BY <1>5, <2>3 DEF Quiet
    <2> QED BY <1>1, <1>3, <1>4, <1>5, <2>4, <2>5, SealSync
  <1>7. \A s \in Sessions \ {sessions} : toPc'[s] = toPc[s]
    BY <1>1, <1>5 DEF Seal, TypeOK
  <1> QED BY <1>5, <1>6, <1>7, OwnStream

(* pull_artifact in a quiet session: the next chunk is asked for, or every *)
(* chunk read is of the artifact and the hash agrees.                      *)
LEMMA PullSync ==
    ASSUME TypeOK, sessions \in Sessions, NEW p \in Phone, Pull(p), sessions \in clean',
           UNCHANGED <<sessions, agent>>, Len(toPhone'[sessions]) = 0,
           Len(toPc[sessions]) = 0,
           agent[sessions].rx = p.tx, agent[sessions].tx = p.rx,
           p.outcome = "none", p.pc \in {"executing", "pulling"},
           p.sha256 = p.request, p.transfer # NoTransfer,
           p.transfer \in DOMAIN agent[sessions].outgoing_artifacts,
           agent[sessions].outgoing_artifacts[p.transfer] = p.request,
           \A i \in DOMAIN p.bytes : p.bytes[i] = p.request
    PROVE  InStep(phone', agent'[sessions], toPc'[sessions], toPhone'[sessions])
  <1> USE PcAssumption
  <1>1. p.bytes \in Seq(Requests) /\ Len(p.bytes) \in Nat /\ p.transfer \in Nat \ {0}
    BY PhoneFields, LenProperties DEF NoTransfer
  <1>2. CASE Len(p.bytes) < Chunks
    <2> DEFINE next == [p EXCEPT !.pc = "pulling"]
               m == ArtifactPull(p.transfer, Len(p.bytes))
    <2>1. next \in Phone /\ next.pc = "pulling"
          /\ next.request = p.request /\ next.bytes = p.bytes /\ next.rx = p.rx
          /\ next.transfer = p.transfer /\ next.outcome = p.outcome
      BY DEF Phone, Waiting
    <2>2. m \in ToPc
      BY <1>1 DEF ArtifactPull, ToPc
    <2>3. Seal(p, sessions, m, next)
      BY <1>2 DEF Pull
    <2> HIDE DEF next
    <2>4. Asking(next, m) /\ Pulled(next, agent[sessions]) /\ next.outcome # "Err"
      BY <2>1 DEF Asking, Pulled
    <2> HIDE DEF m
    <2> QED BY <2>1, <2>2, <2>3, <2>4, SealSync
  <1>3. CASE ~(Len(p.bytes) < Chunks)
    <2>1. Return(p, "Completed")
      BY <1>3 DEF Pull
    <2>2. /\ phone'.outcome = "Completed" /\ phone'.pc = "idle"
          /\ phone'.tx = p.tx /\ phone'.rx = p.rx /\ UNCHANGED toPc
      BY <2>1 DEF Return, Phone
    <2> QED BY <2>2 DEF InStep, Quiet, Pulled
  <1> QED BY <1>2, <1>3

(* The only reply under way is the one the call waits for.                 *)
LEMMA ReceiveSync ==
    ASSUME StepInv, receive PROVE Synced' /\ Stored' /\ Unused'
  <1> USE PcAssumption
  <1> DEFINE f == Head(toPhone[sessions])
             m == f.message
             p == [phone EXCEPT !.rx = @ + 1]
             a == agent[sessions]
  <1>1. /\ TypeOK /\ phone \in Phone /\ sessions \in Sessions /\ phone.outcome = "none"
        /\ phone.pc \in Waiting /\ toPhone[sessions] # <<>>
    BY DEF receive, StepInv, IInv, TypeOK, PhoneInv, Waiting
  <1>2. /\ UNCHANGED <<sessions, agent, executed>>
        /\ toPhone' = [toPhone EXCEPT ![sessions] = Tail(@)]
    BY DEF receive
  <1>3. clean' \subseteq clean /\ \A s \in Sessions \ {sessions} : toPc'[s] = toPc[s]
    BY <1>1 DEF receive, Accept, Pull, Seal, Return, Waiting, TypeOK, Phone
  <1>4. Synced'
    <2> SUFFICES ASSUME sessions \in clean'
                 PROVE  InStep(phone', agent'[sessions], toPc'[sessions], toPhone'[sessions])
      BY <1>2 DEF Synced
    <2>1. InStep(phone, a, toPc[sessions], toPhone[sessions])
      BY <1>3 DEF StepInv, Synced
    <2>2. /\ toPhone[sessions] \in Seq(Frame(ToPhone)) /\ Len(toPhone[sessions]) # 0
          /\ f = toPhone[sessions][1]
          /\ toPhone'[sessions] = Tail(toPhone[sessions])
          /\ Len(toPhone'[sessions]) = Len(toPhone[sessions]) - 1
      BY <1>1, <1>2, HeadTailProperties, EmptySeq, LenProperties DEF TypeOK
    <2>3. /\ Len(toPc[sessions]) = 0 /\ Len(toPhone[sessions]) = 1
          /\ f.sequence = phone.rx /\ a.tx = phone.rx + 1 /\ a.rx = phone.tx
          /\ Answering(phone, a, m) /\ Pulled(phone, a)
      BY <2>1, <2>2 DEF InStep, Quiet
    <2>4. /\ p \in Phone /\ p.pc = phone.pc /\ p.request = phone.request
          /\ p.bytes = phone.bytes /\ p.outcome = "none" /\ p.sha256 = phone.sha256
          /\ p.transfer = phone.transfer /\ p.tx = phone.tx /\ p.rx = phone.rx + 1
      BY <1>1 DEF Phone
    <2>5. Accept(p, m)
      BY <2>3 DEF receive
    <2>6. Len(toPhone'[sessions]) = 0 /\ a.rx = p.tx /\ a.tx = p.rx
      BY <2>2, <2>3, <2>4
    <2> HIDE DEF p, m
    <2>ret. ASSUME NEW o \in Status \cup {"none"}, Return(p, o)
            PROVE  InStep(phone', agent'[sessions], toPc'[sessions], toPhone'[sessions])
      <3>1. phone'.pc = "idle" /\ phone'.outcome = o /\ phone'.tx = p.tx /\ phone'.rx = p.rx
            /\ UNCHANGED toPc
        BY <2>4, <2>ret DEF Return, Phone, Status
      <3>2. o # "Err"
        BY DEF Status
      <3> QED BY <1>2, <2>3, <2>6, <3>1, <3>2 DEF InStep, Quiet, Pulled
    <2>7. CASE phone.pc = "discovering"
      <3>1. m = Capabilities
        BY <2>3, <2>7 DEF Answering
      <3> QED BY <2>4, <2>5, <2>7, <2>ret, <3>1 DEF Accept
    <2>8. CASE phone.pc = "executing"
      <3>1. m \in Results /\ m.request = phone.request /\ ArtifactOf(a, m)
        BY <2>3, <2>8 DEF Answering
      <3>2. m.type = "Result" /\ verify_against(m, p.request) /\ m.status \in Status
        BY <2>4, <3>1 DEF Results, verify_against
      <3>3. phone.request \in Requests /\ phone.bytes = <<>>
        BY <2>8 DEF StepInv, IInv, PhoneInv
      <3>4. CASE m.status = "Completed" /\ p.request.action \in Reads
        <4> DEFINE q == [p EXCEPT !.transfer = m.transfer, !.sha256 = m.request]
        <4>1. Pull(q)
          BY <2>4, <2>5, <2>8, <3>2, <3>4 DEF Accept
        <4>2. /\ q \in Phone /\ q.request = p.request /\ q.bytes = p.bytes /\ q.pc = p.pc
              /\ q.sha256 = m.request /\ q.transfer = m.transfer /\ q.outcome = p.outcome
              /\ q.tx = p.tx /\ q.rx = p.rx
          BY <2>4, <3>1 DEF Phone, Results
        <4> HIDE DEF q
        <4>3. m.transfer \in DOMAIN a.outgoing_artifacts /\ a.outgoing_artifacts[m.transfer] = m.request
          BY <2>4, <3>1, <3>4 DEF ArtifactOf
        <4>4. m.transfer # NoTransfer
          BY <1>1, <4>3, LenProperties DEF NoTransfer, TypeOK, Agent
        <4>5. \A i \in DOMAIN q.bytes : q.bytes[i] = q.request
          BY <2>4, <3>3, <4>2
        <4>6. q.sha256 = q.request /\ q.outcome = "none" /\ q.pc \in {"executing", "pulling"}
              /\ agent[sessions].rx = q.tx /\ agent[sessions].tx = q.rx
          BY <2>4, <2>6, <2>8, <3>1, <4>2
        <4>7. /\ q.transfer # NoTransfer
              /\ q.transfer \in DOMAIN agent[sessions].outgoing_artifacts
              /\ agent[sessions].outgoing_artifacts[q.transfer] = q.request
          BY <2>4, <3>1, <4>2, <4>3, <4>4
        <4> QED BY <1>1, <1>2, <2>3, <2>6, <4>1, <4>2, <4>5, <4>6, <4>7, PullSync
      <3>5. CASE ~(m.status = "Completed" /\ p.request.action \in Reads)
        <4>1. Return(p, m.status)
          BY <2>4, <2>5, <2>8, <3>2, <3>5 DEF Accept
        <4> QED BY <3>2, <4>1, <2>ret
      <3> QED BY <3>4, <3>5
    <2>9. CASE phone.pc = "pulling"
      <3> DEFINE q == [p EXCEPT !.bytes = Append(@, m.data)]
      <3>1. /\ phone.request \in Requests /\ phone.sha256 = phone.request
            /\ phone.transfer # NoTransfer
        BY <2>9 DEF StepInv, IInv, PhoneInv
      <3>2. m = ArtifactChunk(phone.transfer, Len(phone.bytes), phone.request)
        BY <2>3, <2>9 DEF Answering
      <3>3. /\ m.type = "ArtifactChunk" /\ m.transfer = p.transfer /\ m.offset = Len(p.bytes)
            /\ m.data = phone.request
        BY <2>4, <3>2 DEF ArtifactChunk
      <3>4. Pull(q)
        BY <2>4, <2>5, <2>9, <3>3 DEF Accept
      <3>5. /\ p.bytes \in Seq(Requests) /\ Append(p.bytes, m.data) \in Seq(Requests)
            /\ Len(p.bytes) \in Nat
            /\ Len(Append(p.bytes, m.data)) = Len(p.bytes) + 1
            /\ DOMAIN p.bytes = 1..Len(p.bytes)
            /\ DOMAIN Append(p.bytes, m.data) = 1..(Len(p.bytes) + 1)
            /\ \A i \in 1..Len(p.bytes) : Append(p.bytes, m.data)[i] = p.bytes[i]
            /\ Append(p.bytes, m.data)[Len(p.bytes) + 1] = m.data
        <4>1. p.bytes \in Seq(Requests) /\ m.data \in Requests
          BY <2>4, <3>1, <3>3 DEF Phone
        <4>2. Append(p.bytes, m.data) \in Seq(Requests)
          BY <4>1, AppendProperties
        <4> QED BY <4>1, <4>2, AppendProperties, LenProperties
      <3>6. /\ q \in Phone /\ q.request = p.request /\ q.bytes = Append(p.bytes, m.data)
            /\ q.sha256 = p.sha256 /\ q.transfer = p.transfer /\ q.outcome = p.outcome
            /\ q.tx = p.tx /\ q.rx = p.rx /\ q.pc = p.pc
        BY <2>4, <3>5 DEF Phone
      <3> HIDE DEF q
      <3>7. /\ p.transfer \in DOMAIN a.outgoing_artifacts
            /\ a.outgoing_artifacts[p.transfer] = p.request
            /\ \A i \in DOMAIN p.bytes : p.bytes[i] = p.request
        BY <2>3, <2>4, <2>9 DEF Pulled
      <3>8. \A i \in DOMAIN q.bytes : q.bytes[i] = q.request
        <4> TAKE i \in DOMAIN q.bytes
        <4>1. i \in 1..Len(p.bytes) \/ i = Len(p.bytes) + 1
          BY <3>5, <3>6
        <4> QED BY <2>4, <3>3, <3>5, <3>6, <3>7, <4>1
      <3>9. q.sha256 = q.request /\ q.outcome = "none" /\ q.pc \in {"executing", "pulling"}
            /\ agent[sessions].rx = q.tx /\ agent[sessions].tx = q.rx
        BY <2>4, <2>6, <2>9, <3>1, <3>6
      <3>10. /\ q.transfer # NoTransfer
             /\ q.transfer \in DOMAIN agent[sessions].outgoing_artifacts
             /\ agent[sessions].outgoing_artifacts[q.transfer] = q.request
        BY <2>4, <3>1, <3>6, <3>7
      <3> QED BY <1>1, <1>2, <2>3, <2>6, <3>4, <3>6, <3>8, <3>9, <3>10, PullSync
    <2> QED BY <1>1, <2>7, <2>8, <2>9 DEF Waiting
  <1> QED BY <1>2, <1>3, <1>4, OwnStream

(* A call that gives up leaves a session that is not clean.                *)
LEMMA TimeoutSync ==
    ASSUME StepInv, timeout PROVE Synced' /\ Stored' /\ Unused'
  <1>1. UNCHANGED <<sessions, agent, toPc>> /\ sessions \notin clean'
    BY DEF timeout
  <1>2. Synced'
    BY <1>1 DEF Synced
  <1> QED BY <1>1, <1>2, OwnStream

(* An agent keeps the artifacts it has stored.                             *)
Keeps(a, b) ==
    \A t \in DOMAIN a.outgoing_artifacts :
        /\ t \in DOMAIN b.outgoing_artifacts
        /\ b.outgoing_artifacts[t] = a.outgoing_artifacts[t]

(* An agent that answers what the phone asked stays in step with it, or    *)
(* the reply is lost and the session is not clean.                         *)
LEMMA ReplySync ==
    ASSUME StepInv, NEW s \in Sessions, s <= sessions, Opens(s),
           NEW a \in Agent, a.tx = agent[s].tx, a.rx = agent[s].rx, Keeps(agent[s], a),
           NEW m \in ToPhone, Reply(s, a, m),
           s = sessions /\ Pulled(phone, agent[s]) /\ Asking(phone, Incoming(s).message) =>
               Answering(phone, a, m),
           \A i \in Ids : a.completed_requests[i] # None =>
               ArtifactOf(a, a.completed_requests[i])
    PROVE  Synced' /\ Stored' /\ Unused'
  <1> DEFINE b == [a EXCEPT !.rx = @ + 1, !.tx = @ + 1]
             frame == [sequence |-> agent[s].tx, message |-> m]
  <1>1. /\ TypeOK /\ sessions \in Nat /\ sessions \in Sessions /\ agent[s] \in Agent
        /\ toPc[s] \in Seq(Frame(ToPc)) /\ toPhone[s] \in Seq(Frame(ToPhone))
        /\ toPc[s] # <<>>
    BY PcAssumption, SMTT(40) DEF StepInv, IInv, TypeOK, Sessions, Opens
  <1>2. /\ b \in Agent /\ b.completed_requests = a.completed_requests
        /\ b.outgoing_artifacts = a.outgoing_artifacts
        /\ b.rx = a.rx + 1 /\ b.tx = a.tx + 1 /\ a.rx \in Nat /\ a.tx \in Nat
    <2>1. a.rx + 1 \in Nat /\ a.tx + 1 \in Nat /\ a.rx \in Nat /\ a.tx \in Nat
      BY DEF Agent
    <2> QED BY <2>1 DEF Agent
  <1>3. /\ agent' = [agent EXCEPT ![s] = b] /\ toPc' = [toPc EXCEPT ![s] = Tail(@)]
        /\ UNCHANGED <<sessions, phone>> /\ clean' \subseteq clean
    BY DEF Reply
  <1>4. \/ /\ s = sessions /\ toPhone' = [toPhone EXCEPT ![s] = Append(@, frame)]
        \/ s \notin clean' /\ UNCHANGED toPhone
    BY DEF Reply
  <1>5. frame \in Frame(ToPhone) /\ frame.message = m /\ frame.sequence = agent[s].tx
    BY <1>1, <1>2 DEF Frame
  <1> HIDE DEF b, frame
  <1>6. /\ agent'[s] = b /\ \A t \in Sessions \ {s} : agent'[t] = agent[t]
        /\ toPc'[s] = Tail(toPc[s]) /\ \A t \in Sessions \ {s} : toPc'[t] = toPc[t]
    BY <1>1, <1>3 DEF TypeOK
  <1>7. Stored'
    <2>1. \A i \in Ids : b.completed_requests[i] # None => ArtifactOf(b, b.completed_requests[i])
      BY <1>2 DEF ArtifactOf
    <2> QED BY <1>6, <2>1 DEF StepInv, Stored
  <1>8. Unused'
    BY <1>1, <1>3, <1>6 DEF StepInv, Unused, Sessions
  <1>9. Synced'
    <2> SUFFICES ASSUME sessions \in clean'
                 PROVE  InStep(phone, agent'[sessions], toPc'[sessions], toPhone'[sessions])
      BY <1>3 DEF Synced
    <2>1. InStep(phone, agent[sessions], toPc[sessions], toPhone[sessions])
      BY <1>3 DEF StepInv, Synced
    <2>2. CASE s # sessions
      <3>1. toPhone' = toPhone
        BY <1>4, <2>2
      <3> QED BY <1>1, <1>6, <2>1, <2>2, <3>1
    <2>3. CASE s = sessions
      <3>1. /\ Len(toPc[s]) \in Nat /\ Len(toPc[s]) # 0 /\ Incoming(s) = toPc[s][1]
            /\ Len(toPc'[s]) = Len(toPc[s]) - 1
        BY <1>1, <1>6, HeadTailProperties, EmptySeq, LenProperties DEF Incoming
      <3>2. /\ Len(toPc[s]) = 1 /\ Len(toPhone[s]) = 0 /\ phone.tx = agent[s].rx + 1
            /\ agent[s].tx = phone.rx /\ Asking(phone, Incoming(s).message)
            /\ Pulled(phone, agent[s]) /\ phone.outcome # "Err"
        BY <2>1, <2>3, <3>1 DEF InStep, Quiet
      <3>3. toPhone'[s] = Append(toPhone[s], frame)
        BY <1>1, <1>4, <2>3 DEF TypeOK
      <3>4. Len(toPhone'[s]) = 1 /\ toPhone'[s][1] = frame
        BY <1>1, <1>5, <3>2, <3>3, AppendProperties
      <3>5. Answering(phone, b, m) /\ Pulled(phone, b)
        BY <1>2, <2>3, <3>2 DEF Answering, ArtifactOf, Pulled, Keeps
      <3>6. Len(toPc'[s]) = 0 /\ frame.sequence = phone.rx /\ b.tx = phone.rx + 1
            /\ b.rx = phone.tx
        BY <1>2, <1>5, <3>1, <3>2
      <3> QED BY <1>5, <1>6, <2>3, <3>2, <3>4, <3>5, <3>6 DEF InStep
    <2> QED BY <2>2, <2>3
  <1> QED BY <1>7, <1>8, <1>9

(* A frame that is refused leaves a session that is not clean.             *)
LEMMA RefuseSync ==
    ASSUME StepInv, NEW s \in Sessions, s <= sessions, refuse(s)
    PROVE  Synced' /\ Stored' /\ Unused'
  <1>1. /\ TypeOK /\ sessions \in Nat /\ sessions \in Sessions /\ agent[s] \in Agent
        /\ toPc[s] \in Seq(Frame(ToPc))
    BY PcAssumption DEF StepInv, IInv, TypeOK, Sessions
  <1>2. /\ toPc' = [toPc EXCEPT ![s] = Tail(@)]
        /\ clean' = clean \ {s} /\ UNCHANGED <<sessions, phone, toPhone>>
        /\ (agent' = agent \/ agent' = [agent EXCEPT ![s].rx = @ + 1])
    BY DEF refuse
  <1>3. /\ \A t \in Sessions \ {s} : agent'[t] = agent[t] /\ toPc'[t] = toPc[t]
        /\ agent'[s].completed_requests = agent[s].completed_requests
        /\ agent'[s].outgoing_artifacts = agent[s].outgoing_artifacts
    BY <1>1, <1>2 DEF TypeOK, Agent
  <1>4. Stored'
    <2>1. ASSUME NEW t \in Sessions, NEW i \in Ids, agent'[t].completed_requests[i] # None
          PROVE  ArtifactOf(agent'[t], agent'[t].completed_requests[i])
      BY <1>3, <2>1 DEF StepInv, Stored, ArtifactOf
    <2> QED BY <2>1 DEF Stored
  <1>5. Unused'
    BY <1>1, <1>2, <1>3 DEF StepInv, Unused, Sessions
  <1>6. Synced'
    BY <1>1, <1>2, <1>3 DEF StepInv, Synced
  <1> QED BY <1>4, <1>5, <1>6

(* Answers to a query and to a pull.                                       *)
LEMMA AnswerSync ==
    ASSUME StepInv, NEW s \in Sessions, s <= sessions, answer_query(s) \/ answer_pull(s)
    PROVE  Synced' /\ Stored' /\ Unused'
  <1>1. Opens(s) /\ toPc[s] # <<>> /\ TypeOK /\ agent[s] \in Agent
    BY DEF answer_query, answer_pull, Pulls, Opens, StepInv, IInv, TypeOK
  <1>2. Keeps(agent[s], agent[s])
    BY DEF Keeps
  <1>3. \A i \in Ids : agent[s].completed_requests[i] # None =>
          ArtifactOf(agent[s], agent[s].completed_requests[i])
    BY DEF StepInv, Stored
  <1> DEFINE q == Incoming(s).message
  <1>4. CASE answer_query(s)
    <2>1. Capabilities \in ToPhone /\ Reply(s, agent[s], Capabilities) /\ q = CapabilityQuery
      BY <1>4 DEF ToPhone, answer_query
    <2>2. Asking(phone, q) => Answering(phone, agent[s], Capabilities)
      BY <2>1 DEF Asking, Answering, CapabilityQuery, Request, ArtifactPull
    <2> QED BY <1>1, <1>2, <1>3, <2>1, <2>2, ReplySync
  <1>5. CASE answer_pull(s)
    <2>1. q \in ToPc /\ q.type = "ArtifactPull" /\ Servable(s, q)
      BY <1>1, <1>5, IncomingType DEF answer_pull, Pulls
    <2>2. q.transfer \in Nat \ {0} /\ q.offset \in Nat
      BY <2>1 DEF ToPc, CapabilityQuery
    <2>3. agent[s].outgoing_artifacts[q.transfer] \in Requests
      <3>1. agent[s].outgoing_artifacts \in Seq(Requests)
        BY <1>1 DEF Agent
      <3>2. q.transfer \in 1..Len(agent[s].outgoing_artifacts)
        BY <2>1, <3>1, LenProperties DEF Servable
      <3> QED BY <3>1, <3>2, ElementOfSeq
    <2> DEFINE m == chunk_at(s, q.transfer, q.offset)
    <2>4. m \in ToPhone
      BY <2>2, <2>3 DEF chunk_at, ArtifactChunk, ToPhone
    <2>5. Reply(s, agent[s], m)
      BY <1>5 DEF answer_pull
    <2>6. ASSUME Asking(phone, q), s = sessions, Pulled(phone, agent[s])
          PROVE  Answering(phone, agent[s], m)
      <3>1. /\ phone.pc = "pulling" /\ q = ArtifactPull(phone.transfer, Len(phone.bytes))
        BY <2>1, <2>6 DEF Asking, CapabilityQuery, Request
      <3>2. q.transfer = phone.transfer /\ q.offset = Len(phone.bytes)
        BY <3>1 DEF ArtifactPull
      <3>3. agent[s].outgoing_artifacts[q.transfer] = phone.request
        BY <2>6, <3>1, <3>2 DEF Pulled
      <3> QED BY <3>1, <3>2, <3>3 DEF Answering, chunk_at
    <2> HIDE DEF m
    <2> QED BY <1>1, <1>2, <1>3, <2>4, <2>5, <2>6, ReplySync
  <1> QED BY <1>4, <1>5

(* A request that the phone asks for is answered by its own result.        *)
LEMMA RequestSync ==
    ASSUME StepInv, NEW s \in Sessions, s <= sessions, NEW r \in Requests, Asked(s, r),
           NEW a \in Agent, a.tx = agent[s].tx, a.rx = agent[s].rx, Keeps(agent[s], a),
           NEW c \in Results, c.request = r, ArtifactOf(a, c), Reply(s, a, c),
           \A i \in Ids : a.completed_requests[i] # None =>
               ArtifactOf(a, a.completed_requests[i])
    PROVE  Synced' /\ Stored' /\ Unused'
  <1>1. Opens(s) /\ Incoming(s).message = Request(r) /\ c \in ToPhone
    BY DEF Asked, ToPhone
  <1>2. Asking(phone, Incoming(s).message) => Answering(phone, a, c)
    BY <1>1 DEF Asking, Answering, CapabilityQuery, Request, ArtifactPull
  <1> QED BY <1>1, <1>2, ReplySync

(* Requests that are answered from the cache, or not carried out.          *)
LEMMA NotKeptSync ==
    ASSUME StepInv, NEW s \in Sessions, s <= sessions, NEW r \in Requests,
           \/ execute_request_cached(s, r)
           \/ execute_request_not_installed(s, r)
           \/ execute_request_io(s, r)
    PROVE  Synced' /\ Stored' /\ Unused'
  <1>1. agent[s] \in Agent /\ Keeps(agent[s], agent[s])
    BY DEF StepInv, IInv, TypeOK, Keeps
  <1>2. \A i \in Ids : agent[s].completed_requests[i] # None =>
          ArtifactOf(agent[s], agent[s].completed_requests[i])
    BY DEF StepInv, Stored
  <1>3. CASE execute_request_cached(s, r)
    <2>1. r.id \in Ids /\ Asked(s, r)
      BY <1>3 DEF Ids, execute_request_cached
    <2>2. /\ Cached(s, r) \in Results /\ Cached(s, r).request = r
          /\ ArtifactOf(agent[s], Cached(s, r)) /\ Reply(s, agent[s], Cached(s, r))
      BY <1>1, <1>2, <1>3, <2>1 DEF execute_request_cached, Cached, Agent
    <2> QED BY <1>1, <1>2, <2>1, <2>2, RequestSync
  <1>4. ASSUME NEW status \in {"Rejected", "Retryable"}, Asked(s, r),
               Reply(s, agent[s], RemoteResult(r, status, NoTransfer))
        PROVE  Synced' /\ Stored' /\ Unused'
    <2> DEFINE c == RemoteResult(r, status, NoTransfer)
    <2>1. c \in Results /\ c.request = r /\ ArtifactOf(agent[s], c)
      BY DEF RemoteResult, Results, Status, NoTransfer, ArtifactOf
    <2>2. Reply(s, agent[s], c) /\ Asked(s, r)
      BY <1>4
    <2> HIDE DEF c
    <2> QED BY <1>1, <1>2, <2>1, <2>2, RequestSync
  <1>5. CASE execute_request_not_installed(s, r)
    BY <1>4, <1>5 DEF execute_request_not_installed
  <1>6. CASE execute_request_io(s, r)
    BY <1>4, <1>6 DEF execute_request_io, Handled
  <1> QED BY <1>3, <1>5, <1>6

(* Requests whose result is kept: the artifact of a read goes to the end   *)
(* of outgoing_artifacts, so that transfer ids stay valid.                 *)
LEMMA KeptSync ==
    ASSUME StepInv, NEW s \in Sessions, s <= sessions, NEW r \in Requests,
           execute_request_completed(s, r) \/ execute_request_denied(s, r)
    PROVE  Synced' /\ Stored' /\ Unused'
  <1>1. /\ agent[s] \in Agent /\ agent[s].outgoing_artifacts \in Seq(Requests)
        /\ agent[s].completed_requests \in [Ids -> Results \cup {None}]
        /\ Len(agent[s].outgoing_artifacts) \in Nat /\ r.id \in Ids
        /\ DOMAIN agent[s].outgoing_artifacts = 1..Len(agent[s].outgoing_artifacts)
    BY LenProperties DEF StepInv, IInv, TypeOK, Agent, Ids
  <1>2. \A i \in Ids : agent[s].completed_requests[i] # None =>
          ArtifactOf(agent[s], agent[s].completed_requests[i])
    BY DEF StepInv, Stored
  (* One more result, and perhaps one more artifact.                       *)
  <1>3. ASSUME Asked(s, r), NEW c \in Results, c.request = r, NEW a \in Agent,
               a.tx = agent[s].tx, a.rx = agent[s].rx, Keeps(agent[s], a), ArtifactOf(a, c),
               a.completed_requests = [agent[s].completed_requests EXCEPT ![r.id] = c],
               Reply(s, a, c)
        PROVE  Synced' /\ Stored' /\ Unused'
    <2>1. ASSUME NEW i \in Ids, a.completed_requests[i] # None
          PROVE  ArtifactOf(a, a.completed_requests[i])
      <3>1. CASE i = r.id
        BY <1>1, <1>3, <3>1
      <3>2. CASE i # r.id
        <4>1. a.completed_requests[i] = agent[s].completed_requests[i]
          BY <1>1, <1>3, <3>2
        <4> QED BY <1>2, <1>3, <2>1, <4>1 DEF ArtifactOf, Keeps
      <3> QED BY <3>1, <3>2
    <2> QED BY <1>3, <2>1, RequestSync
  <1>4. CASE execute_request_denied(s, r)
    <2> DEFINE c == RemoteResult(r, "Rejected", NoTransfer)
               a == remember(s, c)
    <2>1. c \in Results /\ c.request = r /\ c.status = "Rejected"
      BY DEF RemoteResult, Results, Status, NoTransfer
    <2>2. Asked(s, r) /\ Reply(s, a, c)
      BY <1>4 DEF execute_request_denied, Handled
    <2> HIDE DEF c
    <2>3. /\ a \in Agent /\ a.tx = agent[s].tx /\ a.rx = agent[s].rx
          /\ a.outgoing_artifacts = agent[s].outgoing_artifacts
          /\ a.completed_requests = [agent[s].completed_requests EXCEPT ![r.id] = c]
      BY <1>1, <2>1 DEF remember, Agent
    <2> HIDE DEF a
    <2>4. Keeps(agent[s], a) /\ ArtifactOf(a, c)
      BY <2>1, <2>3 DEF Keeps, ArtifactOf
    <2> QED BY <1>3, <2>1, <2>2, <2>3, <2>4
  <1>5. CASE execute_request_completed(s, r)
    <2> DEFINE c == RemoteResult(r, "Completed", store_artifacts(s, r))
               b == remember(s, c)
               a == IF r.action \in Reads THEN [b EXCEPT !.outgoing_artifacts = Append(@, r)] ELSE b
               new == Append(agent[s].outgoing_artifacts, r)
    <2>1. /\ new \in Seq(Requests) /\ DOMAIN new = 1..(Len(agent[s].outgoing_artifacts) + 1)
          /\ \A t \in 1..Len(agent[s].outgoing_artifacts) : new[t] = agent[s].outgoing_artifacts[t]
          /\ new[Len(agent[s].outgoing_artifacts) + 1] = r
      <3>1. new \in Seq(Requests)
        BY <1>1, AppendProperties
      <3> QED BY <1>1, <3>1, AppendProperties, LenProperties
    <2>2. store_artifacts(s, r) \in Nat
          /\ (r.action \in Reads => store_artifacts(s, r) = Len(agent[s].outgoing_artifacts) + 1)
      BY <1>1 DEF store_artifacts, NoTransfer
    <2>3. c \in Results /\ c.request = r /\ c.transfer = store_artifacts(s, r)
      BY <2>2 DEF RemoteResult, Results, Status
    <2>4. Asked(s, r) /\ Reply(s, a, c)
      BY <1>5 DEF execute_request_completed, Handled
    <2> HIDE DEF c, new
    <2>5. /\ b \in Agent /\ b.tx = agent[s].tx /\ b.rx = agent[s].rx
          /\ b.outgoing_artifacts = agent[s].outgoing_artifacts
          /\ b.completed_requests = [agent[s].completed_requests EXCEPT ![r.id] = c]
      BY <1>1, <2>3 DEF remember, Agent
    <2> HIDE DEF b
    <2>6. /\ a \in Agent /\ a.tx = b.tx /\ a.rx = b.rx /\ a.completed_requests = b.completed_requests
          /\ a.outgoing_artifacts = IF r.action \in Reads THEN new ELSE b.outgoing_artifacts
      BY <2>1, <2>5 DEF Agent, new
    <2> HIDE DEF a
    <2>7. Keeps(agent[s], a) /\ ArtifactOf(a, c)
      BY <1>1, <2>1, <2>2, <2>3, <2>5, <2>6 DEF Keeps, ArtifactOf
    <2>8. a.tx = agent[s].tx /\ a.rx = agent[s].rx
          /\ a.completed_requests = [agent[s].completed_requests EXCEPT ![r.id] = c]
      BY <2>5, <2>6
    <2> QED BY <1>3, <2>3, <2>4, <2>6, <2>7, <2>8
  <1> QED BY <1>4, <1>5

(* Every step of either end keeps both ends in step.                       *)
LEMMA NextStep == StepInv /\ [Next]_vars => StepInv'
  <1> SUFFICES ASSUME StepInv, [Next]_vars PROVE Synced' /\ Stored' /\ Unused'
    BY NextInv DEF StepInv
  <1>1. CASE connect
    BY <1>1, ConnectSync
  <1>2. CASE \E r \in Requests : execute(r)
    BY <1>2, ExecuteSync
  <1>3. CASE receive
    BY <1>3, ReceiveSync
  <1>4. CASE timeout
    BY <1>4, TimeoutSync
  <1>5. CASE \E s \in 1..sessions : handle_encrypted_frame(s)
    <2>1. PICK s \in 1..sessions : handle_encrypted_frame(s)
      BY <1>5
    <2>2. s \in Sessions /\ s <= sessions
      BY PcAssumption DEF StepInv, IInv, TypeOK, Sessions
    <2>3. CASE answer_query(s) \/ answer_pull(s)
      BY <2>2, <2>3, AnswerSync
    <2>4. CASE refuse(s)
      BY <2>2, <2>4, RefuseSync
    <2>5. ASSUME NEW r \in Requests,
                 \/ execute_request_cached(s, r) \/ execute_request_not_installed(s, r)
                 \/ execute_request_io(s, r)
          PROVE  Synced' /\ Stored' /\ Unused'
      BY <2>2, <2>5, NotKeptSync
    <2>6. ASSUME NEW r \in Requests,
                 execute_request_completed(s, r) \/ execute_request_denied(s, r)
          PROVE  Synced' /\ Stored' /\ Unused'
      BY <2>2, <2>6, KeptSync
    <2> QED BY <2>1, <2>3, <2>4, <2>5, <2>6 DEF handle_encrypted_frame
  <1>6. CASE UNCHANGED vars
    BY <1>6 DEF vars, StepInv, Synced, Stored, Unused
  <1> QED BY <1>1, <1>2, <1>3, <1>4, <1>5, <1>6 DEF Next

(* SecureSession's counters and the request/reply discipline: while        *)
(* nothing is late, lost or refused no call of the phone fails, and at     *)
(* most one frame is under way.                                            *)
THEOREM CleanInStep == Spec => []CleanSessionInStep
  <1>1. StepInv => CleanSessionInStep
    <2> SUFFICES ASSUME StepInv, sessions \in clean
                 PROVE  /\ phone.outcome # "Err"
                        /\ Len(toPc[sessions]) + Len(toPhone[sessions]) =
                             (IF phone.pc \in Waiting THEN 1 ELSE 0)
      BY DEF CleanSessionInStep
    <2>1. InStep(phone, agent[sessions], toPc[sessions], toPhone[sessions])
      BY DEF StepInv, Synced
    <2>2. \A m : Asking(phone, m) \/ Answering(phone, agent[sessions], m) => phone.pc \in Waiting
      BY DEF Asking, Answering, Waiting
    <2>3. /\ phone.outcome # "Err"
          /\ \/ phone.pc = "idle" /\ Len(toPc[sessions]) = 0 /\ Len(toPhone[sessions]) = 0
             \/ phone.pc \in Waiting /\ Len(toPc[sessions]) = 1 /\ Len(toPhone[sessions]) = 0
             \/ phone.pc \in Waiting /\ Len(toPc[sessions]) = 0 /\ Len(toPhone[sessions]) = 1
      BY <2>1, <2>2 DEF InStep, Quiet
    <2>4. PICK n \in Nat, k \in Nat : n = Len(toPc[sessions]) /\ k = Len(toPhone[sessions])
      BY <2>3
    <2>5. \/ phone.pc = "idle" /\ n = 0 /\ k = 0
          \/ phone.pc \in Waiting /\ n = 1 /\ k = 0
          \/ phone.pc \in Waiting /\ n = 0 /\ k = 1
      BY <2>3, <2>4
    <2>6. n + k = (IF phone.pc \in Waiting THEN 1 ELSE 0)
      BY <2>5 DEF Waiting
    <2> QED BY <2>3, <2>4, <2>6, Zenon
  <1> QED BY <1>1, InitStep, NextStep, PTL DEF Spec
=============================================================================
