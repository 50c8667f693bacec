--------------------------- MODULE AdapterProofs ----------------------------
(***************************************************************************)
(* Theorems about the capability adapters of the Android bridge: web       *)
(* search, the browser session and the file adapters, and about the plans  *)
(* that reach them.  Their hazard is the same: a step that began under one *)
(* call, profile, card or journal ends under another.                      *)
(***************************************************************************)
EXTENDS WebSearch, Browser, Artifacts, ActionPlanning, SequenceTheorems,
        FiniteSetTheorems, Induction

-----------------------------------------------------------------------------
(* Web search: a job at the network thread.                                *)

Places == Hosts \cup {"none"}

JobRecord ==
    [kind : {"search", "fetch"}, limit : Limits \cup {1},
     stage : {"queued", "description", "results"}, at : Places, home : Places,
     pinned : Places, credential : SUBSET Credentials, open : BOOLEAN, redirects : Nat]

(* With a credential a job is at the origin it is pinned to, which is the  *)
(* origin of its profile; a job that waits has none yet.                   *)
AtHome(job) ==
    /\ job.credential # {} => job.at = job.home /\ job.pinned = job.home
    /\ job.stage = "queued" => job.credential = {}

WebInv ==
    /\ searchConfiguration \in Profile \cup {Empty}
    /\ preferences \in Profile \cup {Empty}
    /\ jobs \in Seq(JobRecord)
    /\ \A n \in 1..Len(jobs) : AtHome(jobs[n])
    /\ CredentialStaysHome

(* The job at the head of the queue.                                       *)
LEMMA HeadJob ==
    ASSUME WebInv, jobs # <<>>
    PROVE  /\ Head(jobs) \in JobRecord /\ AtHome(Head(jobs))
           /\ Tail(jobs) \in Seq(JobRecord)
           /\ \A n \in 1..Len(Tail(jobs)) : AtHome(Tail(jobs)[n])
  BY HeadTailProperties DEF WebInv

(* The head goes on, or ends.                                              *)
LEMMA JobsStep ==
    ASSUME WebInv, jobs # <<>>,
           \/ Ends
           \/ \E job \in JobRecord : AtHome(job) /\ Running(job)
    PROVE  jobs' \in Seq(JobRecord) /\ \A n \in 1..Len(jobs') : AtHome(jobs'[n])
  <1>1. CASE Ends
    BY <1>1, HeadJob DEF Ends
  <1>2. ASSUME NEW job \in JobRecord, AtHome(job), Running(job)
        PROVE  jobs' \in Seq(JobRecord) /\ \A n \in 1..Len(jobs') : AtHome(jobs'[n])
    <2> DEFINE rest == Tail(jobs)
    <2>1. rest \in Seq(JobRecord) /\ \A n \in 1..Len(rest) : AtHome(rest[n])
      BY HeadJob
    <2>2. jobs' = <<job>> \o rest
      BY <1>2 DEF Running
    <2> HIDE DEF rest
    <2>3. /\ jobs' \in Seq(JobRecord) /\ Len(jobs') = 1 + Len(rest)
          /\ \A n \in 1..Len(jobs') : jobs'[n] = IF n = 1 THEN job ELSE rest[n - 1]
      BY <2>1, <2>2
    <2>4. ASSUME NEW n \in 1..Len(jobs') PROVE AtHome(jobs'[n])
      <3>1. n = 1 \/ n - 1 \in 1..Len(rest)
        BY <2>1, <2>3
      <3> QED BY <1>2, <2>1, <2>3, <3>1
    <2> QED BY <2>3, <2>4
  <1> QED BY <1>1, <1>2

(* A request carries what its job has.                                     *)
LEMMA RequestStaysHome ==
    ASSUME WebInv, jobs # <<>>, Requested(Head(jobs))
    PROVE  CredentialStaysHome'
  BY HeadJob DEF Requested, CredentialStaysHome, AtHome

(* Each operation of the profile and each step of the network thread.      *)
LEMMA WebStep ==
    ASSUME WebInv, [WebNext]_webVars
    PROVE  WebInv'
  <1>1. CASE configureSearchProfile
    <2>1. PICK p \in Profile, keep \in BOOLEAN :
             LET q == IF keep THEN [p EXCEPT !.credential = searchConfiguration.credential]
                              ELSE p
             IN  /\ keep => p.credential = {} /\ searchConfiguration.credential # {}
                 /\ searchConfiguration' = q
                 /\ preferences' = q
      BY <1>1 DEF configureSearchProfile
    <2>2. UNCHANGED <<jobs, sent, found>>
      BY <1>1 DEF configureSearchProfile
    <2>3. keep => searchConfiguration \in Profile
      BY <2>1 DEF WebInv, Empty
    <2>4. keep => [p EXCEPT !.credential = searchConfiguration.credential] \in Profile
      BY <2>3 DEF Profile
    <2>5. searchConfiguration' \in Profile /\ preferences' \in Profile
      BY <2>1, <2>4
    <2> QED BY <2>2, <2>5 DEF WebInv, CredentialStaysHome, AtHome
  <1>2. CASE clearSearchPreferences
    BY <1>2 DEF clearSearchPreferences, WebInv, CredentialStaysHome, AtHome
  <1>3. CASE initialize
    BY <1>3 DEF initialize, WebInv, CredentialStaysHome
  <1>4. ASSUME NEW job \in JobRecord, job.credential = {}, jobs' = Append(jobs, job),
               UNCHANGED <<searchConfiguration, preferences, sent, found>>
        PROVE  WebInv'
    <2>1. /\ jobs' \in Seq(JobRecord) /\ Len(jobs') = Len(jobs) + 1
          /\ \A n \in 1..Len(jobs') : jobs'[n] = IF n = Len(jobs) + 1 THEN job ELSE jobs[n]
      BY <1>4 DEF WebInv
    <2>2. ASSUME NEW n \in 1..Len(jobs') PROVE AtHome(jobs'[n])
      <3>1. n = Len(jobs) + 1 \/ n \in 1..Len(jobs)
        BY <2>1 DEF WebInv
      <3> QED BY <1>4, <2>1, <3>1 DEF WebInv, AtHome
    <2> QED BY <1>4, <2>1, <2>2 DEF WebInv, CredentialStaysHome
  <1>5. CASE search
    <2>1. PICK n \in Limits : jobs' = Append(jobs, NewJob("search", n))
      BY <1>5 DEF search
    <2>2. NewJob("search", n) \in JobRecord /\ NewJob("search", n).credential = {}
      BY DEF NewJob, JobRecord, Places
    <2> QED BY <1>4, <1>5, <2>1, <2>2 DEF search
  <1>6. CASE fetch
    <2>1. NewJob("fetch", 1) \in JobRecord /\ NewJob("fetch", 1).credential = {}
      BY DEF NewJob, JobRecord, Places
    <2> QED BY <1>4, <1>6, <2>1 DEF fetch
  <1>7. CASE job_cancelled
    <2>1. /\ jobs # <<>> /\ jobs' = SubSeq(jobs, 1, Len(jobs) - 1)
          /\ UNCHANGED <<searchConfiguration, preferences, sent, found>>
      BY <1>7 DEF job_cancelled, Front
    <2>2. /\ jobs' \in Seq(JobRecord) /\ Len(jobs') = Len(jobs) - 1
          /\ \A n \in 1..Len(jobs') : jobs'[n] = jobs[n] /\ n \in 1..Len(jobs)
      <3>1. jobs \in Seq(JobRecord) /\ Len(jobs) \in Nat \ {0}
        BY <2>1, EmptySeq, LenProperties DEF WebInv
      <3> DEFINE last == Len(jobs) - 1
      <3>2. last \in Nat /\ Len(jobs) = last + 1 /\ \A i \in 1..last : jobs[i] \in JobRecord
        BY <3>1
      <3> HIDE DEF last
      <3>3. /\ SubSeq(jobs, 1, last) \in Seq(JobRecord) /\ Len(SubSeq(jobs, 1, last)) = last
            /\ \A i \in 1..last : SubSeq(jobs, 1, last)[i] = jobs[i]
        BY <3>2, SubSeqProperties, Z3
      <3> QED BY <2>1, <3>2, <3>3 DEF last
    <2> QED BY <2>1, <2>2 DEF WebInv, CredentialStaysHome
  <1>8. ASSUME jobs # <<>>,
               Ends \/ \E job \in JobRecord : AtHome(job) /\ Running(job),
               Requested(Head(jobs)) \/ sent' = {} \/ sent' = sent,
               UNCHANGED <<searchConfiguration, preferences>>
        PROVE  WebInv'
    <2>1. jobs' \in Seq(JobRecord) /\ \A n \in 1..Len(jobs') : AtHome(jobs'[n])
      BY <1>8, JobsStep
    <2>2. CredentialStaysHome'
      <3>1. sent' = {} => CredentialStaysHome'
        BY DEF CredentialStaysHome
      <3>2. sent' = sent => CredentialStaysHome'
        BY DEF WebInv, CredentialStaysHome
      <3> QED BY <1>8, <3>1, <3>2, RequestStaysHome
    <2> QED BY <1>8, <2>1, <2>2 DEF WebInv
  <1>9. CASE job_begins
    <2> DEFINE job == Head(jobs)
               c == searchConfiguration
    <2>1. /\ jobs # <<>> /\ sent' = {} /\ UNCHANGED <<searchConfiguration, preferences>>
      BY <1>9 DEF job_begins
    <2>2. job \in JobRecord
      BY <2>1, HeadJob
    <2>3. CASE job.kind = "fetch"
      <3>1. PICK h \in Hosts : Running([job EXCEPT !.stage = "results", !.at = h, !.home = h])
        BY <1>9, <2>3 DEF job_begins
      <3> DEFINE next == [job EXCEPT !.stage = "results", !.at = h, !.home = h]
      <3>2. next \in JobRecord /\ next.credential = job.credential
        BY <2>2 DEF JobRecord, Places
      <3>3. job.credential = {}
        BY <1>9, <2>1, HeadJob DEF job_begins, AtHome
      <3> HIDE DEF next
      <3> QED BY <1>8, <2>1, <3>1, <3>2, <3>3 DEF AtHome, next
    <2>4. CASE job.kind # "fetch" /\ c = Empty
      <3>1. Ends
        BY <1>9, <2>4 DEF job_begins
      <3> QED BY <1>8, <2>1, <3>1
    <2>5. CASE job.kind # "fetch" /\ c # Empty
      <3> DEFINE next == [job EXCEPT
                    !.stage = IF c.mode = "opensearch" THEN "description" ELSE "results",
                    !.at = c.host, !.home = c.host, !.pinned = c.host,
                    !.credential = c.credential, !.open = c.mode = "opensearch"]
      <3>1. Running(next)
        BY <1>9, <2>5 DEF job_begins
      <3>2. /\ c.mode \in {"json", "opensearch"} /\ c.host \in Places
            /\ c.credential \in SUBSET Credentials
        BY <2>5 DEF WebInv, Profile, Places
      <3>3. next \in JobRecord
        BY <2>2, <3>2 DEF JobRecord
      <3>4. /\ next.at = c.host /\ next.home = c.host /\ next.pinned = c.host
            /\ next.stage # "queued"
        BY <2>2 DEF JobRecord
      <3> HIDE DEF next
      <3> QED BY <1>8, <2>1, <3>1, <3>3, <3>4 DEF AtHome
    <2> QED BY <2>3, <2>4, <2>5
  <1>10. CASE redirected
    <2> DEFINE job == Head(jobs)
    <2>1. /\ jobs # <<>> /\ Requested(job) /\ UNCHANGED <<searchConfiguration, preferences>>
      BY <1>10 DEF redirected
    <2>2. job \in JobRecord /\ AtHome(job)
      BY <2>1, HeadJob
    <2>3. PICK h \in Hosts : IF MayFollow(job, h)
                             THEN Running([job EXCEPT !.at = h, !.redirects = @ + 1])
                             ELSE Ends
      BY <1>10 DEF redirected
    <2> DEFINE next == [job EXCEPT !.at = h, !.redirects = @ + 1]
    <2>4. /\ next \in JobRecord /\ next.at = h /\ next.credential = job.credential
          /\ next.home = job.home /\ next.pinned = job.pinned /\ next.stage = job.stage
      <3>1. h \in Places /\ job.redirects + 1 \in Nat
        BY <2>2 DEF JobRecord, Places
      <3> QED BY <2>2, <3>1, Zenon DEF JobRecord
    <2>5. MayFollow(job, h) => AtHome(next)
      <3> HIDE DEF next
      <3> QED BY <2>2, <2>4 DEF MayFollow, AtHome
    <2>6. Ends \/ \E j \in JobRecord : AtHome(j) /\ Running(j)
      BY <2>3, <2>4, <2>5
    <2> QED BY <1>8, <2>1, <2>6
  <1>11. CASE described
    <2> DEFINE job == Head(jobs)
    <2>1. /\ jobs # <<>> /\ Requested(job) /\ UNCHANGED <<searchConfiguration, preferences>>
      BY <1>11 DEF described
    <2>2. job \in JobRecord /\ AtHome(job)
      BY <2>1, HeadJob
    <2>3. PICK h \in Hosts : IF job.credential # {} /\ h # job.at THEN Ends
                             ELSE Running([job EXCEPT !.stage = "results", !.at = h,
                                                      !.pinned = h, !.redirects = 0])
      BY <1>11 DEF described
    <2> DEFINE next == [job EXCEPT !.stage = "results", !.at = h, !.pinned = h, !.redirects = 0]
    <2>4. /\ next \in JobRecord /\ next.at = h /\ next.credential = job.credential
          /\ next.home = job.home /\ next.pinned = h /\ next.stage = "results"
      BY <2>2 DEF JobRecord, Places
    <2>5. ~(job.credential # {} /\ h # job.at) => AtHome(next)
      <3> HIDE DEF next
      <3> QED BY <2>2, <2>4 DEF AtHome
    <2>6. Ends \/ \E j \in JobRecord : AtHome(j) /\ Running(j)
      BY <2>3, <2>4, <2>5
    <2> QED BY <1>8, <2>1, <2>6
  <1>12. CASE answered
    <2>1. jobs # <<>> /\ Requested(Head(jobs)) /\ Ends
          /\ UNCHANGED <<searchConfiguration, preferences>>
      BY <1>12 DEF answered
    <2> QED BY <1>8, <2>1
  <1>13. CASE job_fails
    <2>1. jobs # <<>> /\ Ends /\ UNCHANGED <<searchConfiguration, preferences, sent>>
      BY <1>13 DEF job_fails
    <2> QED BY <1>8, <2>1
  <1>14. CASE UNCHANGED webVars
    BY <1>14 DEF webVars, WebInv, CredentialStaysHome, AtHome
  <1> QED BY <1>1, <1>2, <1>3, <1>5, <1>6, <1>7, <1>9, <1>10, <1>11, <1>12, <1>13, <1>14
          DEF WebNext

(* The search credential is sent only to the host of the profile its job   *)
(* began with, for any number of redirects, any description and any change *)
(* of the profile while the network thread works.                          *)
THEOREM CredentialAtHome == WebSpec => []CredentialStaysHome
  <1>1. WebInit => WebInv
    BY DEF WebInit, WebInv, CredentialStaysHome
  <1>2. WebInv /\ [WebNext]_webVars => WebInv'
    BY WebStep
  <1>3. WebInv => CredentialStaysHome
    BY DEF WebInv
  <1> QED BY <1>1, <1>2, <1>3, PTL DEF WebSpec

-----------------------------------------------------------------------------
(* Web search: what the loop over the results computes.                   *)

(* What the loop of normalizeSearchResults has after its n-th entry, from  *)
(* what it had before.                                                     *)
TakenAt(f, n, page, limit) ==
    IF n = 0 THEN <<>>
    ELSE IF Len(f[n - 1]) < limit /\ Kept(f[n - 1], page[n])
    THEN Append(f[n - 1], page[n])
    ELSE f[n - 1]

LEMMA LoopExists ==
  ASSUME NEW page, Len(page) \in Nat, NEW limit
  PROVE  \E f : f = [n \in 0..Len(page) |-> TakenAt(f, n, page, limit)]
<1> DEFINE N == Len(page)
           Upto(m, f) == /\ DOMAIN f = 0..m
                         /\ \A n \in 0..m : f[n] = TakenAt(f, n, page, limit)
           T == {m \in 0..N : ~ \E f : Upto(m, f)}
<1> HIDE DEF N
<1>0. N \in Nat
  BY DEF N
<1>1. T = {}
  <2> SUFFICES ASSUME T # {}
               PROVE  FALSE
    OBVIOUS
  <2>1. T \in SUBSET Nat
    BY <1>0
  <2>2. PICK m \in T : \A n \in T : m <= n
    BY <2>1, LeastNatural
  <2>3. m \in 0..N /\ ~ \E f : Upto(m, f)
    OBVIOUS
  <2>4. CASE m = 0
    <3> DEFINE f == [n \in 0..0 |-> <<>>]
    <3>1. \A n \in 0..0 : f[n] = TakenAt(f, n, page, limit)
      BY DEF TakenAt
    <3>2. Upto(0, f)
      BY <3>1
    <3> QED BY <2>3, <2>4, <3>2
  <2>5. CASE m # 0
    <3>1. m - 1 \in 0..N /\ m - 1 \notin T
      <4> HIDE DEF T
      <4> QED BY <1>0, <2>2, <2>3, <2>5
    <3>2. PICK f : Upto(m - 1, f)
      <4> HIDE DEF Upto
      <4> QED BY <3>1
    <3> DEFINE g == [n \in 0..m |-> IF n = m THEN TakenAt(f, m, page, limit) ELSE f[n]]
    <3>3. m \in Nat /\ m > 0
      BY <1>0, <2>3, <2>5
    <3>4. \A n \in 0 .. m - 1 : g[n] = f[n] /\ f[n] = TakenAt(f, n, page, limit)
      BY <3>2, <3>3
    <3>5. g[m] = TakenAt(f, m, page, limit)
      BY <3>3
    <3>6. DOMAIN g = 0..m
      OBVIOUS
    <3> HIDE DEF g
    <3>7. ASSUME NEW n \in 0..m
          PROVE  g[n] = TakenAt(g, n, page, limit)
      <4>1. n # 0 => g[n - 1] = f[n - 1]
        BY <3>3, <3>4
      <4>2. TakenAt(g, n, page, limit) = TakenAt(f, n, page, limit)
        BY <4>1 DEF TakenAt
      <4>3. n = m \/ n \in 0 .. m - 1
        BY <3>3
      <4> QED BY <3>4, <3>5, <4>2, <4>3
    <3>8. Upto(m, g)
      BY <3>6, <3>7
    <3> QED BY <2>3, <3>8
  <2> QED BY <2>4, <2>5
<1>2. PICK f : Upto(N, f)
  <2>1. N \in 0..N /\ N \notin T
    BY <1>0, <1>1
  <2> HIDE DEF Upto
  <2> QED BY <2>1
<1> DEFINE g == [n \in 0..N |-> f[n]]
<1>3. \A n \in 0..N : TakenAt(g, n, page, limit) = TakenAt(f, n, page, limit)
  <2>1. \A n \in 0..N : n # 0 => n - 1 \in 0..N
    BY <1>0
  <2> QED BY <2>1 DEF TakenAt
<1>4. g = [n \in 0..N |-> TakenAt(g, n, page, limit)]
  BY <1>2, <1>3
<1> QED BY <1>4 DEF N

LEMMA LoopTakes ==
  ASSUME NEW page, Len(page) \in Nat, NEW limit
  PROVE  \E f : /\ f = [n \in 0..Len(page) |-> TakenAt(f, n, page, limit)]
                /\ Canonical(page, limit) = f[Len(page)]
<1> DEFINE F == CHOOSE f : f = [n \in 0..Len(page) |-> TakenAt(f, n, page, limit)]
<1>1. F = [n \in 0..Len(page) |-> TakenAt(F, n, page, limit)]
  BY LoopExists
<1>2. Canonical(page, limit) = F[Len(page)]
  BY DEF Canonical, TakenAt
<1> QED BY <1>1, <1>2

(* The distinct public entries among the first n.                          *)
FirstsOf(page, n) ==
    {k \in 1..n : page[k].public /\ \A m \in 1 .. k - 1 :
                                       page[m].public => page[m].url # page[k].url}

(* The items are the first of those, in order, as many as the limit        *)
(* allows; below the limit every public URL seen so far is there.          *)
TakenSoFar(items, page, n, limit) ==
    /\ items \in Seq(Item)
    /\ \A i \in 1 .. Len(items) : \E k \in FirstsOf(page, n) :
          items[i] = page[k] /\ Cardinality(FirstsOf(page, k)) = i
    /\ Len(items) = IF limit < Cardinality(FirstsOf(page, n))
                    THEN limit ELSE Cardinality(FirstsOf(page, n))
    /\ Len(items) < limit =>
          \A k \in 1..n : page[k].public => \E i \in 1 .. Len(items) : items[i].url = page[k].url

LEMMA FirstsFinite ==
  ASSUME NEW page, NEW n \in Nat
  PROVE  IsFiniteSet(FirstsOf(page, n)) /\ Cardinality(FirstsOf(page, n)) \in Nat
<1>1. IsFiniteSet(1..n)
  BY FS_Interval
<1>2. FirstsOf(page, n) \subseteq 1..n
  BY DEF FirstsOf
<1>3. IsFiniteSet(FirstsOf(page, n))
  BY <1>1, <1>2, FS_Subset
<1> QED BY <1>3, FS_CardinalityType

LEMMA TakesOneMore ==
  ASSUME NEW page \in Seq(Item), NEW limit \in Nat, NEW n \in Nat, n < Len(page),
         NEW items, TakenSoFar(items, page, n, limit)
  PROVE  TakenSoFar(IF Len(items) < limit /\ Kept(items, page[n + 1])
                    THEN Append(items, page[n + 1]) ELSE items, page, n + 1, limit)
<1> DEFINE A == FirstsOf(page, n)
           B == FirstsOf(page, n + 1)
           x == page[n + 1]
           New == x.public /\ \A m \in 1..n : page[m].public => page[m].url # x.url
<1>1. /\ \A k \in 1..n : k \in B <=> k \in A
      /\ n + 1 \in B <=> New
      /\ A \subseteq 1..n /\ B \subseteq 1 .. n + 1 /\ n + 1 \notin A
  BY DEF FirstsOf
<1>2. IsFiniteSet(A) /\ Cardinality(A) \in Nat /\ IsFiniteSet(B) /\ Cardinality(B) \in Nat
  BY FirstsFinite
<1>3. x \in Item /\ items \in Seq(Item) /\ Len(items) \in Nat /\ DOMAIN items = 1 .. Len(items)
  BY DEF TakenSoFar
<1>4. \A k \in A : page[k].public /\ k \in 1..n
  BY DEF FirstsOf
<1>5. \A i \in 1 .. Len(items) : \E k \in A :
        items[i] = page[k] /\ Cardinality(FirstsOf(page, k)) = i
  BY DEF TakenSoFar
<1>6. Len(items) = IF limit < Cardinality(A) THEN limit ELSE Cardinality(A)
  BY DEF TakenSoFar
<1>7. A \subseteq B
  BY <1>1
<1>8. New => B = A \cup {n + 1} /\ Cardinality(B) = Cardinality(A) + 1
  <2> SUFFICES ASSUME New
               PROVE  B = A \cup {n + 1} /\ Cardinality(B) = Cardinality(A) + 1
    OBVIOUS
  <2>1. B = A \cup {n + 1}
    <3> HIDE DEF A, B, New
    <3>1. \A k \in 1 .. n + 1 : k \in 1..n \/ k = n + 1
      OBVIOUS
    <3> QED BY <1>1, <3>1
  <2> HIDE DEF A, B, New
  <2> QED BY <1>1, <1>2, <2>1, FS_AddElement
<1>9. ~ New => B = A
  <2> HIDE DEF A, B, New
  <2>1. \A k \in 1 .. n + 1 : k \in 1..n \/ k = n + 1
    OBVIOUS
  <2> QED BY <1>1, <2>1
<1>10. CASE Len(items) < limit /\ Kept(items, x)
  <2> DEFINE more == Append(items, x)
  <2>1. New
    <3>1. x.public /\ \A i \in 1 .. Len(items) : items[i].url # x.url
      BY <1>3, <1>10 DEF Kept
    <3>2. \A m \in 1..n : page[m].public => \E i \in 1 .. Len(items) : items[i].url = page[m].url
      BY <1>10 DEF TakenSoFar
    <3> HIDE DEF x
    <3> QED BY <3>1, <3>2
  <2>2. /\ more \in Seq(Item) /\ Len(more) = Len(items) + 1 /\ more[Len(items) + 1] = x
        /\ \A i \in 1 .. Len(items) : more[i] = items[i]
    BY <1>3
  <2>3. \A i \in 1 .. Len(more) : i \in 1 .. Len(items) \/ i = Len(items) + 1
    BY <1>3, <2>2
  <2>4. Len(items) = Cardinality(A) /\ Cardinality(B) = Cardinality(A) + 1
    <3>1. Cardinality(B) = Cardinality(A) + 1
      BY <1>8, <2>1
    <3> HIDE DEF A, B
    <3> QED BY <1>2, <1>3, <1>6, <1>10, <3>1
  <2>5. \A i \in 1 .. Len(more) : \E k \in B :
          more[i] = page[k] /\ Cardinality(FirstsOf(page, k)) = i
    <3>1. n + 1 \in B /\ Cardinality(FirstsOf(page, n + 1)) = Len(items) + 1
      BY <1>1, <2>1, <2>4
    <3> HIDE DEF A, B, more
    <3> QED BY <1>5, <1>7, <2>2, <2>3, <3>1
  <2>6. Len(more) = IF limit < Cardinality(B) THEN limit ELSE Cardinality(B)
    <3> HIDE DEF A, B, more
    <3> QED BY <1>2, <1>3, <1>10, <2>2, <2>4
  <2>7. \A k \in 1 .. n + 1 :
          page[k].public => \E i \in 1 .. Len(more) : more[i].url = page[k].url
    <3>1. \A k \in 1..n : page[k].public => \E i \in 1 .. Len(items) : items[i].url = page[k].url
      BY <1>10 DEF TakenSoFar
    <3>2. \A k \in 1 .. n + 1 : k \in 1..n \/ k = n + 1
      OBVIOUS
    <3>3. \A i \in 1 .. Len(items) : i \in 1 .. Len(more)
      BY <1>3, <2>2
    <3>4. Len(items) + 1 \in 1 .. Len(more)
      BY <1>3, <2>2
    <3>5. \A k \in 1..n : page[k].public => \E i \in 1 .. Len(more) : more[i].url = page[k].url
      <4> HIDE DEF more
      <4> QED BY <2>2, <3>1, <3>3
    <3>6. more[Len(items) + 1].url = page[n + 1].url
      BY <2>2
    <3> HIDE DEF more
    <3> QED BY <3>2, <3>4, <3>5, <3>6
  <2> HIDE DEF more
  <2>8. TakenSoFar(more, page, n + 1, limit)
    BY <2>2, <2>5, <2>6, <2>7 DEF TakenSoFar
  <2> QED BY <1>10, <2>8 DEF more
<1>11. CASE Len(items) < limit /\ ~ Kept(items, x)
  <2>1. ~ New
    <3>1. ~ x.public \/ \E i \in 1 .. Len(items) : items[i].url = x.url
      BY <1>3, <1>11 DEF Kept
    <3> HIDE DEF A, x
    <3> QED BY <1>4, <1>5, <3>1
  <2>2. B = A
    BY <1>9, <2>1
  <2>3. x.public => \E i \in 1 .. Len(items) : items[i].url = x.url
    BY <1>3, <1>11 DEF Kept
  <2>4. \A k \in 1 .. n + 1 : k \in 1..n \/ k = n + 1
    OBVIOUS
  <2>5. \A k \in 1 .. n + 1 :
          page[k].public => \E i \in 1 .. Len(items) : items[i].url = page[k].url
    BY <1>11, <2>3, <2>4 DEF TakenSoFar
  <2>6. TakenSoFar(items, page, n + 1, limit)
    <3>1. /\ \A i \in 1 .. Len(items) : \E k \in B :
                items[i] = page[k] /\ Cardinality(FirstsOf(page, k)) = i
          /\ Len(items) = IF limit < Cardinality(B) THEN limit ELSE Cardinality(B)
      BY <1>5, <1>6, <2>2
    <3> QED BY <1>3, <2>5, <3>1 DEF TakenSoFar
  <2> QED BY <1>11, <2>6
<1>12. CASE ~ (Len(items) < limit)
  <2>1. /\ Len(items) = limit /\ Cardinality(A) >= limit
    BY <1>2, <1>3, <1>6, <1>12
  <2>2. Cardinality(B) >= Cardinality(A)
    BY <1>2, <1>8, <1>9
  <2>3. Len(items) = IF limit < Cardinality(B) THEN limit ELSE Cardinality(B)
    <3> HIDE DEF A, B
    <3> QED BY <1>2, <2>1, <2>2
  <2>4. \A i \in 1 .. Len(items) : \E k \in B :
          items[i] = page[k] /\ Cardinality(FirstsOf(page, k)) = i
    <3> HIDE DEF A, B
    <3> QED BY <1>5, <1>7
  <2>5. TakenSoFar(items, page, n + 1, limit)
    BY <1>3, <1>12, <2>3, <2>4 DEF TakenSoFar
  <2> QED BY <1>12, <2>5
<1> QED BY <1>10, <1>11, <1>12

LEMMA TakesAll ==
  ASSUME NEW page \in Seq(Item), NEW limit \in Nat
  PROVE  TakenSoFar(Canonical(page, limit), page, Len(page), limit)
<1>1. Len(page) \in Nat
  OBVIOUS
<1>2. PICK f : /\ f = [n \in 0..Len(page) |-> TakenAt(f, n, page, limit)]
               /\ Canonical(page, limit) = f[Len(page)]
  BY <1>1, LoopTakes
<1>3. \A n \in 0..Len(page) : f[n] = TakenAt(f, n, page, limit)
  BY <1>2
<1> DEFINE T == {n \in 0..Len(page) : ~ TakenSoFar(f[n], page, n, limit)}
<1>4. T = {}
  <2> SUFFICES ASSUME T # {}
               PROVE  FALSE
    OBVIOUS
  <2>1. T \in SUBSET Nat
    BY <1>1
  <2>2. PICK n \in T : \A m \in T : n <= m
    BY <2>1, LeastNatural
  <2>3. n \in 0..Len(page) /\ ~ TakenSoFar(f[n], page, n, limit)
    OBVIOUS
  <2>4. CASE n = 0
    <3>1. f[0] = <<>>
      BY <1>1, <1>3 DEF TakenAt
    <3>2. FirstsOf(page, 0) = {}
      BY DEF FirstsOf
    <3>3. Cardinality(FirstsOf(page, 0)) = 0
      BY <3>2, FS_EmptySet
    <3>4. TakenSoFar(<<>>, page, 0, limit)
      BY <3>3 DEF TakenSoFar
    <3> QED BY <2>3, <2>4, <3>1, <3>4
  <2>5. CASE n # 0
    <3> DEFINE k == n - 1
    <3>1. k \in Nat /\ k < Len(page) /\ k + 1 = n /\ k \in 0..Len(page) /\ ~ (n <= k)
      BY <1>1, <2>3, <2>5
    <3>2. k \notin T
      <4> HIDE DEF T, k
      <4> QED BY <2>2, <3>1
    <3>3. TakenSoFar(f[k], page, k, limit)
      BY <3>1, <3>2
    <3>4. f[n] = IF Len(f[k]) < limit /\ Kept(f[k], page[n])
                 THEN Append(f[k], page[n]) ELSE f[k]
      BY <1>3, <2>3, <2>5 DEF TakenAt
    <3> HIDE DEF k, T
    <3>5. TakenSoFar(IF Len(f[k]) < limit /\ Kept(f[k], page[k + 1])
                     THEN Append(f[k], page[k + 1]) ELSE f[k], page, k + 1, limit)
      BY <3>1, <3>3, TakesOneMore
    <3> QED BY <2>3, <3>1, <3>4, <3>5
  <2> QED BY <2>4, <2>5
<1>5. Len(page) \in 0..Len(page) /\ Len(page) \notin T
  BY <1>1, <1>4
<1> QED BY <1>2, <1>5

LEMMA PrefixType ==
  ASSUME NEW page \in Seq(Item), NEW limit \in Nat
  PROVE  Prefix(page, limit) \in Seq(Item)
<1> DEFINE m == IF limit < Len(page) THEN limit ELSE Len(page)
<1>1. m \in Nat /\ m <= Len(page)
  OBVIOUS
<1>2. \A i \in 1..m : page[i] \in Item
  BY <1>1
<1> HIDE DEF m
<1>3. SubSeq(page, 1, m) \in Seq(Item)
  BY <1>1, <1>2, SubSeqProperties
<1> QED BY <1>3 DEF Prefix, m

(* What one answer reports.                                                *)
Exact(f) ==
    LET seen == IF f.open THEN Prefix(f.page, f.limit) ELSE f.page IN
    seen \in Seq(Item) /\ TakenSoFar(f.items, seen, Len(seen), f.limit)

ExactInv == \A f \in found : Exact(f)

LEMMA ExactStep ==
  ASSUME WebInv, ExactInv, [WebNext]_webVars
  PROVE  ExactInv'
<1>1. CASE UNCHANGED found
  BY <1>1 DEF ExactInv
<1>2. CASE found' = {}
  BY <1>2 DEF ExactInv
<1>3. CASE answered
  <2> DEFINE job == Head(jobs)
  <2>1. jobs # <<>>
    BY <1>3 DEF answered
  <2>2. job \in JobRecord
    BY <2>1, HeadJob
  <2> HIDE DEF job
  <2>3. job.limit \in Nat /\ job.open \in BOOLEAN
    <3>1. job.limit \in Limits \cup {1} /\ job.open \in BOOLEAN
      BY <2>2 DEF JobRecord
    <3>2. Limits \subseteq Nat
      BY WebAssumption
    <3>3. job.limit \in Nat
      <4>1. job.limit \in Limits \cup {1}
        BY <3>1
      <4>2. \A x \in Limits \cup {1} : x \in Nat
        BY <3>2
      <4> QED BY <4>1, <4>2, Zenon
    <3> QED BY <3>1, <3>3, Zenon
  <2>4. CASE UNCHANGED found
    BY <1>1, <2>4
  <2>5. ASSUME NEW page \in Pages, NEW items,
               items = IF job.open THEN normalizeOpenSearchResults(page, job.limit)
                                   ELSE normalizeSearchResults(page, job.limit),
               found' = {[page |-> page, limit |-> job.limit, items |-> items,
                          open |-> job.open]}
        PROVE  ExactInv'
    <3> DEFINE seen == IF job.open THEN Prefix(page, job.limit) ELSE page
    <3>1. seen \in Seq(Item)
      BY <2>3, WebAssumption, PrefixType
    <3>2. items = Canonical(seen, job.limit)
      BY <2>5 DEF normalizeOpenSearchResults, normalizeSearchResults
    <3> HIDE DEF seen
    <3>3. TakenSoFar(items, seen, Len(seen), job.limit)
      BY <2>3, <3>1, <3>2, TakesAll
    <3>4. ASSUME NEW f \in found'
          PROVE  Exact(f)
      <4>1. f.page = page /\ f.limit = job.limit /\ f.items = items /\ f.open = job.open
        BY <2>5
      <4> QED BY <3>1, <3>3, <4>1 DEF Exact, seen
    <3> QED BY <3>4 DEF ExactInv
  <2> QED BY <1>3, <2>4, <2>5 DEF answered, job
<1>4. CASE configureSearchProfile
  BY <1>1, <1>4 DEF configureSearchProfile
<1>5. CASE job_begins
  BY <1>2, <1>5 DEF job_begins
<1>6. CASE initialize
  BY <1>2, <1>6 DEF initialize
<1> QED BY <1>1, <1>3, <1>4, <1>5, <1>6 DEF WebNext, clearSearchPreferences, search, fetch,
        job_cancelled, redirected, described, job_fails, webVars

(* The results a search reports are exactly the first distinct public      *)
(* entries of what the provider answered, in its order, as many as were    *)
(* asked for and exist, for every page and limit: what the loops of        *)
(* normalizeSearchResults and normalizeOpenSearchResults compute.          *)
THEOREM ResultsAreExact == WebSpec => []ResultsExact
<1>1. WebInit => WebInv /\ ExactInv
  BY DEF WebInit, WebInv, CredentialStaysHome, ExactInv
<1>2. WebInv /\ ExactInv /\ [WebNext]_webVars => (WebInv /\ ExactInv)'
  BY WebStep, ExactStep
<1>3. ExactInv => ResultsExact
  <2> SUFFICES ASSUME ExactInv, NEW f \in found
               PROVE  LET seen == IF f.open THEN Prefix(f.page, f.limit) ELSE f.page
                          firsts == {n \in DOMAIN seen : seen[n].public /\
                                       \A m \in 1 .. n - 1 :
                                          seen[m].public => seen[m].url # seen[n].url}
                      IN  /\ Len(f.items) = IF f.limit < Cardinality(firsts)
                                            THEN f.limit ELSE Cardinality(firsts)
                          /\ \A i \in DOMAIN f.items : \E n \in firsts :
                                /\ f.items[i] = seen[n]
                                /\ Cardinality({m \in firsts : m <= n}) = i
    BY DEF ResultsExact
  <2> DEFINE seen == IF f.open THEN Prefix(f.page, f.limit) ELSE f.page
             firsts == {n \in DOMAIN seen : seen[n].public /\
                          \A m \in 1 .. n - 1 :
                             seen[m].public => seen[m].url # seen[n].url}
             items == f.items
  <2>1. seen \in Seq(Item) /\ TakenSoFar(items, seen, Len(seen), f.limit)
    BY DEF ExactInv, Exact
  <2> HIDE DEF seen, items
  <2>2. firsts = FirstsOf(seen, Len(seen))
    BY <2>1 DEF FirstsOf
  <2>3. \A n \in firsts : {m \in firsts : m <= n} = FirstsOf(seen, n)
    BY <2>1 DEF FirstsOf
  <2>4. DOMAIN items = 1 .. Len(items)
    BY <2>1 DEF TakenSoFar
  <2> HIDE DEF firsts
  <2>5. \A i \in DOMAIN items : \E n \in firsts :
          items[i] = seen[n] /\ Cardinality({m \in firsts : m <= n}) = i
    BY <2>1, <2>2, <2>3, <2>4 DEF TakenSoFar
  <2>6. Len(items) = IF f.limit < Cardinality(firsts) THEN f.limit ELSE Cardinality(firsts)
    BY <2>1, <2>2 DEF TakenSoFar
  <2> QED BY <2>5, <2>6 DEF seen, firsts, items
<1> QED BY <1>1, <1>2, <1>3, PTL DEF WebSpec

-----------------------------------------------------------------------------
(* The browser session.                                                    *)

Origins == {Origin[u] : u \in Urls}

CallRecord ==
    [op : LoadOps \cup ScriptOps, target : Urls \cup ScriptOps, origin : SUBSET Origins,
     phase : {"posted", "load", "script", "submitted", "settle", "end"},
     seen : SUBSET Urls, completed : BOOLEAN, ok : BOOLEAN, url : SUBSET Urls,
     answer : {"none", "ok", "error"}]

ViewRecord ==
    [page : SUBSET Urls, loading : SUBSET Urls, finishing : SUBSET Urls, client : Nat]

(* A call pins its origin before it can report anything: a load when it is *)
(* made, a script when its closure runs.                                   *)
Pinned(k) ==
    /\ \A u \in k.url : Origin[u] \in k.origin
    /\ k.op \in LoadOps => k.target \in Urls /\ k.origin = {Origin[k.target]}
    /\ k.phase = "posted" => k.url = {}
    /\ k.op = "observe" /\ k.phase = "script" => \A u \in k.seen : Origin[u] \in k.origin

CallsOK(cs) == cs \in Seq(CallRecord) /\ \A c \in 1..Len(cs) : Pinned(cs[c])

(* The closures in the queue are of different calls, none of which ran.    *)
PostedOK(cs, queue) ==
    /\ queue \in Seq(Nat)
    /\ \A i \in 1..Len(queue) : queue[i] \in 1..Len(cs) /\ cs[queue[i]].phase = "posted"
    /\ \A i, j \in 1..Len(queue) : queue[i] = queue[j] => i = j

(* There is one WebView at most, with one page, and its client is a call   *)
(* whose closure ran.                                                      *)
ViewOK(cs, views) ==
    /\ \A v, w \in views : v = w
    /\ \A v \in views :
          /\ v \in ViewRecord
          /\ v.client \in 1..Len(cs) /\ cs[v.client].phase # "posted"
          /\ \A u, w \in v.page : u = w

(* The stored location has the origin pinned by the call that saved it.    *)
LocationOK(urls, origins) == urls \in SUBSET Urls /\ \A u \in urls : Origin[u] \in origins

BrowserInv ==
    /\ CallsOK(calls)
    /\ PostedOK(calls, posted)
    /\ ViewOK(calls, view)
    /\ LocationOK(prefs, pinnedBy)

(* The fields of a call.                                                   *)
LEMMA CallFields ==
    ASSUME NEW cs, CallsOK(cs), NEW c \in 1..Len(cs)
    PROVE  /\ cs[c] \in CallRecord /\ Pinned(cs[c])
           /\ cs[c].op \in LoadOps \cup ScriptOps /\ cs[c].target \in Urls \cup ScriptOps
           /\ cs[c].origin \in SUBSET Origins /\ cs[c].seen \in SUBSET Urls
           /\ cs[c].completed \in BOOLEAN /\ cs[c].url \in SUBSET Urls
           /\ Len(cs) \in Nat /\ DOMAIN cs = 1..Len(cs)
  <1>1. cs[c] \in CallRecord /\ Pinned(cs[c]) /\ Len(cs) \in Nat /\ DOMAIN cs = 1..Len(cs)
    BY LenProperties DEF CallsOK
  <1> QED BY <1>1 DEF CallRecord

(* The same calls, of which the same have run.                             *)
Succeeds(cs, ds) ==
    /\ CallsOK(ds) /\ Len(ds) = Len(cs)
    /\ \A d \in 1..Len(cs) : ds[d].phase = "posted" <=> cs[d].phase = "posted"

LEMMA CallsKept ==
    ASSUME BrowserInv, Succeeds(calls, calls'), posted' = posted, ViewOK(calls, view'),
           LocationOK(prefs', pinnedBy')
    PROVE  BrowserInv'
  <1>1. PostedOK(calls', posted')
    BY DEF BrowserInv, Succeeds, PostedOK
  <1>2. ViewOK(calls', view')
    BY DEF Succeeds, ViewOK
  <1> QED BY <1>1, <1>2 DEF BrowserInv, Succeeds

(* One call replaced.                                                      *)
Replaced(cs, c, k) == [cs EXCEPT ![c] = k]

(* A call is replaced by one that has run if and only if it had run.       *)
LEMMA CallChanges ==
    ASSUME NEW cs, CallsOK(cs), NEW c \in 1..Len(cs), NEW k \in CallRecord, Pinned(k),
           k.phase = "posted" <=> cs[c].phase = "posted"
    PROVE  Succeeds(cs, Replaced(cs, c, k)) /\ Replaced(cs, c, k)[c] = k
  <1> DEFINE ds == Replaced(cs, c, k)
  <1>1. /\ ds \in Seq(CallRecord) /\ Len(ds) = Len(cs) /\ ds[c] = k
        /\ \A d \in 1..Len(cs) : d # c => ds[d] = cs[d]
    BY ExceptSeq, LenProperties DEF CallsOK, Replaced
  <1> HIDE DEF ds
  <1>2. \A d \in 1..Len(cs) : ds[d].phase = "posted" <=> cs[d].phase = "posted"
    BY <1>1
  <1>3. CallsOK(ds)
    BY <1>1 DEF CallsOK
  <1> QED BY <1>1, <1>2, <1>3 DEF Succeeds, ds

(* A completion keeps all this when it reports URLs of the pinned origin   *)
(* for a call that has run, or nothing.                                    *)
LEMMA Finished ==
    ASSUME NEW cs, CallsOK(cs), NEW c \in 1..Len(cs), NEW ok \in BOOLEAN,
           NEW url \in SUBSET Urls, \A u \in url : Origin[u] \in cs[c].origin,
           cs[c].phase = "posted" => url = {}
    PROVE  LET ds == finish(cs, c, ok, url) IN
           /\ Succeeds(cs, ds)
           /\ ds[c].phase = cs[c].phase /\ ds[c].op = cs[c].op
  <1> DEFINE k == [cs[c] EXCEPT !.completed = TRUE, !.ok = ok, !.url = url]
  <1>1. cs[c] \in CallRecord /\ Pinned(cs[c])
    BY CallFields
  <1>2. /\ k \in CallRecord /\ k.phase = cs[c].phase /\ k.url = url /\ k.op = cs[c].op
        /\ k.target = cs[c].target /\ k.origin = cs[c].origin /\ k.seen = cs[c].seen
    BY <1>1 DEF CallRecord
  <1>3. Pinned(k)
    <2> HIDE DEF k
    <2> QED BY <1>1, <1>2 DEF Pinned
  <1>4. finish(cs, c, ok, url) = IF cs[c].completed THEN cs ELSE Replaced(cs, c, k)
    BY DEF finish, CallsOK, Replaced
  <1> HIDE DEF k
  <1>5. (k.phase = "posted" <=> cs[c].phase = "posted")
    BY <1>2
  <1>6. ASSUME cs[c].completed PROVE finish(cs, c, ok, url) = cs /\ Succeeds(cs, cs)
    BY <1>4, <1>6 DEF Succeeds
  <1>7. ASSUME ~cs[c].completed
        PROVE  /\ Succeeds(cs, finish(cs, c, ok, url)) /\ finish(cs, c, ok, url)[c] = k
    <2>1. Succeeds(cs, Replaced(cs, c, k)) /\ Replaced(cs, c, k)[c] = k
      BY <1>2, <1>3, <1>5, CallChanges
    <2> QED BY <1>4, <1>7, <2>1
  <1> QED BY <1>2, <1>6, <1>7

(* A failure reports nothing.                                              *)
LEMMA Failed ==
    ASSUME NEW cs, CallsOK(cs), NEW c \in 1..Len(cs)
    PROVE  LET ds == Fail(cs, c) IN
           /\ Succeeds(cs, ds)
           /\ ds[c].phase = cs[c].phase /\ ds[c].op = cs[c].op
  BY Finished DEF Fail

(* A completion with a page of the pinned origin, or a failure.            *)
LEMMA VerifiedStep ==
    ASSUME NEW cs, CallsOK(cs), NEW c \in 1..Len(cs), cs[c].phase # "posted",
           cs[c].origin = calls[c].origin, LocationOK(prefs, pinnedBy),
           NEW u \in Urls, SameOrigin(c, u), Verified(cs, c, u)
    PROVE  Succeeds(cs, calls') /\ LocationOK(prefs', pinnedBy')
  <1>1. Succeeds(cs, finish(cs, c, TRUE, {u}))
    <2>1. \A w \in {u} : Origin[w] \in cs[c].origin
      BY DEF SameOrigin
    <2> QED BY <2>1, Finished
  <1>2. Succeeds(cs, Fail(cs, c))
    BY Failed
  <1>3. LocationOK({u}, calls[c].origin)
    BY DEF LocationOK, SameOrigin
  <1> QED BY <1>1, <1>2, <1>3 DEF Verified

(* The WebView is the one there is.                                        *)
LEMMA TheView ==
    ASSUME BrowserInv, view # {}
    PROVE  /\ View \in view /\ View \in ViewRecord /\ View.page \in SUBSET Urls
           /\ \A u, w \in View.page : u = w
           /\ View.client \in 1..Len(calls) /\ calls[View.client].phase # "posted"
  <1>1. View \in view
    BY DEF View
  <1> QED BY <1>1 DEF BrowserInv, ViewOK, ViewRecord

(* The WebView with other contents.                                        *)
LEMMA ViewChanges ==
    ASSUME NEW cs, NEW v \in ViewRecord, v.client \in 1..Len(cs),
           cs[v.client].phase # "posted", \A u, w \in v.page : u = w
    PROVE  ViewOK(cs, {v})
  BY DEF ViewOK

(* What a caller does: a call with a closure in the queue.                 *)
LEMMA Enters ==
    ASSUME BrowserInv, NEW k \in CallRecord, Pinned(k), k.phase = "posted", Enter(k)
    PROVE  BrowserInv'
  <1>1. /\ calls' = Append(calls, k) /\ posted' = Append(posted, Len(calls) + 1)
        /\ UNCHANGED <<view, prefs, pinnedBy, navigations>>
    BY DEF Enter
  <1>2. /\ calls \in Seq(CallRecord) /\ Len(calls) \in Nat
        /\ posted \in Seq(Nat) /\ Len(posted) \in Nat
    BY LenProperties DEF BrowserInv, CallsOK, PostedOK
  <1>3. /\ calls' \in Seq(CallRecord) /\ Len(calls') = Len(calls) + 1
        /\ calls'[Len(calls) + 1] = k
        /\ \A c \in 1..Len(calls) : calls'[c] = calls[c]
    BY <1>1, <1>2
  <1>4. /\ posted' \in Seq(Nat) /\ Len(posted') = Len(posted) + 1
        /\ posted'[Len(posted) + 1] = Len(calls) + 1
        /\ \A i \in 1..Len(posted) : posted'[i] = posted[i]
    BY <1>1, <1>2
  <1>5. \A n \in Nat : 1..(n + 1) = (1..n) \cup {n + 1}
    OBVIOUS
  <1>6. CallsOK(calls')
    <2>1. ASSUME NEW c \in 1..Len(calls') PROVE Pinned(calls'[c])
      <3>1. c \in 1..Len(calls) \/ c = Len(calls) + 1
        BY <1>2, <1>3
      <3> QED BY <1>3, <3>1 DEF BrowserInv, CallsOK
    <2> QED BY <1>3, <2>1 DEF CallsOK
  <1>7. PostedOK(calls', posted')
    <2>1. ASSUME NEW i \in 1..Len(posted')
          PROVE  posted'[i] \in 1..Len(calls') /\ calls'[posted'[i]].phase = "posted"
      <3>1. i \in 1..Len(posted) \/ i = Len(posted) + 1
        BY <1>2, <1>4
      <3>2. CASE i \in 1..Len(posted)
        <4>1. posted[i] \in 1..Len(calls) /\ calls[posted[i]].phase = "posted"
          BY <3>2 DEF BrowserInv, PostedOK
        <4> QED BY <1>2, <1>3, <1>4, <3>2, <4>1
      <3>3. CASE i = Len(posted) + 1
        BY <1>2, <1>3, <1>4, <3>3
      <3> QED BY <3>1, <3>2, <3>3
    <2>2. ASSUME NEW i \in 1..Len(posted'), NEW j \in 1..Len(posted'), posted'[i] = posted'[j]
          PROVE  i = j
      <3>1. \A n \in 1..Len(posted) : posted[n] \in 1..Len(calls)
        BY DEF BrowserInv, PostedOK
      <3>2. \A m, n \in 1..Len(posted) : posted[m] = posted[n] => m = n
        BY DEF BrowserInv, PostedOK
      <3>3. /\ i \in 1..Len(posted) \/ i = Len(posted) + 1
            /\ j \in 1..Len(posted) \/ j = Len(posted) + 1
        BY <1>2, <1>4
      <3>4. \A n \in 1..Len(posted) : posted'[n] # Len(calls) + 1
        <4>1. \A n \in 1..Len(calls) : n # Len(calls) + 1
          BY <1>2
        <4> QED BY <1>4, <3>1, <4>1
      <3> QED BY <1>4, <2>2, <3>2, <3>3, <3>4
    <2> QED BY <1>4, <2>1, <2>2 DEF PostedOK
  <1>8. ViewOK(calls', view')
    <2>1. \A v \in view : v.client \in 1..Len(calls') /\ calls'[v.client] = calls[v.client]
      BY <1>2, <1>3 DEF BrowserInv, ViewOK
    <2> QED BY <1>1, <2>1 DEF BrowserInv, ViewOK
  <1> QED BY <1>1, <1>6, <1>7, <1>8 DEF BrowserInv

(* The closure at the head of the queue runs; the others stay.             *)
LEMMA ClosureRuns ==
    ASSUME BrowserInv, posted # <<>>
    PROVE  LET c == Head(posted) IN
           /\ c \in 1..Len(calls) /\ calls[c].phase = "posted"
           /\ PostedOK(calls, Tail(posted))
           /\ \A i \in 1..Len(Tail(posted)) : Tail(posted)[i] # c
  <1>1. /\ posted \in Seq(Nat) /\ Len(posted) \in Nat \ {0} /\ Head(posted) = posted[1]
    BY EmptySeq, LenProperties DEF BrowserInv, PostedOK
  <1>2. /\ Tail(posted) \in Seq(Nat) /\ Len(Tail(posted)) = Len(posted) - 1
        /\ \A i \in 1..Len(Tail(posted)) : Tail(posted)[i] = posted[i + 1]
    BY <1>1, HeadTailProperties
  <1>3. /\ \A i \in 1..Len(posted) : posted[i] \in 1..Len(calls) /\ calls[posted[i]].phase = "posted"
        /\ \A i, j \in 1..Len(posted) : posted[i] = posted[j] => i = j
    BY DEF BrowserInv, PostedOK
  <1>4. \A i \in 1..Len(Tail(posted)) : i + 1 \in 1..Len(posted) /\ i + 1 # 1
    BY <1>1, <1>2
  <1>5. 1 \in 1..Len(posted)
    BY <1>1
  <1>6. \A i \in 1..Len(Tail(posted)) :
           /\ Tail(posted)[i] \in 1..Len(calls) /\ calls[Tail(posted)[i]].phase = "posted"
           /\ Tail(posted)[i] # posted[1]
    BY <1>2, <1>3, <1>4, <1>5
  <1>7. ASSUME NEW i \in 1..Len(Tail(posted)), NEW j \in 1..Len(Tail(posted)),
               Tail(posted)[i] = Tail(posted)[j]
        PROVE  i = j
    <2>1. i + 1 = j + 1
      BY <1>2, <1>3, <1>4, <1>7
    <2> QED BY <1>1, <1>2, <2>1
  <1> QED BY <1>1, <1>2, <1>3, <1>5, <1>6, <1>7 DEF PostedOK

(* The call of the closure changes in any way, its phase too.              *)
LEMMA ClosureChanges ==
    ASSUME BrowserInv, posted # <<>>, NEW k \in CallRecord, Pinned(k),
           calls' = [calls EXCEPT ![Head(posted)] = k]
    PROVE  /\ CallsOK(calls') /\ Len(calls') = Len(calls) /\ calls'[Head(posted)] = k
           /\ PostedOK(calls', Tail(posted))
  <1> DEFINE c == Head(posted)
  <1>1. /\ c \in 1..Len(calls) /\ PostedOK(calls, Tail(posted))
        /\ \A i \in 1..Len(Tail(posted)) : Tail(posted)[i] # c
    BY ClosureRuns
  <1>2. /\ calls' \in Seq(CallRecord) /\ Len(calls') = Len(calls) /\ calls'[c] = k
        /\ \A d \in 1..Len(calls) : d # c => calls'[d] = calls[d]
    BY <1>1, ExceptSeq, LenProperties DEF BrowserInv, CallsOK
  <1>3. CallsOK(calls')
    BY <1>2 DEF BrowserInv, CallsOK
  <1>4. PostedOK(calls', Tail(posted))
    <2> HIDE DEF c
    <2> QED BY <1>1, <1>2 DEF PostedOK
  <1> QED BY <1>2, <1>3, <1>4

(* Each step of a caller, of the main thread and of the page.              *)
LEMMA BrowserStep ==
    ASSUME BrowserInv, [BrowserNext]_browserVars
    PROVE  BrowserInv'
  <1>1. ASSUME NEW op \in LoadOps, NEW u \in Urls, Enter(Call(op, u, {Origin[u]}))
        PROVE  BrowserInv'
    <2> DEFINE k == Call(op, u, {Origin[u]})
    <2>1. k \in CallRecord /\ Pinned(k) /\ k.phase = "posted"
      BY DEF Call, CallRecord, Pinned, Origins, LoadOps
    <2> QED BY <1>1, <2>1, Enters
  <1>2. CASE observe \/ observe_session \/ interact_navigate
    BY <1>1, <1>2 DEF observe, observe_session, interact_navigate, BrowserInv, LocationOK, LoadOps
  <1>3. CASE interact
    <2>1. PICK op \in ScriptOps : Enter(Call(op, op, {}))
      BY <1>3 DEF interact
    <2> DEFINE k == Call(op, op, {})
    <2>2. k \in CallRecord /\ Pinned(k) /\ k.phase = "posted"
      BY DEF Call, CallRecord, Pinned, LoadOps, ScriptOps
    <2> QED BY <2>1, <2>2, Enters
  <1>4. ASSUME NEW c \in Unanswered, NEW answer \in {"ok", "error"}, Answer(c, answer)
        PROVE  BrowserInv'
    <2> DEFINE k == [calls[c] EXCEPT !.answer = answer]
    <2>1. c \in 1..Len(calls) /\ CallsOK(calls)
      BY LenProperties DEF Unanswered, BrowserInv, CallsOK
    <2>2. calls[c] \in CallRecord /\ Pinned(calls[c])
      BY <2>1, CallFields
    <2>3. /\ k \in CallRecord /\ Pinned(k) /\ k.phase = calls[c].phase
      BY <2>2 DEF CallRecord, Pinned
    <2>4. calls' = Replaced(calls, c, k) /\ UNCHANGED <<posted, view, prefs, pinnedBy>>
      BY <1>4 DEF Answer, Replaced
    <2> HIDE DEF k
    <2>5. (k.phase = "posted" <=> calls[c].phase = "posted")
      BY <2>3
    <2>6. Succeeds(calls, calls')
      BY <2>1, <2>3, <2>4, <2>5, CallChanges
    <2> QED BY <2>4, <2>6, CallsKept DEF BrowserInv
  <1>5. CASE call_returns \/ call_times_out
    BY <1>4, <1>5 DEF call_returns, call_times_out
  <1>0. ASSUME posted # <<>>, calls' = Fail(calls, Head(posted)), posted' = Tail(posted),
               UNCHANGED <<view, prefs, pinnedBy>>
        PROVE  BrowserInv'
    <2>1. Head(posted) \in 1..Len(calls) /\ PostedOK(calls, Tail(posted))
      BY <1>0, ClosureRuns
    <2>2. Succeeds(calls, calls')
      BY <1>0, <2>1, Failed DEF BrowserInv
    <2>3. PostedOK(calls', posted')
      BY <1>0, <2>1, <2>2 DEF Succeeds, PostedOK
    <2>4. ViewOK(calls', view')
      BY <1>0, <2>2 DEF BrowserInv, Succeeds, ViewOK
    <2> QED BY <1>0, <2>2, <2>3, <2>4 DEF BrowserInv, Succeeds
  <1>6. ASSUME perform_load, calls' # Fail(calls, Head(posted)) \/ view' # view PROVE BrowserInv'
    <2> DEFINE c == Head(posted)
               v == IF view = {} THEN NoView ELSE View
               k == [calls[c] EXCEPT !.phase = "load"]
               w == [v EXCEPT !.client = c, !.loading = {calls[c].target}]
    <2>1. /\ posted # <<>> /\ calls[c].op \in LoadOps /\ view' = {w}
          /\ calls' = [calls EXCEPT ![c] = k]
          /\ posted' = Tail(posted) /\ UNCHANGED <<prefs, pinnedBy>>
      BY <1>6 DEF perform_load
    <2>2. c \in 1..Len(calls) /\ calls[c] \in CallRecord /\ Pinned(calls[c]) /\ c \in Nat
      <3>1. c \in 1..Len(calls)
        BY <2>1, ClosureRuns
      <3> QED BY <3>1, CallFields DEF BrowserInv
    <2>3. k \in CallRecord /\ Pinned(k) /\ k.phase = "load"
      <3>1. /\ k \in CallRecord /\ k.phase = "load" /\ k.url = calls[c].url /\ k.op = calls[c].op
            /\ k.target = calls[c].target /\ k.origin = calls[c].origin
        BY <2>2 DEF CallRecord
      <3> HIDE DEF k
      <3> QED BY <2>2, <3>1 DEF Pinned
    <2>4. v \in ViewRecord /\ \A x, y \in v.page : x = y
      <3>1. NoView \in ViewRecord /\ NoView.page = {}
        BY DEF NoView, ViewRecord
      <3> QED BY <3>1, TheView
    <2>5. calls[c].target \in Urls
      BY <2>1, <2>2 DEF Pinned
    <2>6. w \in ViewRecord /\ w.client = c /\ w.page = v.page
      <3> HIDE DEF v
      <3> QED BY <2>2, <2>4, <2>5 DEF ViewRecord
    <2> HIDE DEF k, w
    <2>7. /\ CallsOK(calls') /\ Len(calls') = Len(calls) /\ calls'[c] = k
          /\ PostedOK(calls', posted')
      BY <2>1, <2>3, ClosureChanges
    <2>8. ViewOK(calls', view')
      BY <2>1, <2>2, <2>3, <2>4, <2>6, <2>7, ViewChanges
    <2> QED BY <2>1, <2>7, <2>8 DEF BrowserInv
  <1>7. ASSUME perform_script, calls' # Fail(calls, Head(posted)) \/ view' # view PROVE BrowserInv'
    <2> DEFINE c == Head(posted)
    <2>1. posted # <<>> /\ posted' = Tail(posted) /\ UNCHANGED <<prefs, pinnedBy>> /\ calls[c].op \in ScriptOps
      BY <1>7 DEF perform_script
    <2>2. /\ c \in 1..Len(calls) /\ calls[c] \in CallRecord /\ Pinned(calls[c]) /\ c \in Nat
          /\ calls[c].phase = "posted" /\ PostedOK(calls, Tail(posted))
      <3>1. c \in 1..Len(calls) /\ calls[c].phase = "posted" /\ PostedOK(calls, Tail(posted))
        BY <2>1, ClosureRuns
      <3> QED BY <3>1, CallFields DEF BrowserInv
    <2>4. CASE view # {} /\ View.page # {}
      <3> DEFINE k == [calls[c] EXCEPT !.phase = "script",
                                       !.origin = {Origin[u] : u \in View.page}]
                 w == [View EXCEPT !.client = c]
      <3>1. view' = {w} /\ calls' = [calls EXCEPT ![c] = k]
        BY <1>7, <2>2, <2>4 DEF perform_script
      <3>2. {Origin[u] : u \in View.page} \in SUBSET Origins
        BY <2>4, TheView DEF Origins
      <3>3. k \in CallRecord /\ Pinned(k) /\ k.phase = "script"
        <4>1. /\ k \in CallRecord /\ k.phase = "script" /\ k.url = calls[c].url
              /\ k.op = calls[c].op
          BY <2>2, <3>2 DEF CallRecord
        <4> HIDE DEF k
        <4> QED BY <2>1, <2>2, <4>1 DEF Pinned, LoadOps, ScriptOps
      <3>4. w \in ViewRecord /\ w.client = c /\ w.page = View.page
        BY <2>2, <2>4, TheView DEF ViewRecord
      <3> HIDE DEF k, w
      <3>5. /\ CallsOK(calls') /\ Len(calls') = Len(calls) /\ calls'[c] = k
            /\ PostedOK(calls', posted')
        BY <2>1, <3>1, <3>3, ClosureChanges
      <3>6. ViewOK(calls', view')
        BY <2>2, <2>4, <3>1, <3>3, <3>4, <3>5, ViewChanges, TheView
      <3> QED BY <2>1, <3>5, <3>6 DEF BrowserInv
    <2> QED BY <1>7, <2>4 DEF perform_script
  <1>8. ASSUME NEW v \in view, NEW w \in ViewRecord, view' = {w}, w.client = v.client,
               \A x, y \in w.page : x = y
        PROVE  ViewOK(calls, view')
    BY <1>8, ViewChanges DEF BrowserInv, ViewOK
  <1>9. CASE onPageFinished
    <2>1. PICK v \in view, u \in UNION {x.finishing : x \in view} :
             LET c == v.client IN
             /\ u \in v.finishing
             /\ view' = {[v EXCEPT !.finishing = @ \ {u}]}
             /\ CASE calls[c].completed \/ calls[c].op \in {"click", "set_value"} ->
                       UNCHANGED <<calls, prefs, pinnedBy>>
                  [] ~calls[c].completed /\ calls[c].op \in {"observe", "navigate", "submit"}
                         /\ ~SameOrigin(c, u) ->
                       /\ calls' = Fail(calls, c)
                       /\ UNCHANGED <<prefs, pinnedBy>>
                  [] ~calls[c].completed /\ calls[c].op = "observe" /\ SameOrigin(c, u) ->
                       /\ calls' = [calls EXCEPT ![c].phase = "script", ![c].seen = {u}]
                       /\ UNCHANGED <<prefs, pinnedBy>>
                  [] OTHER -> Verified(calls, c, u)
             /\ UNCHANGED <<busy, posted, navigations>>
      BY <1>9 DEF onPageFinished
    <2> DEFINE c == v.client
               w == [v EXCEPT !.finishing = @ \ {u}]
    <2>2. /\ v \in ViewRecord /\ c \in 1..Len(calls) /\ calls[c].phase # "posted"
          /\ \A x, y \in v.page : x = y
      BY DEF BrowserInv, ViewOK
    <2>3. u \in Urls
      BY <2>1, <2>2 DEF ViewRecord
    <2>4. w \in ViewRecord /\ w.client = c /\ w.page = v.page
      BY <2>2 DEF ViewRecord
    <2>5. ViewOK(calls, view')
      <3>1. view' = {w}
        BY <2>1
      <3>2. w.client \in 1..Len(calls) /\ calls[w.client].phase # "posted"
            /\ \A x, y \in w.page : x = y
        BY <2>2, <2>4
      <3> HIDE DEF w
      <3> QED BY <2>4, <3>1, <3>2, ViewChanges
    <2>6. calls[c] \in CallRecord /\ Pinned(calls[c]) /\ calls[c].completed \in BOOLEAN
          /\ calls[c].op \in LoadOps \cup ScriptOps
      BY <2>2, CallFields DEF BrowserInv
    <2> HIDE DEF w
    <2>7. CASE UNCHANGED <<calls, prefs, pinnedBy>>
      <3>1. Succeeds(calls, calls)
        BY DEF BrowserInv, Succeeds
      <3> QED BY <2>1, <2>5, <2>7, <3>1, CallsKept DEF BrowserInv
    <2>8. CASE calls' = Fail(calls, c) /\ UNCHANGED <<prefs, pinnedBy>>
      <3>1. Succeeds(calls, calls')
        BY <2>2, <2>8, Failed DEF BrowserInv
      <3> QED BY <2>1, <2>5, <2>8, <3>1, CallsKept DEF BrowserInv
    <2>9. CASE /\ calls' = [calls EXCEPT ![c].phase = "script", ![c].seen = {u}]
               /\ UNCHANGED <<prefs, pinnedBy>> /\ SameOrigin(c, u)
      <3> DEFINE k == [calls[c] EXCEPT !.phase = "script", !.seen = {u}]
      <3>1. /\ k \in CallRecord /\ k.phase = "script" /\ k.url = calls[c].url
            /\ k.op = calls[c].op /\ k.target = calls[c].target /\ k.seen = {u}
            /\ k.origin = calls[c].origin
        BY <2>3, <2>6 DEF CallRecord
      <3>2. calls' = Replaced(calls, c, k)
        BY <2>2, <2>9 DEF BrowserInv, CallsOK, Replaced
      <3> HIDE DEF k
      <3>3. Pinned(k) /\ (k.phase = "posted" <=> calls[c].phase = "posted")
        BY <2>2, <2>6, <2>9, <3>1 DEF Pinned, SameOrigin
      <3>4. Succeeds(calls, calls')
        BY <2>2, <3>1, <3>2, <3>3, CallChanges DEF BrowserInv
      <3> QED BY <2>1, <2>5, <2>9, <3>4, CallsKept DEF BrowserInv
    <2>10. CASE Verified(calls, c, u) /\ SameOrigin(c, u)
      BY <2>1, <2>2, <2>3, <2>5, <2>10, VerifiedStep, CallsKept DEF BrowserInv
    <2> QED BY <2>1, <2>6, <2>7, <2>8, <2>9, <2>10 DEF LoadOps, ScriptOps
  <1>10. CASE observed
    <2>1. PICK c \in DOMAIN calls :
             /\ view # {} /\ calls[c].op = "observe" /\ calls[c].phase = "script"
             /\ IF View.page = calls[c].seen
                THEN \E u \in View.page : Verified(calls, c, u)
                ELSE calls' = Fail(calls, c) /\ UNCHANGED <<prefs, pinnedBy>>
      BY <1>10 DEF observed
    <2>2. UNCHANGED <<posted, view>>
      BY <1>10 DEF observed
    <2>3. c \in 1..Len(calls) /\ Pinned(calls[c])
      BY LenProperties DEF BrowserInv, CallsOK
    <2>4. CASE View.page = calls[c].seen
      <3>1. PICK u \in View.page : Verified(calls, c, u)
        BY <2>1, <2>4
      <3>2. SameOrigin(c, u) /\ u \in Urls
        BY <2>1, <2>3, <2>4, TheView DEF Pinned, SameOrigin
      <3>3. Succeeds(calls, calls') /\ LocationOK(prefs', pinnedBy')
        BY <2>1, <2>3, <3>1, <3>2, VerifiedStep DEF BrowserInv
      <3> QED BY <2>2, <3>3, CallsKept DEF BrowserInv
    <2>5. CASE View.page # calls[c].seen
      <3>1. Succeeds(calls, calls') /\ LocationOK(prefs', pinnedBy')
        BY <2>1, <2>3, <2>5, Failed DEF BrowserInv
      <3> QED BY <2>2, <3>1, CallsKept DEF BrowserInv
    <2> QED BY <2>4, <2>5
  <1>11. ASSUME NEW cs, CallsOK(cs), NEW c \in 1..Len(cs), cs[c].op \notin {"observe"},
                cs[c].phase # "posted", NEW phase \in {"submitted", "settle", "end"},
                NEW seen \in SUBSET Urls,
                NEW ds, ds = [cs EXCEPT ![c].phase = phase, ![c].seen = seen]
         PROVE  Succeeds(cs, ds)
    <2> DEFINE k == [cs[c] EXCEPT !.phase = phase, !.seen = seen]
    <2>1. cs[c] \in CallRecord /\ Pinned(cs[c])
      BY <1>11, CallFields
    <2>2. /\ k \in CallRecord /\ k.phase = phase /\ k.url = cs[c].url /\ k.op = cs[c].op
          /\ k.target = cs[c].target /\ k.origin = cs[c].origin
      BY <2>1 DEF CallRecord
    <2>3. ds = Replaced(cs, c, k)
      BY <1>11 DEF CallsOK, Replaced
    <2> HIDE DEF k
    <2>4. Pinned(k) /\ (k.phase = "posted" <=> cs[c].phase = "posted")
      BY <1>11, <2>1, <2>2 DEF Pinned
    <2>5. Succeeds(cs, Replaced(cs, c, k))
      BY <1>11, <2>2, <2>4, CallChanges
    <2> QED BY <2>3, <2>5
  <1>12. ASSUME NEW cs, CallsOK(cs), NEW c \in 1..Len(cs), NEW phase
         PROVE  [cs EXCEPT ![c].phase = phase] =
                    [cs EXCEPT ![c].phase = phase, ![c].seen = cs[c].seen]
    <2>1. cs[c] \in CallRecord
      BY <1>12, CallFields
    <2>2. [cs[c] EXCEPT !.phase = phase] = [cs[c] EXCEPT !.phase = phase, !.seen = cs[c].seen]
      BY <2>1 DEF CallRecord
    <2> QED BY <1>12, <2>2 DEF CallsOK
  <1>13. CASE script_runs
    <2>1. PICK c \in DOMAIN calls :
             /\ view # {} /\ calls[c].op \in ScriptOps /\ calls[c].phase = "script"
             /\ \/ calls' = [Fail(calls, c) EXCEPT ![c].phase = "end"]
                \/ calls' = [calls EXCEPT
                     ![c].phase = IF @ = "script" /\ calls[c].op = "submit"
                                  THEN "submitted" ELSE "settle",
                     ![c].seen = View.page]
      BY <1>13 DEF script_runs
    <2>2. UNCHANGED <<posted, view, prefs, pinnedBy>>
      BY <1>13 DEF script_runs
    <2>3. c \in 1..Len(calls) /\ CallsOK(calls) /\ calls[c].op # "observe"
      BY <2>1, LenProperties DEF BrowserInv, CallsOK, ScriptOps
    <2>4. CASE calls' = [Fail(calls, c) EXCEPT ![c].phase = "end"]
      <3> DEFINE cs == Fail(calls, c)
      <3>1. Succeeds(calls, cs) /\ cs[c].phase = "script" /\ cs[c].op = calls[c].op
        BY <2>1, <2>3, Failed
      <3> HIDE DEF cs
      <3>0. CallsOK(cs) /\ c \in 1..Len(cs)
        BY <2>3, <3>1 DEF Succeeds
      <3>2. cs[c].seen \in SUBSET Urls
        BY <3>0, CallFields
      <3>3. calls' = [cs EXCEPT ![c].phase = "end", ![c].seen = cs[c].seen]
        BY <1>12, <2>4, <3>0, ZenonT(60) DEF cs
      <3>4. cs[c].op \notin {"observe"} /\ cs[c].phase # "posted"
            /\ "end" \in {"submitted", "settle", "end"}
        BY <2>3, <3>1
      <3>5. Succeeds(cs, calls')
        BY <1>11, <3>0, <3>2, <3>3, <3>4
      <3>6. Succeeds(calls, calls')
        BY <3>1, <3>5 DEF Succeeds
      <3> QED BY <2>2, <3>6, CallsKept DEF BrowserInv
    <2>5. CASE calls' = [calls EXCEPT
                 ![c].phase = IF @ = "script" /\ calls[c].op = "submit"
                              THEN "submitted" ELSE "settle",
                 ![c].seen = View.page]
      <3> DEFINE phase == IF calls[c].phase = "script" /\ calls[c].op = "submit"
                          THEN "submitted" ELSE "settle"
      <3>1. phase \in {"submitted", "settle", "end"}
        OBVIOUS
      <3>2. calls' = [calls EXCEPT ![c].phase = phase, ![c].seen = View.page]
        BY <2>5
      <3>3. View.page \in SUBSET Urls
        BY <2>1, TheView
      <3> HIDE DEF phase
      <3>4. calls[c].op \notin {"observe"} /\ calls[c].phase # "posted"
        BY <2>1, <2>3
      <3>5. Succeeds(calls, calls')
        BY <1>11, <2>3, <3>1, <3>2, <3>3, <3>4
      <3> QED BY <2>2, <3>5, CallsKept DEF BrowserInv
    <2> QED BY <2>1, <2>4, <2>5
  <1>14. CASE finishInteraction
    <2>1. PICK c \in DOMAIN calls :
             /\ view # {} /\ calls[c].phase = "settle"
             /\ LET ended == [calls EXCEPT ![c].phase = "end"] IN
                \/ \E u \in View.page : SameOrigin(c, u) /\ Verified(ended, c, u)
                \/ calls' = Fail(ended, c) /\ UNCHANGED <<prefs, pinnedBy>>
      BY <1>14 DEF finishInteraction
    <2>2. UNCHANGED <<posted, view>>
      BY <1>14 DEF finishInteraction
    <2>3. /\ c \in 1..Len(calls) /\ CallsOK(calls)
          /\ calls[c] \in CallRecord /\ Pinned(calls[c])
      BY LenProperties, CallFields DEF BrowserInv, CallsOK
    <2> DEFINE ended == [calls EXCEPT ![c].phase = "end"]
               k == [calls[c] EXCEPT !.phase = "end"]
    <2>4. /\ k \in CallRecord /\ k.phase = "end" /\ k.url = calls[c].url /\ k.op = calls[c].op
          /\ k.target = calls[c].target /\ k.origin = calls[c].origin
      BY <2>3 DEF CallRecord
    <2>5. Pinned(k) /\ (k.phase = "posted" <=> calls[c].phase = "posted")
      <3> HIDE DEF k
      <3> QED BY <2>1, <2>3, <2>4 DEF Pinned
    <2>6. /\ Succeeds(calls, ended) /\ ended[c] = k
          /\ CallsOK(ended) /\ c \in 1..Len(ended)
      <3>1. ended = Replaced(calls, c, k)
        BY <2>3 DEF CallsOK, Replaced
      <3> HIDE DEF ended, k
      <3>2. Succeeds(calls, Replaced(calls, c, k)) /\ Replaced(calls, c, k)[c] = k
        BY <2>3, <2>4, <2>5, CallChanges
      <3> QED BY <2>3, <3>1, <3>2 DEF Succeeds
    <2> HIDE DEF k, ended
    <2>7. View.page \in SUBSET Urls /\ \A u, w \in View.page : u = w
      BY <2>1, TheView
    <2>8. ASSUME NEW u \in View.page, SameOrigin(c, u), Verified(ended, c, u)
          PROVE  BrowserInv'
      <3>1. ended[c].phase # "posted" /\ ended[c].origin = calls[c].origin /\ u \in Urls
        BY <2>4, <2>6, <2>7
      <3>2. Succeeds(ended, calls') /\ LocationOK(prefs', pinnedBy')
        BY <2>6, <2>8, <3>1, VerifiedStep DEF BrowserInv
      <3>3. Succeeds(calls, calls')
        BY <2>6, <3>2 DEF Succeeds
      <3> QED BY <2>2, <3>2, <3>3, CallsKept DEF BrowserInv
    <2>9. CASE calls' = Fail(ended, c) /\ UNCHANGED <<prefs, pinnedBy>>
      <3>2. Succeeds(ended, calls')
        BY <2>6, <2>9, Failed
      <3>3. Succeeds(calls, calls')
        BY <2>6, <3>2 DEF Succeeds
      <3> QED BY <2>2, <2>9, <3>3, CallsKept DEF BrowserInv
    <2> QED BY <2>1, <2>8, <2>9 DEF ended
  <1>15. ASSUME NEW v \in view
         PROVE  /\ v \in ViewRecord /\ v.client \in 1..Len(calls)
                /\ \A loading \in SUBSET Urls :
                      LET w == [v EXCEPT !.loading = loading] IN
                      w \in ViewRecord /\ w.client = v.client /\ \A x, y \in w.page : x = y
    <2>1. v \in ViewRecord /\ v.client \in 1..Len(calls) /\ \A x, y \in v.page : x = y
      BY DEF BrowserInv, ViewOK
    <2> QED BY <2>1 DEF ViewRecord
  <1>16. CASE main_frame_request
    <2>1. PICK v \in view, u \in Urls :
             LET c == v.client IN
             \/ /\ calls' = Fail(calls, c)
                /\ view' = {[v EXCEPT !.loading = {}]}
             \/ /\ view' = {[v EXCEPT !.loading = {u}]}
                /\ UNCHANGED calls
      BY <1>16 DEF main_frame_request
    <2>2. UNCHANGED <<posted, prefs, pinnedBy>>
      BY <1>16 DEF main_frame_request
    <2>3. ViewOK(calls, view')
      <3>1. {} \in SUBSET Urls /\ {u} \in SUBSET Urls
        OBVIOUS
      <3> QED BY <1>8, <1>15, <2>1, <3>1
    <2>4. Succeeds(calls, calls')
      BY <1>15, <2>1, Failed DEF BrowserInv, Succeeds
    <2> QED BY <2>2, <2>3, <2>4, CallsKept DEF BrowserInv
  <1>17. CASE page_loaded
    <2>1. PICK v \in view, u \in UNION {x.loading : x \in view} :
             /\ u \in v.loading
             /\ view' = {[v EXCEPT !.page = {u}, !.loading = {}, !.finishing = {u}]}
             /\ UNCHANGED <<busy, calls, posted, prefs, pinnedBy, navigations>>
      BY <1>17 DEF page_loaded
    <2> DEFINE w == [v EXCEPT !.page = {u}, !.loading = {}, !.finishing = {u}]
    <2>2. u \in Urls
      BY <1>15, <2>1 DEF ViewRecord
    <2>3. w \in ViewRecord /\ w.client = v.client /\ w.page = {u}
      BY <1>15, <2>2 DEF ViewRecord
    <2>4. ViewOK(calls, view')
      BY <1>8, <2>1, <2>3
    <2> QED BY <2>1, <2>4 DEF BrowserInv
  <1>18. CASE onReceivedError
    <2>1. PICK v \in view : /\ view' = {[v EXCEPT !.loading = {}]}
                            /\ calls' = Fail(calls, v.client)
                            /\ UNCHANGED <<busy, posted, prefs, pinnedBy, navigations>>
      BY <1>18 DEF onReceivedError
    <2>2. ViewOK(calls, view')
      <3>1. {} \in SUBSET Urls
        OBVIOUS
      <3> QED BY <1>8, <1>15, <2>1, <3>1
    <2>3. Succeeds(calls, calls')
      BY <1>15, <2>1, Failed DEF BrowserInv
    <2> QED BY <2>1, <2>2, <2>3, CallsKept DEF BrowserInv
  <1>19. CASE browser_restart
    <2>1. calls' = <<>> /\ posted' = <<>> /\ view' = {} /\ UNCHANGED <<prefs, pinnedBy>>
      BY <1>19 DEF browser_restart
    <2>2. CallsOK(<<>>) /\ PostedOK(<<>>, <<>>) /\ ViewOK(<<>>, {})
      BY DEF CallsOK, PostedOK, ViewOK
    <2> QED BY <2>1, <2>2 DEF BrowserInv
  <1>20. CASE UNCHANGED browserVars
    BY <1>20 DEF browserVars, BrowserInv
  <1>21. CASE observe_session_invalid
    <2>1. LocationOK(prefs', pinnedBy')
      BY <1>21 DEF observe_session_invalid, LocationOK
    <2> QED BY <1>21, <2>1 DEF observe_session_invalid, BrowserInv
  <1>22. CASE perform_load \/ perform_script
    BY <1>0, <1>6, <1>7, <1>22 DEF perform_load, perform_script
  <1> QED BY <1>2, <1>3, <1>5, <1>21, <1>22, <1>9, <1>10, <1>13, <1>14, <1>16, <1>17, <1>18,
             <1>19, <1>20
          DEF BrowserNext

(* Whatever a browser call reports has the origin the call pinned, and the *)
(* stored location the one pinned by the call that saved it, though        *)
(* closures, finish events and script callbacks of calls that were given   *)
(* up still run on the WebView of their successors.                        *)
THEOREM EvidenceHasOrigin == BrowserSpec => []EvidenceOrigin
  <1>1. BrowserInit => BrowserInv
    <2>1. CallsOK(<<>>) /\ PostedOK(<<>>, <<>>) /\ ViewOK(<<>>, {})
      BY DEF CallsOK, PostedOK, ViewOK
    <2> QED BY <2>1 DEF BrowserInit, BrowserInv, LocationOK
  <1>2. BrowserInv /\ [BrowserNext]_browserVars => BrowserInv'
    BY BrowserStep
  <1>3. BrowserInv => EvidenceOrigin
    <2>1. ASSUME BrowserInv, NEW c \in DOMAIN calls, NEW u \in calls[c].url
          PROVE  /\ Origin[u] \in calls[c].origin
                 /\ calls[c].op \in LoadOps => Origin[u] = Origin[calls[c].target]
      <3>1. Pinned(calls[c])
        BY <2>1, LenProperties DEF BrowserInv, CallsOK
      <3> QED BY <2>1, <3>1 DEF Pinned
    <2> QED BY <2>1 DEF EvidenceOrigin, BrowserInv, LocationOK
  <1> QED BY <1>1, <1>2, <1>3, PTL DEF BrowserSpec

-----------------------------------------------------------------------------
(* The file adapters.                                                      *)

FileAction ==
    [op : {"write", "download", "upload", "grant_write"}, path : Paths, content : Contents,
     status : {"prepared", "suspended", "done", "undone"},
     digest : SUBSET Contents, rollback : SUBSET Contents, ran : BOOLEAN]

(* A plan is worked on in order, and undone in the opposite order.         *)
InOrder(j) ==
    \A n \in 1..Len(j) : \A m \in 1 .. n - 1 :
        /\ j[n].status \in {"done", "suspended"} => j[m].status = "done"
        /\ j[n].status = "undone" => j[m].status \in {"done", "undone"}

(* The entry j of the journal is the saved entry s, or what became of it.  *)
Later(s, j) ==
    /\ j.op = s.op /\ j.path = s.path /\ j.content = s.content
    /\ s.status # "prepared" => j.rollback = s.rollback /\ j.digest = s.digest
    /\ s.status = "suspended" => j.status # "prepared"
    /\ s.status = "done" => j.status \in {"done", "undone"}
    /\ s.status = "undone" => j.status = "undone"

IsWrite(e) == e.op \in {"write", "download"}
Applied(e) == IsWrite(e) /\ e.status \in {"done", "undone"}

(* A write that a death took out of the journal.                           *)
Lost(e) == IsWrite(e) /\ e.status \in {"prepared", "suspended"} /\ e.ran

Intact == ~repeated /\ \A n \in 1..Len(journal) : ~Lost(journal[n])

(* A path that no write has in hand is as it was; the first write of a     *)
(* path has the snapshot of what was there; a staged download has the one  *)
(* of what is there.                                                       *)
PathsAsBefore ==
    \A x \in Paths :
        (\A n \in 1..Len(journal) :
            IsWrite(journal[n]) /\ journal[n].status = "done" => journal[n].path # x)
        => files[x] = before[x]

FirstSnapshots ==
    \A n \in 1..Len(journal) :
        /\ Applied(journal[n])
        /\ \A m \in 1 .. n - 1 : Applied(journal[m]) => journal[m].path # journal[n].path
        => journal[n].rollback = before[journal[n].path]

StagedSnapshots ==
    \A n \in 1..Len(journal) :
        journal[n].op = "download" /\ journal[n].status = "suspended"
        => journal[n].rollback = files[journal[n].path]

Snapshot == PathsAsBefore /\ FirstSnapshots /\ StagedSnapshots

(* What was PUT has the digest of an upload that the checkpoint knows.     *)
SentEntry(e, content) ==
    e.op = "upload" /\ e.status \in {"suspended", "done"} /\ e.digest = content

PutsRecorded ==
    \A p \in puts : /\ p[1] \in 1..Len(journal)
                     /\ SentEntry(journal[p[1]], p[2]) /\ SentEntry(saved[p[1]], p[2])

(* The checkpoint that let the loop go on knows the upload it waits for.   *)
Known ==
    \A n \in 1..Len(journal) :
        journal[n].op = "upload" /\ journal[n].status = "suspended"
        => saved[n].status # "prepared"

UploadsKnown == ~outdated => PutsRecorded /\ (checkpointed => Known)

FileTypes ==
    /\ files \in [Paths -> SUBSET Contents] /\ before \in [Paths -> SUBSET Contents]
    /\ journal \in Seq(FileAction) /\ saved \in Seq(FileAction)
    /\ Len(saved) = Len(journal)

JournalOK ==
    /\ InOrder(journal) /\ InOrder(saved)
    /\ \A n \in 1..Len(journal) : Later(saved[n], journal[n])
    /\ \A n \in 1..Len(journal) : Applied(journal[n]) => journal[n].ran

(* A journal s was encoded when j was younger.                             *)
IsOlder(s, j) ==
    /\ s \in Seq(FileAction) /\ Len(s) = Len(j)
    /\ InOrder(s)
    /\ \A n \in 1..Len(j) : Later(s[n], j[n])

EncodedOK == \A s \in encoded : IsOlder(s, journal)

ArtifactsInv ==
    /\ FileTypes
    /\ JournalOK
    /\ Intact => Snapshot
    /\ EncodedOK
    /\ UploadsKnown
    /\ checkpointed \in BOOLEAN /\ outdated \in BOOLEAN

(* The fields of an entry.                                                 *)
LEMMA EntryFields ==
    ASSUME FileTypes, NEW n \in 1..Len(journal)
    PROVE  /\ journal[n] \in FileAction /\ saved[n] \in FileAction
           /\ journal[n].path \in Paths /\ journal[n].content \in Contents
           /\ journal[n].status \in {"prepared", "suspended", "done", "undone"}
           /\ saved[n].status \in {"prepared", "suspended", "done", "undone"}
           /\ journal[n].rollback \in SUBSET Contents /\ journal[n].digest \in SUBSET Contents
           /\ journal[n].ran \in BOOLEAN /\ saved[n].ran \in BOOLEAN
  <1>1. journal[n] \in FileAction /\ saved[n] \in FileAction
    BY DEF FileTypes
  <1> QED BY <1>1 DEF FileAction

LEMMA JournalLength ==
    ASSUME FileTypes
    PROVE  /\ Len(journal) \in Nat /\ DOMAIN journal = 1..Len(journal)
           /\ DOMAIN saved = 1..Len(journal)
  BY LenProperties DEF FileTypes

(* An action that comes next: the earlier ones are done, the later ones    *)
(* have not begun.                                                         *)
LEMMA CursorPlace ==
    ASSUME FileTypes, JournalOK, NEW n \in Cursor
    PROVE  /\ n \in 1..Len(journal)
           /\ journal[n].status \in {"prepared", "suspended"}
           /\ \A m \in 1..Len(journal) : m < n => journal[m].status = "done"
           /\ \A m \in 1..Len(journal) : m > n => journal[m].status = "prepared"
  <1>1. /\ n \in 1..Len(journal) /\ journal[n].status \notin {"done", "undone"}
        /\ \A m \in 1 .. n - 1 : journal[m].status = "done"
    BY JournalLength DEF Cursor
  <1>2. ASSUME NEW m \in 1..Len(journal), m > n PROVE journal[m].status = "prepared"
    <2>1. n \in 1 .. m - 1
      BY <1>1, <1>2, JournalLength
    <2>2. /\ journal[m].status \in {"done", "suspended"} => journal[n].status = "done"
          /\ journal[m].status = "undone" => journal[n].status \in {"done", "undone"}
      BY <2>1 DEF JournalOK, InOrder
    <2>3. journal[m].status \in {"prepared", "suspended", "done", "undone"}
      BY EntryFields
    <2> QED BY <1>1, <2>2, <2>3
  <1>3. ASSUME NEW m \in 1..Len(journal), m < n PROVE journal[m].status = "done"
    <2>1. m \in 1 .. n - 1
      BY <1>1, <1>3, JournalLength
    <2> QED BY <1>1, <2>1
  <1>4. journal[n].status \in {"prepared", "suspended"}
    BY <1>1, EntryFields
  <1> QED BY <1>1, <1>2, <1>3, <1>4

(* The entry n of the journal becomes e.                                   *)
EntryBecomes(n, e) == journal' = [journal EXCEPT ![n] = e]

LEMMA EntryChanges ==
    ASSUME FileTypes, NEW n \in 1..Len(journal), NEW e \in FileAction, EntryBecomes(n, e)
    PROVE  /\ journal' \in Seq(FileAction) /\ Len(journal') = Len(journal)
           /\ journal'[n] = e
           /\ \A m \in 1..Len(journal) : m # n => journal'[m] = journal[m]
  BY ExceptSeq, LenProperties DEF FileTypes, EntryBecomes

(* What an adapter may make of the entry at the cursor.                    *)
Advance(old, e) ==
    /\ e.op = old.op /\ e.path = old.path /\ e.content = old.content
    /\ \/ e.status = "done"
       \/ e.status = "suspended" /\ old.status = "prepared"
    /\ old.status # "prepared" => e.rollback = old.rollback /\ e.digest = old.digest
    /\ old.ran => e.ran
    /\ Applied(e) => e.ran

LEMMA Advances ==
    ASSUME FileTypes, JournalOK, NEW n \in Cursor, NEW e \in FileAction,
           EntryBecomes(n, e), Advance(journal[n], e), saved' = saved
    PROVE  /\ Len(journal') = Len(journal)
           /\ JournalOK'
  <1>1. /\ n \in 1..Len(journal) /\ journal[n].status \in {"prepared", "suspended"}
        /\ \A m \in 1..Len(journal) : m < n => journal[m].status = "done"
        /\ \A m \in 1..Len(journal) : m > n => journal[m].status = "prepared"
    BY CursorPlace
  <1>2. /\ journal' \in Seq(FileAction) /\ Len(journal') = Len(journal) /\ journal'[n] = e
        /\ \A m \in 1..Len(journal) : m # n => journal'[m] = journal[m]
    BY <1>1, EntryChanges
  <1>3. InOrder(journal')
    <2> SUFFICES ASSUME NEW k \in 1..Len(journal), NEW m \in 1 .. k - 1
                 PROVE  /\ journal'[k].status \in {"done", "suspended"} => journal'[m].status = "done"
                        /\ journal'[k].status = "undone" => journal'[m].status \in {"done", "undone"}
      BY <1>2 DEF InOrder
    <2>1. m \in 1..Len(journal) /\ m < k
      BY JournalLength
    <2>2. CASE k = n
      BY <1>1, <1>2, <2>1, <2>2
    <2>3. CASE k # n /\ m # n
      BY <1>2, <2>1, <2>3 DEF JournalOK, InOrder
    <2>4. CASE k # n /\ m = n
      <3>1. k > n
        BY <1>1, <2>1, <2>4
      <3> QED BY <1>1, <1>2, <2>4, <3>1
    <2> QED BY <2>2, <2>3, <2>4
  <1>4. \A k \in 1..Len(journal) : Later(saved[k], journal'[k])
    <2> SUFFICES ASSUME NEW k \in 1..Len(journal) PROVE Later(saved[k], journal'[k])
      OBVIOUS
    <2>1. Later(saved[k], journal[k])
      BY DEF JournalOK
    <2>2. CASE k # n
      BY <1>2, <2>1, <2>2
    <2>3. CASE k = n
      <3>1. saved[n].status \in {"prepared", "suspended"}
        BY <1>1, <2>1, <2>3, EntryFields DEF Later
      <3>2. saved[n].status = "suspended" => journal[n].status # "prepared"
        BY <2>1, <2>3 DEF Later
      <3> QED BY <1>2, <2>1, <2>3, <3>1, <3>2 DEF Later, Advance
    <2> QED BY <2>2, <2>3
  <1>5. \A k \in 1..Len(journal) : Applied(journal'[k]) => journal'[k].ran
    BY <1>2 DEF JournalOK, Advance
  <1>6. JournalOK'
    BY <1>2, <1>3, <1>4, <1>5 DEF JournalOK
  <1> QED BY <1>2, <1>6

(* What a step may make of an entry, an undoing among it.                  *)
Progress(old, e) ==
    /\ e.op = old.op /\ e.path = old.path /\ e.content = old.content
    /\ \/ old.status = "prepared" /\ e.status \in {"suspended", "done"}
       \/ old.status = "suspended" /\ e.status = "done"
       \/ old.status = "done" /\ e.status = "undone" /\ IsWrite(e)
    /\ old.status # "prepared" => e.rollback = old.rollback /\ e.digest = old.digest

(* An encoding stays older than the journal.                               *)
LEMMA StaysOlder ==
    ASSUME FileTypes, EncodedOK, NEW n \in 1..Len(journal), NEW e \in FileAction,
           EntryBecomes(n, e), Progress(journal[n], e), encoded' = encoded
    PROVE  EncodedOK'
  <1>1. /\ Len(journal') = Len(journal) /\ journal'[n] = e
        /\ \A m \in 1..Len(journal) : m # n => journal'[m] = journal[m]
    BY EntryChanges
  <1>2. ASSUME NEW s \in encoded, NEW m \in 1..Len(journal)
        PROVE  Later(s[m], journal'[m])
    <2>1. Later(s[m], journal[m])
      BY <1>2 DEF EncodedOK, IsOlder
    <2>2. s[m].status \in {"prepared", "suspended", "done", "undone"}
      <3>1. s \in Seq(FileAction) /\ Len(s) = Len(journal)
        BY <1>2 DEF EncodedOK, IsOlder
      <3>2. s[m] \in FileAction
        BY <1>2, <3>1
      <3> QED BY <3>2 DEF FileAction
    <2>3. CASE m = n
      BY <1>1, <2>1, <2>2, <2>3 DEF Later, Progress
    <2> QED BY <1>1, <2>1, <2>3
  <1> QED BY <1>1, <1>2 DEF EncodedOK, IsOlder

(* The digest of an upload that waits, and that the checkpoint knows, is   *)
(* PUT now.                                                                *)
PutNow(n, p) ==
    /\ p = <<n, journal[n].digest>> /\ n \in 1..Len(journal)
    /\ journal[n].op = "upload" /\ journal[n].status = "suspended" /\ checkpointed

Recorded(p) ==
    /\ p[1] \in 1..Len(journal)
    /\ SentEntry(journal[p[1]], p[2]) /\ SentEntry(saved[p[1]], p[2])

LEMMA PutRecorded ==
    ASSUME FileTypes, JournalOK, UploadsKnown, ~outdated, NEW n, NEW p,
           p \in puts \/ PutNow(n, p)
    PROVE  Recorded(p)
  <1>1. CASE p \in puts
    BY <1>1 DEF UploadsKnown, PutsRecorded, Recorded
  <1>2. CASE PutNow(n, p)
    <2>1. /\ p[1] = n /\ p[2] = journal[n].digest /\ n \in 1..Len(journal)
          /\ journal[n].op = "upload" /\ journal[n].status = "suspended"
      BY <1>2 DEF PutNow
    <2>2. saved[n].status # "prepared"
      BY <1>2, <2>1 DEF UploadsKnown, Known, PutNow
    <2>3. Later(saved[n], journal[n]) /\ saved[n].status \in {"prepared", "suspended", "done", "undone"}
      BY <2>1, EntryFields DEF JournalOK
    <2>4. /\ saved[n].op = "upload" /\ saved[n].digest = journal[n].digest
          /\ saved[n].status = "suspended"
      BY <2>1, <2>2, <2>3 DEF Later
    <2> QED BY <2>1, <2>4 DEF Recorded, SentEntry
  <1> QED BY <1>1, <1>2

LEMMA UploadsStayKnown ==
    ASSUME FileTypes, JournalOK, UploadsKnown, NEW n \in 1..Len(journal), NEW e \in FileAction,
           EntryBecomes(n, e), Progress(journal[n], e), saved' = saved, outdated' = outdated,
           checkpointed' => checkpointed /\ e.status # "suspended",
           \A p \in puts' : p \in puts \/ PutNow(n, p)
    PROVE  UploadsKnown'
  <1> SUFFICES ASSUME ~outdated PROVE PutsRecorded' /\ (checkpointed' => Known')
    BY DEF UploadsKnown
  <1>1. /\ Len(journal') = Len(journal) /\ journal'[n] = e
        /\ \A m \in 1..Len(journal) : m # n => journal'[m] = journal[m]
    BY EntryChanges
  <1>2. ASSUME NEW p \in puts'
        PROVE  /\ p[1] \in 1..Len(journal)
               /\ SentEntry(journal'[p[1]], p[2]) /\ SentEntry(saved[p[1]], p[2])
    <2>1. Recorded(p)
      BY <1>2, PutRecorded
    <2>2. CASE p[1] = n
      BY <1>1, <2>1, <2>2 DEF Recorded, SentEntry, Progress, IsWrite
    <2> QED BY <1>1, <2>1, <2>2 DEF Recorded
  <1>3. PutsRecorded'
    BY <1>1, <1>2 DEF PutsRecorded
  <1>4. ASSUME checkpointed' PROVE Known'
    BY <1>1, <1>4 DEF UploadsKnown, Known
  <1> QED BY <1>3, <1>4

(* No write was lost before, if none is now.                               *)
LEMMA IntactBefore ==
    ASSUME FileTypes, JournalOK, NEW n \in Cursor, NEW e \in FileAction,
           EntryBecomes(n, e), Advance(journal[n], e), Intact',
           \/ repeated' = repeated /\ ~(IsWrite(e) /\ e.status = "done")
           \/ repeated' = (repeated \/ journal[n].ran)
    PROVE  Intact
  <1>1. n \in 1..Len(journal) /\ journal[n].ran \in BOOLEAN
    BY CursorPlace, EntryFields
  <1>2. /\ Len(journal') = Len(journal) /\ journal'[n] = e
        /\ \A m \in 1..Len(journal) : m # n => journal'[m] = journal[m]
    BY <1>1, EntryChanges
  <1>3. ~repeated' /\ \A m \in 1..Len(journal) : ~Lost(journal'[m])
    BY <1>2 DEF Intact
  <1>4. ~repeated
    BY <1>3
  <1>5. ~Lost(journal[n])
    <2>1. CASE repeated' = (repeated \/ journal[n].ran)
      BY <1>3, <2>1 DEF Lost
    <2>2. CASE ~(IsWrite(e) /\ e.status = "done")
      <3>1. ~Lost(e)
        BY <1>1, <1>2, <1>3
      <3> QED BY <2>2, <3>1 DEF Lost, IsWrite, Advance
    <2> QED BY <2>1, <2>2
  <1> QED BY <1>2, <1>3, <1>4, <1>5 DEF Intact

(* A write takes effect, its entry holding the snapshot of what it         *)
(* replaces.                                                               *)
LEMMA WriteApplied ==
    ASSUME FileTypes, JournalOK, Snapshot, NEW n \in Cursor, NEW e \in FileAction,
           EntryBecomes(n, e), Advance(journal[n], e), IsWrite(e), e.status = "done",
           e.rollback = files[e.path],
           NEW content, files' = [files EXCEPT ![e.path] = content], before' = before
    PROVE  Snapshot'
  <1>1. /\ n \in 1..Len(journal) /\ journal[n].status \in {"prepared", "suspended"}
        /\ \A m \in 1..Len(journal) : m < n => journal[m].status = "done"
        /\ \A m \in 1..Len(journal) : m > n => journal[m].status = "prepared"
    BY CursorPlace
  <1>2. /\ Len(journal') = Len(journal) /\ journal'[n] = e
        /\ \A m \in 1..Len(journal) : m # n => journal'[m] = journal[m]
    BY <1>1, EntryChanges
  <1>3. /\ e.path \in Paths /\ e.path = journal[n].path
        /\ \A x \in Paths : x # e.path => files'[x] = files[x]
    BY DEF FileAction, FileTypes, Advance
  <1>4. Len(journal) \in Nat
    BY JournalLength
  <1>5. PathsAsBefore'
    <2> SUFFICES ASSUME NEW x \in Paths,
                        \A m \in 1..Len(journal) : IsWrite(journal'[m]) /\ journal'[m].status = "done"
                                                    => journal'[m].path # x
                 PROVE  files'[x] = before[x]
      BY <1>2 DEF PathsAsBefore
    <2>1. x # e.path
      BY <1>1, <1>2
    <2>2. \A m \in 1..Len(journal) : IsWrite(journal[m]) /\ journal[m].status = "done"
                                      => journal[m].path # x
      BY <1>1, <1>2
    <2> QED BY <1>3, <2>1, <2>2 DEF Snapshot, PathsAsBefore
  <1>6. FirstSnapshots'
    <2> SUFFICES ASSUME NEW k \in 1..Len(journal), Applied(journal'[k]),
                        \A m \in 1 .. k - 1 : Applied(journal'[m]) => journal'[m].path # journal'[k].path
                 PROVE  journal'[k].rollback = before[journal'[k].path]
      BY <1>2 DEF FirstSnapshots
    <2>1. CASE k = n
      <3>1. ASSUME NEW m \in 1..Len(journal), IsWrite(journal[m]), journal[m].status = "done"
            PROVE  journal[m].path # e.path
        <4>1. m < n
          BY <1>1, <1>4, <3>1
        <4>2. m \in 1 .. k - 1 /\ journal'[m] = journal[m]
          BY <1>2, <2>1, <4>1
        <4> QED BY <1>2, <2>1, <3>1, <4>2 DEF Applied
      <3>2. files[e.path] = before[e.path]
        BY <1>3, <3>1 DEF Snapshot, PathsAsBefore
      <3> QED BY <1>2, <2>1, <3>2
    <2>2. CASE k # n
      <3>1. journal'[k] = journal[k] /\ k < n
        BY <1>1, <1>2, <1>4, <2>2 DEF Applied
      <3>2. \A m \in 1 .. k - 1 : journal'[m] = journal[m]
        BY <1>1, <1>2, <1>4, <3>1
      <3> QED BY <3>1, <3>2 DEF Snapshot, FirstSnapshots
    <2> QED BY <2>1, <2>2
  <1>7. StagedSnapshots'
    <2> SUFFICES ASSUME NEW k \in 1..Len(journal), journal'[k].status = "suspended"
                 PROVE  FALSE
      BY <1>2 DEF StagedSnapshots
    <2> QED BY <1>1, <1>2, <1>4
  <1> QED BY <1>5, <1>6, <1>7 DEF Snapshot

(* A step that applies no write: a download is staged, or the entry is no  *)
(* write at all.                                                           *)
LEMMA NothingApplied ==
    ASSUME FileTypes, JournalOK, Snapshot, NEW n \in Cursor, NEW e \in FileAction,
           EntryBecomes(n, e), Advance(journal[n], e),
           IsWrite(e) => e.status = "suspended" /\ e.rollback = files[e.path],
           files' = files, before' = before
    PROVE  Snapshot'
  <1>1. /\ n \in 1..Len(journal) /\ journal[n].status \in {"prepared", "suspended"}
    BY CursorPlace
  <1>2. /\ Len(journal') = Len(journal) /\ journal'[n] = e
        /\ \A m \in 1..Len(journal) : m # n => journal'[m] = journal[m]
    BY <1>1, EntryChanges
  <1>3. Len(journal) \in Nat /\ e.path = journal[n].path
    BY JournalLength DEF Advance
  <1>4. \A k \in 1..Len(journal) :
           /\ Applied(journal'[k]) <=> Applied(journal[k])
           /\ Applied(journal[k]) => journal'[k] = journal[k]
           /\ IsWrite(journal'[k]) /\ journal'[k].status = "done"
                <=> IsWrite(journal[k]) /\ journal[k].status = "done"
    BY <1>1, <1>2 DEF Applied, Advance, IsWrite
  <1>5. PathsAsBefore'
    <2> SUFFICES ASSUME NEW x \in Paths,
                        \A m \in 1..Len(journal) : IsWrite(journal'[m]) /\ journal'[m].status = "done"
                                                    => journal'[m].path # x
                 PROVE  files[x] = before[x]
      BY <1>2 DEF PathsAsBefore
    <2>1. \A m \in 1..Len(journal) : IsWrite(journal[m]) /\ journal[m].status = "done"
                                      => journal[m].path # x
      BY <1>4 DEF Applied
    <2> QED BY <2>1 DEF Snapshot, PathsAsBefore
  <1>6. FirstSnapshots'
    <2> SUFFICES ASSUME NEW k \in 1..Len(journal), Applied(journal'[k]),
                        \A m \in 1 .. k - 1 : Applied(journal'[m]) => journal'[m].path # journal'[k].path
                 PROVE  journal'[k].rollback = before[journal'[k].path]
      BY <1>2 DEF FirstSnapshots
    <2>1. journal'[k] = journal[k] /\ Applied(journal[k])
      BY <1>4
    <2>2. \A m \in 1 .. k - 1 : Applied(journal[m]) => journal[m].path # journal[k].path
      <3>1. \A m \in 1 .. k - 1 : m \in 1..Len(journal)
        BY <1>3
      <3> QED BY <1>4, <2>1, <3>1
    <2> QED BY <2>1, <2>2 DEF Snapshot, FirstSnapshots
  <1>7. StagedSnapshots'
    <2> SUFFICES ASSUME NEW k \in 1..Len(journal), journal'[k].op = "download",
                        journal'[k].status = "suspended"
                 PROVE  journal'[k].rollback = files[journal'[k].path]
      BY <1>2 DEF StagedSnapshots
    <2>1. CASE k = n
      BY <1>2, <2>1 DEF IsWrite
    <2>2. CASE k # n
      BY <1>2, <2>2 DEF Snapshot, StagedSnapshots
    <2> QED BY <2>1, <2>2
  <1> QED BY <1>5, <1>6, <1>7 DEF Snapshot

(* The last write in hand is undone.                                       *)
LEMMA RollbackStep ==
    ASSUME ArtifactsInv, rollback_write
    PROVE  ArtifactsInv'
  <1>1. PICK n \in DOMAIN journal :
           /\ journal[n].status = "done" /\ journal[n].op \in {"write", "download"}
           /\ \A m \in n + 1 .. Len(journal) : journal[m].status \in {"prepared", "undone"}
           /\ files' = Put(files, journal[n].path, journal[n].rollback)
           /\ journal' = [journal EXCEPT ![n].status = "undone"]
    BY DEF rollback_write
  <1>2. UNCHANGED <<before, staging, saved, encoded, checkpointed, outdated, puts, repeated>>
    BY DEF rollback_write, Fixed, savedVars
  <1> DEFINE e == [journal[n] EXCEPT !.status = "undone"]
  <1>3. FileTypes /\ JournalOK /\ EncodedOK /\ UploadsKnown /\ (Intact => Snapshot)
    BY DEF ArtifactsInv
  <1>4. /\ n \in 1..Len(journal) /\ Len(journal) \in Nat
        /\ journal[n] \in FileAction /\ journal[n].path \in Paths
        /\ journal[n].rollback \in SUBSET Contents
    BY <1>3, JournalLength, EntryFields
  <1>5. /\ e \in FileAction /\ e.status = "undone" /\ e.op = journal[n].op
        /\ e.path = journal[n].path /\ e.content = journal[n].content /\ e.ran = journal[n].ran
        /\ e.rollback = journal[n].rollback /\ e.digest = journal[n].digest
    BY <1>4 DEF FileAction
  <1>6. EntryBecomes(n, e)
    BY <1>1 DEF EntryBecomes
  <1> HIDE DEF e
  <1>7. /\ journal' \in Seq(FileAction) /\ Len(journal') = Len(journal) /\ journal'[n] = e
        /\ \A m \in 1..Len(journal) : m # n => journal'[m] = journal[m]
    BY <1>3, <1>4, <1>5, <1>6, EntryChanges
  <1>8. /\ files' \in [Paths -> SUBSET Contents]
        /\ files'[journal[n].path] = journal[n].rollback
        /\ \A x \in Paths : x # journal[n].path => files'[x] = files[x]
    BY <1>1, <1>3, <1>4 DEF FileTypes, Put
  <1>9. FileTypes'
    BY <1>2, <1>3, <1>7, <1>8 DEF FileTypes
  <1>10. \A m \in 1..Len(journal) : m < n => journal[m].status = "done"
    <2> SUFFICES ASSUME NEW m \in 1..Len(journal), m < n PROVE journal[m].status = "done"
      OBVIOUS
    <2>1. m \in 1 .. n - 1
      BY <1>4
    <2> QED BY <1>1, <1>3, <1>4, <2>1 DEF JournalOK, InOrder
  <1>11. \A m \in 1..Len(journal) : m > n => journal[m].status \in {"prepared", "undone"}
    BY <1>1, <1>4
  <1>12. JournalOK'
    <2>1. InOrder(journal')
      <3> SUFFICES ASSUME NEW k \in 1..Len(journal), NEW m \in 1 .. k - 1
                   PROVE  /\ journal'[k].status \in {"done", "suspended"} => journal'[m].status = "done"
                          /\ journal'[k].status = "undone" => journal'[m].status \in {"done", "undone"}
        BY <1>7 DEF InOrder
      <3>1. m \in 1..Len(journal) /\ m < k
        BY <1>4
      <3>2. CASE m # n /\ k # n
        BY <1>3, <1>7, <3>2, <3>1 DEF JournalOK, InOrder
      <3>3. CASE k = n
        BY <1>5, <1>7, <1>10, <3>1, <3>3
      <3>4. CASE m = n
        <4>1. k > n
          BY <1>4, <3>1, <3>4
        <4> QED BY <1>5, <1>7, <1>11, <3>4, <4>1
      <3> QED BY <3>2, <3>3, <3>4
    <2>2. \A k \in 1..Len(journal) : Later(saved[k], journal'[k])
      <3> SUFFICES ASSUME NEW k \in 1..Len(journal) PROVE Later(saved[k], journal'[k])
        OBVIOUS
      <3>1. Later(saved[k], journal[k])
        BY <1>3 DEF JournalOK
      <3>2. CASE k # n
        BY <1>7, <3>1, <3>2
      <3>3. CASE k = n
        BY <1>1, <1>5, <1>7, <3>1, <3>3 DEF Later
      <3> QED BY <3>2, <3>3
    <2>3. \A k \in 1..Len(journal) : Applied(journal'[k]) => journal'[k].ran
      BY <1>1, <1>3, <1>5, <1>7 DEF JournalOK, Applied, IsWrite
    <2> QED BY <1>2, <1>3, <1>7, <2>1, <2>2, <2>3 DEF JournalOK
  <1>13. EncodedOK' /\ UploadsKnown'
    <2>1. Progress(journal[n], e) /\ e.status # "suspended"
      BY <1>1, <1>5 DEF Progress, IsWrite
    <2> QED BY <1>2, <1>3, <1>4, <1>5, <1>6, <2>1, StaysOlder, UploadsStayKnown
  <1>14. ASSUME Intact' PROVE Snapshot'
    <2>1. Intact
      BY <1>1, <1>2, <1>7, <1>14 DEF Intact, Lost
    <2>2. Snapshot
      BY <1>3, <2>1
    <2>3. Applied(journal[n]) /\ Applied(e)
      BY <1>1, <1>5 DEF Applied, IsWrite
    <2>4. PathsAsBefore'
      <3> SUFFICES ASSUME NEW x \in Paths,
                          \A m \in 1..Len(journal) : IsWrite(journal'[m]) /\ journal'[m].status = "done"
                                                      => journal'[m].path # x
                   PROVE  files'[x] = before[x]
        BY <1>2, <1>7 DEF PathsAsBefore
      <3>1. \A m \in 1..Len(journal) : m # n /\ IsWrite(journal[m]) /\ journal[m].status = "done"
                                        => journal[m].path # x
        BY <1>7
      <3>2. CASE x # journal[n].path
        <4>1. \A m \in 1..Len(journal) : IsWrite(journal[m]) /\ journal[m].status = "done"
                                          => journal[m].path # x
          BY <3>1, <3>2
        <4> QED BY <1>8, <2>2, <3>2, <4>1 DEF Snapshot, PathsAsBefore
      <3>3. CASE x = journal[n].path
        <4>1. \A m \in 1 .. n - 1 : Applied(journal[m]) => journal[m].path # journal[n].path
          <5> SUFFICES ASSUME NEW m \in 1 .. n - 1, Applied(journal[m])
                       PROVE  journal[m].path # journal[n].path
            OBVIOUS
          <5>1. m \in 1..Len(journal) /\ m < n
            BY <1>4
          <5> QED BY <1>10, <3>1, <3>3, <5>1 DEF Applied
        <4>2. journal[n].rollback = before[x]
          BY <1>4, <2>2, <2>3, <3>3, <4>1 DEF Snapshot, FirstSnapshots
        <4> QED BY <1>8, <3>3, <4>2
      <3> QED BY <3>2, <3>3
    <2>5. FirstSnapshots'
      <3>1. \A k \in 1..Len(journal) :
               /\ Applied(journal'[k]) <=> Applied(journal[k])
               /\ journal'[k].path = journal[k].path /\ journal'[k].rollback = journal[k].rollback
        BY <1>5, <1>7, <2>3
      <3>2. \A k \in 1..Len(journal) : \A m \in 1 .. k - 1 : m \in 1..Len(journal)
        BY <1>4
      <3> QED BY <1>2, <1>7, <2>2, <3>1, <3>2 DEF Snapshot, FirstSnapshots
    <2>6. StagedSnapshots'
      <3> SUFFICES ASSUME NEW k \in 1..Len(journal), journal'[k].status = "suspended"
                   PROVE  FALSE
        BY <1>7 DEF StagedSnapshots
      <3> QED BY <1>4, <1>5, <1>7, <1>10, <1>11
    <2> QED BY <2>4, <2>5, <2>6 DEF Snapshot
  <1> QED BY <1>2, <1>9, <1>12, <1>13, <1>14 DEF ArtifactsInv

(* The process dies: the files stay, the entries are those of the last     *)
(* checkpoint, of which the ones that ran in between are known to have.    *)
LEMMA DeathStep ==
    ASSUME ArtifactsInv, file_process_death
    PROVE  ArtifactsInv'
  <1>1. /\ journal' = [n \in DOMAIN saved |-> [saved[n] EXCEPT !.ran = @ \/ journal[n].ran]]
        /\ saved' = journal' /\ encoded' = {} /\ checkpointed' = TRUE
        /\ UNCHANGED <<files, before, puts, repeated, outdated>>
    BY DEF file_process_death
  <1>2. FileTypes /\ JournalOK /\ UploadsKnown /\ (Intact => Snapshot)
    BY DEF ArtifactsInv
  <1>3. Len(journal) \in Nat /\ DOMAIN saved = 1..Len(journal)
    BY <1>2, JournalLength
  <1>4. ASSUME NEW n \in 1..Len(journal)
        PROVE  /\ journal'[n] \in FileAction /\ journal'[n].op = saved[n].op
               /\ journal'[n].path = saved[n].path /\ journal'[n].content = saved[n].content
               /\ journal'[n].status = saved[n].status
               /\ journal'[n].digest = saved[n].digest
               /\ journal'[n].rollback = saved[n].rollback
               /\ journal[n].ran => journal'[n].ran
    <2>1. saved[n] \in FileAction /\ saved[n].ran \in BOOLEAN /\ journal[n].ran \in BOOLEAN
      BY <1>2, EntryFields
    <2>2. journal'[n] = [saved[n] EXCEPT !.ran = saved[n].ran \/ journal[n].ran]
      BY <1>1, <1>3
    <2>3. (saved[n].ran \/ journal[n].ran) \in BOOLEAN
      BY <2>1
    <2> QED BY <2>1, <2>2, <2>3 DEF FileAction
  <1>5. /\ journal' \in Seq(FileAction) /\ Len(journal') = Len(journal)
    <2>1. DOMAIN journal' = 1..Len(journal)
      BY <1>1, <1>3
    <2>2. journal' = [n \in 1..Len(journal) |-> journal'[n]]
      BY <1>1, <2>1
    <2>3. \A n \in 1..Len(journal) : journal'[n] \in FileAction
      BY <1>4
    <2>4. journal' \in Seq(FileAction)
      <3>1. journal' \in [1..Len(journal) -> FileAction]
        BY <2>2, <2>3
      <3> QED BY <1>3, <3>1
    <2>5. DOMAIN journal' = 1..Len(journal')  /\ Len(journal') \in Nat
      BY <2>4
    <2> QED BY <1>3, <2>1, <2>4, <2>5
  <1>6. FileTypes'
    BY <1>1, <1>2, <1>5 DEF FileTypes
  <1>7. ASSUME NEW n \in 1..Len(journal)
        PROVE  /\ Later(saved[n], journal[n])
               /\ journal[n].status \in {"prepared", "suspended", "done", "undone"}
               /\ saved[n].status \in {"prepared", "suspended", "done", "undone"}
               /\ Applied(journal[n]) => journal[n].ran
    BY <1>2, EntryFields DEF JournalOK
  <1>8. JournalOK'
    <2>1. InOrder(journal')
      <3>1. InOrder(saved) /\ Len(saved) = Len(journal)
        BY <1>2 DEF JournalOK, FileTypes
      <3>2. \A n \in 1..Len(journal) : \A m \in 1 .. n - 1 : m \in 1..Len(journal)
        BY <1>3
      <3> QED BY <1>4, <1>5, <3>1, <3>2 DEF InOrder
    <2>2. \A n \in 1..Len(journal') : Later(saved'[n], journal'[n])
      BY <1>1, <1>4, <1>5, <1>7 DEF Later
    <2>3. ASSUME NEW n \in 1..Len(journal'), Applied(journal'[n]) PROVE journal'[n].ran
      <3>1. n \in 1..Len(journal)
        BY <1>5
      <3>2. Applied(journal[n])
        BY <1>4, <1>7, <2>3, <3>1 DEF Applied, IsWrite, Later
      <3> QED BY <1>4, <1>7, <3>1, <3>2
    <2> QED BY <1>1, <2>1, <2>2, <2>3 DEF JournalOK
  <1>9. EncodedOK' /\ UploadsKnown'
    <2>1. ASSUME ~outdated, NEW p \in puts
          PROVE  p[1] \in 1..Len(journal) /\ SentEntry(journal'[p[1]], p[2])
      <3>1. p[1] \in 1..Len(journal) /\ SentEntry(saved[p[1]], p[2])
        BY <1>2, <2>1 DEF UploadsKnown, PutsRecorded
      <3> QED BY <1>4, <3>1 DEF SentEntry
    <2>2. ~outdated => PutsRecorded'
      BY <1>1, <1>5, <2>1 DEF PutsRecorded
    <2>3. Known'
      BY <1>1 DEF Known
    <2> QED BY <1>1, <2>2, <2>3 DEF EncodedOK, UploadsKnown
  <1>10. ASSUME Intact' PROVE Snapshot'
    <2>1. ~repeated /\ \A n \in 1..Len(journal) : ~Lost(journal'[n])
      BY <1>1, <1>5, <1>10 DEF Intact
    <2>2. ASSUME NEW n \in 1..Len(journal)
          PROVE  /\ ~Lost(journal[n])
                 /\ Applied(journal'[n]) <=> Applied(journal[n])
                 /\ IsWrite(journal[n]) /\ journal[n].status = "done"
                      => IsWrite(journal'[n]) /\ journal'[n].status = "done"
                 /\ journal'[n].path = journal[n].path
                 /\ Applied(journal[n]) => journal'[n].rollback = journal[n].rollback
                 /\ IsWrite(journal'[n]) /\ journal'[n].status = "suspended"
                      => journal[n].status = "suspended" /\ journal'[n].rollback = journal[n].rollback
                          /\ journal[n].op = journal'[n].op
      BY <1>4, <1>7, <2>1 DEF Later, Lost, Applied, IsWrite
    <2>3. Snapshot
      BY <1>2, <2>1, <2>2 DEF Intact
    <2>4. PathsAsBefore'
      <3> SUFFICES ASSUME NEW x \in Paths,
                          \A n \in 1..Len(journal) : IsWrite(journal'[n]) /\ journal'[n].status = "done"
                                                      => journal'[n].path # x
                   PROVE  files[x] = before[x]
        BY <1>1, <1>5 DEF PathsAsBefore
      <3>1. \A n \in 1..Len(journal) : IsWrite(journal[n]) /\ journal[n].status = "done"
                                        => journal[n].path # x
        BY <2>2
      <3> QED BY <2>3, <3>1 DEF Snapshot, PathsAsBefore
    <2>5. FirstSnapshots'
      <3> SUFFICES ASSUME NEW k \in 1..Len(journal), Applied(journal'[k]),
                          \A m \in 1 .. k - 1 : Applied(journal'[m]) => journal'[m].path # journal'[k].path
                   PROVE  journal'[k].rollback = before[journal'[k].path]
        BY <1>1, <1>5 DEF FirstSnapshots
      <3>1. \A m \in 1 .. k - 1 : m \in 1..Len(journal)
        BY <1>3
      <3>2. \A m \in 1 .. k - 1 : Applied(journal[m]) => journal[m].path # journal[k].path
        BY <2>2, <3>1
      <3>3. journal[k].rollback = before[journal[k].path]
        BY <2>2, <2>3, <3>2 DEF Snapshot, FirstSnapshots
      <3> QED BY <2>2, <3>3
    <2>6. StagedSnapshots'
      <3> SUFFICES ASSUME NEW k \in 1..Len(journal), journal'[k].op = "download",
                          journal'[k].status = "suspended"
                   PROVE  journal'[k].rollback = files[journal'[k].path]
        BY <1>1, <1>5 DEF StagedSnapshots
      <3>1. IsWrite(journal'[k])
        BY DEF IsWrite
      <3> QED BY <2>2, <2>3, <3>1 DEF Snapshot, StagedSnapshots
    <2> QED BY <2>4, <2>5, <2>6 DEF Snapshot
  <1> QED BY <1>1, <1>6, <1>8, <1>9, <1>10 DEF ArtifactsInv

(* An adapter works on the entry at the cursor.                            *)
LEMMA EntryAdvances ==
    ASSUME ArtifactsInv, NEW n \in Cursor, NEW e \in FileAction,
           EntryBecomes(n, e), Advance(journal[n], e),
           UNCHANGED <<saved, encoded, outdated, before>>, checkpointed' \in BOOLEAN,
           checkpointed' => checkpointed /\ e.status # "suspended",
           \A p \in puts' : p \in puts \/ PutNow(n, p),
           \/ /\ repeated' = repeated
              /\ files' = files
              /\ IsWrite(e) => e.status = "suspended" /\ e.rollback = files[e.path]
           \/ /\ repeated' = (repeated \/ journal[n].ran)
              /\ files' = files /\ ~IsWrite(e)
           \/ /\ repeated' = (repeated \/ journal[n].ran)
              /\ IsWrite(e) /\ e.status = "done"
              /\ journal[n].status = "prepared" => e.rollback = files[e.path]
              /\ journal[n].status = "suspended" => e.op = "download"
              /\ \E content \in SUBSET Contents : files' = [files EXCEPT ![e.path] = content]
    PROVE  ArtifactsInv'
  <1>1. FileTypes /\ JournalOK /\ EncodedOK /\ UploadsKnown /\ (Intact => Snapshot)
    BY DEF ArtifactsInv
  <1>2. Len(journal') = Len(journal) /\ JournalOK'
    BY <1>1, Advances
  <1>3. n \in 1..Len(journal) /\ journal[n].status \in {"prepared", "suspended"}
    BY <1>1, CursorPlace
  <1>6. EncodedOK' /\ UploadsKnown'
    <2>1. Progress(journal[n], e)
      BY <1>3 DEF Progress, Advance
    <2> QED BY <1>1, <1>3, <2>1, StaysOlder, UploadsStayKnown
  <1>4. FileTypes'
    <2>1. journal' \in Seq(FileAction)
      BY <1>1, <1>3, EntryChanges
    <2>2. files' \in [Paths -> SUBSET Contents]
      BY <1>1 DEF FileTypes
    <2> QED BY <1>1, <1>2, <2>1, <2>2 DEF FileTypes
  <1>5. ASSUME Intact' PROVE Snapshot'
    <2>1. Intact
      BY <1>1, <1>5, IntactBefore
    <2>2. Snapshot
      BY <1>1, <2>1
    <2>3. CASE files' = files /\ (IsWrite(e) => e.status = "suspended" /\ e.rollback = files[e.path])
      BY <1>1, <2>2, <2>3, NothingApplied
    <2>4. CASE ~(files' = files /\ (IsWrite(e) => e.status = "suspended" /\ e.rollback = files[e.path]))
      <3>1. PICK content \in SUBSET Contents : files' = [files EXCEPT ![e.path] = content]
        BY <2>4
      <3>2. IsWrite(e) /\ e.status = "done"
        BY <2>4
      <3>3. e.rollback = files[e.path]
        <4>1. CASE journal[n].status = "prepared"
          BY <2>4, <4>1
        <4>2. CASE journal[n].status = "suspended"
          <5>1. /\ e.op = "download" /\ e.rollback = journal[n].rollback
                /\ e.op = journal[n].op /\ e.path = journal[n].path
            BY <2>4, <4>2 DEF Advance
          <5> QED BY <1>3, <2>2, <4>2, <5>1 DEF Snapshot, StagedSnapshots
        <4> QED BY <1>3, <4>1, <4>2
      <3> QED BY <1>1, <2>2, <3>1, <3>2, <3>3, WriteApplied
    <2> QED BY <2>3, <2>4
  <1> QED BY <1>1, <1>2, <1>4, <1>5, <1>6 DEF ArtifactsInv

(* Each step of the adapters, of the checkpoints and of the process.       *)
LEMMA ArtifactsStep ==
    ASSUME ArtifactsInv, [ArtifactsNext]_artifactVars
    PROVE  ArtifactsInv'
  <1>1. /\ FileTypes /\ JournalOK /\ EncodedOK /\ UploadsKnown /\ (Intact => Snapshot)
        /\ checkpointed \in BOOLEAN /\ outdated \in BOOLEAN
    BY DEF ArtifactsInv
  <1>2. CASE prepare_file_plan
    <2>1. PICK p \in FilePlans : journal' = [n \in DOMAIN p |-> Prepared(p[n])]
      BY <1>2 DEF prepare_file_plan
    <2>2. /\ saved' = journal' /\ before' = files /\ files' = files
          /\ puts' = {} /\ repeated' = FALSE
          /\ encoded' = {} /\ checkpointed' = TRUE /\ outdated' = FALSE
      BY <1>2 DEF prepare_file_plan
    <2>3. /\ p \in Seq([op : {"write", "download", "upload", "grant_write"},
                        path : Paths, content : Contents])
      BY ArtifactsAssumption
    <2>4. Len(p) \in Nat /\ DOMAIN p = 1..Len(p)
      BY <2>3, LenProperties
    <2>5. ASSUME NEW n \in 1..Len(p)
          PROVE  /\ journal'[n] \in FileAction /\ journal'[n].status = "prepared"
                 /\ journal'[n].ran = FALSE
      <3>1. journal'[n] = Prepared(p[n])
        BY <2>1, <2>4
      <3>2. p[n] \in [op : {"write", "download", "upload", "grant_write"},
                      path : Paths, content : Contents]
        BY <2>3, ElementOfSeq
      <3> QED BY <3>1, <3>2 DEF Prepared, FileAction
    <2>6. journal' \in Seq(FileAction) /\ Len(journal') = Len(p)
      <3>1. journal' \in [1..Len(p) -> FileAction] /\ DOMAIN journal' = 1..Len(p)
        BY <2>1, <2>4, <2>5
      <3>2. journal' \in Seq(FileAction)
        BY <2>4, <3>1
      <3>3. DOMAIN journal' = 1..Len(journal') /\ Len(journal') \in Nat
        BY <3>2
      <3> QED BY <2>4, <3>1, <3>2, <3>3
    <2>7. FileTypes'
      BY <1>1, <2>2, <2>6 DEF FileTypes
    <2>8. JournalOK'
      <3>1. InOrder(journal')
        BY <2>5, <2>6 DEF InOrder
      <3>2. \A n \in 1..Len(journal') : Later(saved'[n], journal'[n])
        BY <2>2, <2>5, <2>6 DEF Later
      <3>3. \A n \in 1..Len(journal') : ~Applied(journal'[n])
        BY <2>5, <2>6 DEF Applied
      <3> QED BY <2>2, <3>1, <3>2, <3>3 DEF JournalOK
    <2>9. Snapshot'
      <3>1. PathsAsBefore'
        BY <2>2 DEF PathsAsBefore
      <3>2. FirstSnapshots' /\ StagedSnapshots'
        BY <2>5, <2>6 DEF FirstSnapshots, StagedSnapshots, Applied
      <3> QED BY <3>1, <3>2 DEF Snapshot
    <2>10. EncodedOK' /\ UploadsKnown'
      BY <2>2 DEF EncodedOK, UploadsKnown, PutsRecorded, Known
    <2> QED BY <2>2, <2>7, <2>8, <2>9, <2>10 DEF ArtifactsInv
  <1>15. \A n \in 1..Len(journal) : Later(journal[n], journal[n])
    BY <1>1, EntryFields DEF Later
  <1>16. ASSUME UNCHANGED <<files, before, journal, puts, repeated>>,
                NEW s, IsOlder(s, journal), saved' = s, \A o \in encoded' : IsOlder(o, journal),
                UploadsKnown', checkpointed' \in BOOLEAN, outdated' \in BOOLEAN
         PROVE  ArtifactsInv'
    <2>1. FileTypes' /\ JournalOK' /\ EncodedOK'
      BY <1>1, <1>16 DEF FileTypes, JournalOK, IsOlder, EncodedOK
    <2>2. (Intact' => Snapshot')
      BY <1>1, <1>16 DEF Intact, Snapshot, PathsAsBefore, FirstSnapshots, StagedSnapshots
    <2> QED BY <1>16, <2>1, <2>2 DEF ArtifactsInv
  <1>17. IsOlder(journal, journal) /\ IsOlder(saved, journal)
    BY <1>1, <1>15 DEF IsOlder, FileTypes, JournalOK
  <1>3. CASE save_journal
    <2>1. /\ saved' = journal /\ UNCHANGED <<files, before, journal, puts, repeated>>
          /\ UNCHANGED <<encoded, outdated>> /\ checkpointed' = TRUE
      BY <1>3 DEF save_journal, Fixed
    <2>2. UploadsKnown'
      BY <1>1, <2>1 DEF UploadsKnown, PutsRecorded, Known
    <2> QED BY <1>1, <1>16, <1>17, <2>1, <2>2 DEF EncodedOK
  <1>18. CASE stream_again
    <2>1. /\ UNCHANGED <<files, before, journal, saved, encoded, puts, repeated>>
          /\ outdated' = TRUE /\ checkpointed' = TRUE
      BY <1>18 DEF stream_again, Fixed
    <2>2. UploadsKnown'
      BY <2>1 DEF UploadsKnown
    <2> QED BY <1>1, <1>16, <1>17, <2>1, <2>2 DEF EncodedOK
  <1>19. CASE onPause_encodes
    <2>1. /\ UNCHANGED <<files, before, journal, saved, checkpointed, outdated, puts, repeated>>
          /\ encoded' = {journal}
      BY <1>19 DEF onPause_encodes, Fixed
    <2>2. UploadsKnown'
      BY <1>1, <2>1 DEF UploadsKnown, PutsRecorded, Known
    <2> QED BY <1>1, <1>16, <1>17, <2>1, <2>2
  <1>20. CASE onPause_writes
    <2>1. PICK older \in encoded :
             /\ saved' = older /\ encoded' = {}
             /\ outdated' = (outdated \/ \E n \in DOMAIN saved :
                                saved[n].status # "prepared" /\ older[n].status = "prepared")
      BY <1>20 DEF onPause_writes
    <2>2. UNCHANGED <<files, before, journal, checkpointed, puts, repeated>>
      BY <1>20 DEF onPause_writes, Fixed
    <2>3. IsOlder(older, journal)
      BY <1>1 DEF EncodedOK
    <2>4. UploadsKnown'
      <3> SUFFICES ASSUME ~outdated' PROVE PutsRecorded' /\ (checkpointed' => Known')
        BY DEF UploadsKnown
      <3>1. /\ ~outdated
            /\ \A n \in 1..Len(journal) : saved[n].status # "prepared" => older[n].status # "prepared"
        BY <1>1, <2>1, JournalLength
      <3>2. PutsRecorded /\ (checkpointed => Known)
        BY <1>1, <3>1 DEF UploadsKnown
      <3>3. ASSUME NEW p \in puts
            PROVE  /\ p[1] \in 1..Len(journal)
                   /\ SentEntry(journal[p[1]], p[2]) /\ SentEntry(older[p[1]], p[2])
        <4>1. /\ p[1] \in 1..Len(journal)
              /\ SentEntry(journal[p[1]], p[2]) /\ SentEntry(saved[p[1]], p[2])
          BY <3>2 DEF PutsRecorded
        <4>2. Later(older[p[1]], journal[p[1]]) /\ older[p[1]].status # "prepared"
          BY <2>3, <3>1, <4>1 DEF IsOlder, SentEntry
        <4>3. older[p[1]].status \in {"prepared", "suspended", "done", "undone"}
          <5>1. older \in Seq(FileAction) /\ Len(older) = Len(journal)
            BY <2>3 DEF IsOlder
          <5>2. older[p[1]] \in FileAction
            BY <4>1, <5>1
          <5> QED BY <5>2 DEF FileAction
        <4> QED BY <4>1, <4>2, <4>3 DEF SentEntry, Later
      <3>4. PutsRecorded'
        BY <2>1, <2>2, <3>3 DEF PutsRecorded
      <3>5. checkpointed => Known'
        BY <2>1, <2>2, <3>1, <3>2 DEF Known
      <3> QED BY <2>2, <3>4, <3>5
    <2>5. outdated' \in BOOLEAN
      BY <1>1, <2>1
    <2> QED BY <1>1, <1>16, <2>1, <2>2, <2>3, <2>4, <2>5
  <1>4. CASE write_atomic
    <2>1. PICK n \in DOMAIN journal :
             /\ At(n, "write", "prepared")
             /\ files' = Put(files, journal[n].path, {journal[n].content})
             /\ Ran(n, [journal[n] EXCEPT !.status = "done", !.rollback = files[journal[n].path]])
      BY <1>4 DEF write_atomic
    <2>2. UNCHANGED <<saved, encoded, checkpointed, outdated, before, puts>>
      BY <1>4 DEF write_atomic, Fixed, savedVars
    <2>3. n \in Cursor /\ journal[n].op = "write" /\ journal[n].status = "prepared"
      BY <2>1 DEF At
    <2>4. n \in 1..Len(journal) /\ journal[n] \in FileAction /\ journal[n].path \in Paths
          /\ journal[n].content \in Contents /\ files[journal[n].path] \in SUBSET Contents
      BY <1>1, <2>3, CursorPlace, EntryFields DEF FileTypes
    <2> DEFINE d == [journal[n] EXCEPT !.status = "done", !.rollback = files[journal[n].path]]
               e == [d EXCEPT !.ran = TRUE]
    <2>5. /\ e \in FileAction /\ e.op = journal[n].op /\ e.path = journal[n].path
          /\ e.content = journal[n].content /\ e.status = "done" /\ e.ran = TRUE
          /\ e.rollback = files[journal[n].path]
      BY <2>4 DEF FileAction
    <2>6. EntryBecomes(n, e) /\ repeated' = (repeated \/ journal[n].ran)
      BY <2>1 DEF Ran, EntryBecomes
    <2> HIDE DEF e
    <2>7. Advance(journal[n], e) /\ IsWrite(e)
      BY <2>3, <2>5 DEF Advance, IsWrite
    <2>8. \E content \in SUBSET Contents : files' = [files EXCEPT ![e.path] = content]
      BY <2>1, <2>4, <2>5 DEF Put
    <2> QED BY <1>1, <2>2, <2>3, <2>5, <2>6, <2>7, <2>8, EntryAdvances
  <1>5. CASE write_staging
    <2>1. PICK n \in DOMAIN journal, c \in Contents :
             /\ At(n, "download", "prepared")
             /\ journal' = [journal EXCEPT ![n].status = "suspended", ![n].digest = {c},
                                 ![n].rollback = files[journal[n].path]]
      BY <1>5 DEF write_staging
    <2>2. /\ UNCHANGED <<files, saved, encoded, outdated, before, puts, repeated>>
          /\ checkpointed' = FALSE
      BY <1>5 DEF write_staging, Fixed
    <2>3. n \in Cursor /\ journal[n].op = "download" /\ journal[n].status = "prepared"
      BY <2>1 DEF At
    <2>4. n \in 1..Len(journal) /\ journal[n] \in FileAction /\ journal[n].path \in Paths
          /\ files[journal[n].path] \in SUBSET Contents
      BY <1>1, <2>3, CursorPlace, EntryFields DEF FileTypes
    <2> DEFINE e == [journal[n] EXCEPT !.status = "suspended", !.digest = {c},
                                       !.rollback = files[journal[n].path]]
    <2>5. /\ e \in FileAction /\ e.op = journal[n].op /\ e.path = journal[n].path
          /\ e.content = journal[n].content /\ e.status = "suspended" /\ e.ran = journal[n].ran
          /\ e.rollback = files[journal[n].path]
      BY <2>4 DEF FileAction
    <2>6. EntryBecomes(n, e)
      BY <1>1, <2>1, <2>4 DEF EntryBecomes, FileTypes
    <2> HIDE DEF e
    <2>7. Advance(journal[n], e) /\ IsWrite(e)
      BY <2>3, <2>5 DEF Advance, IsWrite, Applied
    <2> QED BY <2>2, <2>3, <2>5, <2>6, <2>7, EntryAdvances
  <1>6. CASE commit_staging
    <2>1. PICK n \in DOMAIN journal :
             /\ At(n, "download", "suspended")
             /\ staging[n] = journal[n].digest
             /\ files' = Put(files, journal[n].path, staging[n])
             /\ Ran(n, [journal[n] EXCEPT !.status = "done"])
      BY <1>6 DEF commit_staging
    <2>2. UNCHANGED <<saved, encoded, checkpointed, outdated, before, puts>>
      BY <1>6 DEF commit_staging, Fixed, savedVars
    <2>3. n \in Cursor /\ journal[n].op = "download" /\ journal[n].status = "suspended"
      BY <2>1 DEF At
    <2>4. n \in 1..Len(journal) /\ journal[n] \in FileAction /\ journal[n].path \in Paths
          /\ journal[n].digest \in SUBSET Contents
      BY <1>1, <2>3, CursorPlace, EntryFields DEF FileTypes
    <2> DEFINE e == [[journal[n] EXCEPT !.status = "done"] EXCEPT !.ran = TRUE]
    <2>5. /\ e \in FileAction /\ e.op = journal[n].op /\ e.path = journal[n].path
          /\ e.content = journal[n].content /\ e.status = "done" /\ e.ran = TRUE
          /\ e.rollback = journal[n].rollback /\ e.digest = journal[n].digest
      BY <2>4 DEF FileAction
    <2>6. EntryBecomes(n, e) /\ repeated' = (repeated \/ journal[n].ran)
      BY <2>1 DEF Ran, EntryBecomes
    <2> HIDE DEF e
    <2>7. Advance(journal[n], e) /\ IsWrite(e)
      BY <2>3, <2>5 DEF Advance, IsWrite
    <2>8. \E content \in SUBSET Contents : files' = [files EXCEPT ![e.path] = content]
      BY <2>1, <2>4, <2>5 DEF Put
    <2> QED BY <1>1, <2>2, <2>3, <2>5, <2>6, <2>7, <2>8, EntryAdvances
  <1>7. CASE source_bytes
    <2>1. PICK n \in DOMAIN journal :
             /\ At(n, "upload", "prepared")
             /\ journal' = [journal EXCEPT ![n].status = "suspended",
                                           ![n].digest = files[journal[n].path]]
      BY <1>7 DEF source_bytes
    <2>2. /\ UNCHANGED <<files, saved, encoded, outdated, before, puts, repeated>>
          /\ checkpointed' = FALSE
      BY <1>7 DEF source_bytes, Fixed
    <2>3. n \in Cursor /\ journal[n].op = "upload" /\ journal[n].status = "prepared"
      BY <2>1 DEF At
    <2>4. n \in 1..Len(journal) /\ journal[n] \in FileAction /\ journal[n].path \in Paths
          /\ files[journal[n].path] \in SUBSET Contents
      BY <1>1, <2>3, CursorPlace, EntryFields DEF FileTypes
    <2> DEFINE e == [journal[n] EXCEPT !.status = "suspended", !.digest = files[journal[n].path]]
    <2>5. /\ e \in FileAction /\ e.op = journal[n].op /\ e.path = journal[n].path
          /\ e.content = journal[n].content /\ e.status = "suspended" /\ e.ran = journal[n].ran
      BY <2>4 DEF FileAction
    <2>6. EntryBecomes(n, e)
      BY <1>1, <2>1, <2>4 DEF EntryBecomes, FileTypes
    <2> HIDE DEF e
    <2>7. Advance(journal[n], e) /\ ~IsWrite(e)
      BY <2>3, <2>5 DEF Advance, IsWrite, Applied
    <2> QED BY <2>2, <2>3, <2>5, <2>6, <2>7, EntryAdvances
  <1>8. CASE https_put
    <2>1. PICK n \in DOMAIN journal, answered_ \in BOOLEAN :
             /\ At(n, "upload", "suspended") /\ checkpointed
             /\ puts' = puts \cup {<<n, journal[n].digest>>}
             /\ journal' = IF answered_ THEN [journal EXCEPT ![n].status = "done"] ELSE journal
      BY <1>8 DEF https_put
    <2>2. UNCHANGED <<files, saved, encoded, checkpointed, outdated, before, repeated>>
      BY <1>8 DEF https_put, Fixed, savedVars
    <2>3. n \in Cursor /\ journal[n].op = "upload" /\ journal[n].status = "suspended"
      BY <2>1 DEF At
    <2>4. n \in 1..Len(journal) /\ journal[n] \in FileAction
      BY <1>1, <2>3, CursorPlace, EntryFields
    <2>5. \A p \in puts' : p \in puts \/ PutNow(n, p)
      BY <2>1, <2>3, <2>4 DEF PutNow
    <2>6. CASE answered_
      <3> DEFINE e == [journal[n] EXCEPT !.status = "done"]
      <3>1. /\ e \in FileAction /\ e.op = journal[n].op /\ e.path = journal[n].path
            /\ e.content = journal[n].content /\ e.status = "done" /\ e.ran = journal[n].ran
            /\ e.rollback = journal[n].rollback /\ e.digest = journal[n].digest
        BY <2>4 DEF FileAction
      <3>2. EntryBecomes(n, e)
        BY <1>1, <2>1, <2>4, <2>6 DEF EntryBecomes, FileTypes
      <3> HIDE DEF e
      <3>3. Advance(journal[n], e) /\ ~IsWrite(e)
        BY <2>3, <3>1 DEF Advance, IsWrite, Applied
      <3>4. checkpointed' \in BOOLEAN /\ (checkpointed' => checkpointed /\ e.status # "suspended")
        BY <1>1, <2>2, <3>1
      <3> QED BY <2>2, <2>3, <2>5, <3>1, <3>2, <3>3, <3>4, EntryAdvances
    <2>7. CASE ~answered_
      <3>1. journal' = journal
        BY <2>1, <2>7
      <3>2. ~outdated => \A p \in puts' : Recorded(p)
        BY <1>1, <2>5, PutRecorded
      <3>3. UploadsKnown'
        BY <1>1, <2>2, <3>1, <3>2 DEF UploadsKnown, PutsRecorded, Recorded, Known
      <3>4. FileTypes' /\ JournalOK' /\ EncodedOK'
        BY <1>1, <2>2, <3>1 DEF FileTypes, JournalOK, EncodedOK
      <3>5. (Intact' => Snapshot')
        BY <1>1, <2>2, <3>1 DEF Intact, Snapshot, PathsAsBefore, FirstSnapshots, StagedSnapshots
      <3> QED BY <1>1, <2>2, <3>3, <3>4, <3>5 DEF ArtifactsInv
    <2> QED BY <2>6, <2>7
  <1>9. ASSUME UNCHANGED <<files, before, journal, puts, repeated>>, UNCHANGED savedVars
        PROVE  ArtifactsInv'
    <2>1. UploadsKnown'
      BY <1>1, <1>9 DEF UploadsKnown, PutsRecorded, Known, savedVars
    <2> QED BY <1>1, <1>9, <1>16, <1>17, <2>1 DEF EncodedOK, savedVars
  <1>10. CASE granted_write
    <2>1. PICK n \in DOMAIN journal, readBack \in BOOLEAN :
             /\ At(n, "grant_write", "prepared")
             /\ IF readBack THEN Ran(n, [journal[n] EXCEPT !.status = "done"])
                            ELSE UNCHANGED <<journal, repeated>>
      BY <1>10 DEF granted_write
    <2>2. UNCHANGED <<files, before, puts>> /\ UNCHANGED savedVars
      BY <1>10 DEF granted_write, Fixed
    <2>3. n \in Cursor /\ journal[n].op = "grant_write" /\ journal[n].status = "prepared"
      BY <2>1 DEF At
    <2>4. n \in 1..Len(journal) /\ journal[n] \in FileAction
      BY <1>1, <2>3, CursorPlace, EntryFields
    <2> DEFINE e == [[journal[n] EXCEPT !.status = "done"] EXCEPT !.ran = TRUE]
    <2>5. /\ e \in FileAction /\ e.op = journal[n].op /\ e.path = journal[n].path
          /\ e.content = journal[n].content /\ e.status = "done" /\ e.ran = TRUE
      BY <2>4 DEF FileAction
    <2>6. CASE readBack
      <3>1. EntryBecomes(n, e) /\ repeated' = (repeated \/ journal[n].ran)
        BY <2>1, <2>6 DEF Ran, EntryBecomes
      <3> HIDE DEF e
      <3>2. Advance(journal[n], e) /\ ~IsWrite(e)
        BY <2>3, <2>5 DEF Advance, IsWrite, Applied
      <3> QED BY <1>1, <2>2, <2>3, <2>5, <3>1, <3>2, EntryAdvances DEF savedVars
    <2>7. CASE ~readBack
      BY <1>9, <2>1, <2>2, <2>7
    <2> QED BY <2>6, <2>7
  <1>11. CASE grant_changes \/ UNCHANGED artifactVars
    BY <1>9, <1>11 DEF grant_changes, Fixed, artifactVars, savedVars
  <1> QED BY <1>2, <1>3, <1>4, <1>5, <1>6, <1>7, <1>8, <1>10, <1>11, <1>18, <1>19, <1>20,
             RollbackStep, DeathStep
          DEF ArtifactsNext

LEMMA ArtifactsInductive == ArtifactsSpec => []ArtifactsInv
  <1>1. ArtifactsInit => ArtifactsInv
    <2> SUFFICES ASSUME ArtifactsInit PROVE ArtifactsInv
      OBVIOUS
    <2>1. /\ journal = <<>> /\ saved = <<>> /\ puts = {} /\ before = files
          /\ encoded = {} /\ checkpointed = TRUE /\ outdated = FALSE
          /\ files \in [Paths -> SUBSET Contents]
      <3>1. (CHOOSE c \in Contents : TRUE) \in Contents
        BY ArtifactsAssumption
      <3> QED BY <3>1 DEF ArtifactsInit
    <2>2. FileTypes
      BY <2>1 DEF FileTypes
    <2>3. JournalOK /\ UploadsKnown /\ EncodedOK
      BY <2>1 DEF JournalOK, InOrder, PutsRecorded, UploadsKnown, Known, EncodedOK
    <2>4. Snapshot
      BY <2>1 DEF Snapshot, PathsAsBefore, FirstSnapshots, StagedSnapshots
    <2> QED BY <2>1, <2>2, <2>3, <2>4 DEF ArtifactsInv
  <1>2. ArtifactsInv /\ [ArtifactsNext]_artifactVars => ArtifactsInv'
    BY ArtifactsStep
  <1> QED BY <1>1, <1>2, PTL DEF ArtifactsSpec

(* However often an upload is retried or repeated after a death, the same  *)
(* action puts the same content on the server, as long as no checkpoint    *)
(* that knew its digest is passed over.                                    *)
THEOREM UploadsAreIdempotent == ArtifactsSpec => []UploadIdempotent
  <1>1. ArtifactsInv => UploadIdempotent
    BY DEF ArtifactsInv, UploadsKnown, PutsRecorded, SentEntry, UploadIdempotent
  <1> QED BY <1>1, ArtifactsInductive, PTL

(* A task whose writes are all undone has left the files as they were when *)
(* it began, for every plan, every order of checkpoints and any number of  *)
(* deaths, if no write ran twice.                                          *)
THEOREM UndoneIsTraceless == ArtifactsSpec => []UndoneLeavesNoTrace
  <1>1. ArtifactsInv => UndoneLeavesNoTrace
    <2> SUFFICES ASSUME ArtifactsInv, ~repeated,
                        \A n \in DOMAIN journal :
                          /\ journal[n].op \in {"write", "download"}
                          /\ \/ journal[n].status = "undone"
                             \/ journal[n].status = "prepared" /\ ~journal[n].ran
                 PROVE  files = before
      BY DEF UndoneLeavesNoTrace
    <2>1. DOMAIN journal = 1..Len(journal)
      BY JournalLength DEF ArtifactsInv
    <2>2. Intact
      BY <2>1 DEF Intact, Lost
    <2>3. \A x \in Paths : files[x] = before[x]
      BY <2>1, <2>2 DEF ArtifactsInv, Snapshot, PathsAsBefore
    <2> QED BY <2>3 DEF ArtifactsInv, FileTypes
  <1> QED BY <1>1, ArtifactsInductive, PTL

-----------------------------------------------------------------------------
(* Action planning.                                                        *)

LEMMA LineCaps ==
    /\ \A l \in WebLines : l.cap \in WebCaps
    /\ \A l \in FileLines : l.cap \in FileCaps
    /\ \A l \in DeviceLines : l.cap \in DeviceCaps
    /\ \A l \in PcLines : l.cap \in PcCaps
<1>1. \A l \in WebLines : l.cap \in WebCaps
  BY DEF WebLines, Plain, TwoTexts, Line, WebCaps
<1>2. \A l \in FileLines : l.cap \in FileCaps
  BY DEF FileLines, Plain, TwoTexts, Line, FileCaps
<1>3. \A l \in DeviceLines : l.cap \in DeviceCaps
  BY DEF DeviceLines, Line, DeviceCaps
<1>4. \A l \in PcLines : l.cap \in PcCaps
  BY DEF PcLines, Line
<1> QED BY <1>1, <1>2, <1>3, <1>4

Caps == WebCaps \cup FileCaps \cup DeviceCaps \cup PcCaps

ExternalCaps == {"artifact.upload", "file.grant.write", "browser.interact",
                 "device.interact", "app.action", "pc.execute", "pc.artifact.write"}

LEMMA ExternalWrites ==
  \A c \in Caps : SideEffect(c) = "ExternalWrite" <=> c \in ExternalCaps
  BY DEF Caps, WebCaps, FileCaps, DeviceCaps, PcCaps, ExternalCaps, SideEffect

(* A plan that got this far has its external writes on an approved card.   *)
Covered == Writes # {} => consent /\ shown = {lines[n].cap : n \in Writes}

PlanInv ==
    /\ lines \in Seq(ParsedLines)
    /\ receipts \in Seq(ParsedLines)
    /\ planStage \notin {"idle", "direct"} => lines # <<>>
    /\ planStage \notin {"running", "stopped", "complete"} => receipts = <<>>
    /\ Len(receipts) <= Len(lines)
    /\ planStage = "running" => Len(receipts) < Len(lines)
    /\ planStage = "awaiting" => shown = {lines[n].cap : n \in Writes}
    /\ planStage \in {"approved", "running", "stopped", "complete"} => Covered
    /\ \A n \in 1 .. Len(receipts) :
          lines[n].cap \in ExternalCaps \ PcCaps => EvidenceOf(lines[n], receipts[n])
    /\ ApprovedPlanRuns

(* Grammar, descriptors and authority agree: no parsed plan that may run   *)
(* is refused for its effects or its scopes.                               *)
LEMMA Authorized ==
  ASSUME PlanInv, NEW c \in PlanCaps
  PROVE  Registry(c).effect = SideEffect(c) /\ Registry(c).scopes \subseteq Authority
<1>1. PICK n \in DOMAIN lines : lines[n].cap = c
  BY DEF PlanCaps
<1>2. lines[n] \in ParsedLines
  BY DEF PlanInv
<1>3. c \in Caps
  BY <1>1, <1>2, LineCaps DEF ParsedLines, Caps
<1>4. c \in ExternalCaps => Writes # {}
  BY <1>1, <1>3, ExternalWrites DEF Writes
<1>5. c \in ExternalCaps => WriteAuthority \subseteq Authority
  BY <1>4 DEF Authority
<1>6. ReadAuthority \subseteq Authority
  BY DEF Authority
<1>7. /\ "network.read" \in Authority /\ "file.app_private" \in Authority
      /\ c = "file.grant.read" => "file.user_grant.read" \in Authority
      /\ c \in {"browser.observe", "pc.observe", "pc.artifact.read"} => c \in Authority
  BY <1>6 DEF ReadAuthority
<1>8. /\ c = "artifact.upload" => "network.write" \in Authority
      /\ c = "file.grant.write" => "file.user_grant.write" \in Authority
      /\ c = "device.interact" => "device.clipboard.write" \in Authority
      /\ c \in {"browser.interact", "pc.execute", "pc.artifact.write"} => c \in Authority
      /\ c = "app.action" => app_action_scope_names \subseteq Authority
  BY <1>5 DEF WriteAuthority, ExternalCaps
<1>9. CASE c \in WebCaps
  <2>1. Registry(c) = WebDescriptors(c)
    BY <1>9 DEF Registry, WebCaps, FileCaps, DeviceCaps, PcCaps
  <2> QED BY <1>7, <1>8, <1>9, <2>1 DEF WebDescriptors, Descriptor, SideEffect, WebCaps
<1>10. CASE c \in FileCaps
  <2>1. Registry(c) = FileDescriptors(c)
    BY <1>10 DEF Registry, WebCaps, FileCaps, DeviceCaps, PcCaps
  <2> QED BY <1>7, <1>8, <1>10, <2>1 DEF FileDescriptors, Descriptor, SideEffect, FileCaps
<1>11. CASE c \in DeviceCaps
  <2>1. Registry(c) = DeviceDescriptors(c)
    BY <1>11 DEF Registry, WebCaps, FileCaps, DeviceCaps, PcCaps
  <2> QED BY <1>7, <1>8, <1>11, <2>1 DEF DeviceDescriptors, Descriptor, SideEffect, DeviceCaps
<1>12. CASE c \in PcCaps
  <2>1. Registry(c) = PcDescriptors(c)
    BY <1>12 DEF Registry, WebCaps, FileCaps, DeviceCaps, PcCaps
  <2> QED BY <1>7, <1>8, <1>12, <2>1 DEF PcDescriptors, Descriptor, SideEffect, PcCaps
<1> QED BY <1>3, <1>9, <1>10, <1>11, <1>12 DEF Caps

(* What the verifier accepts for an external write is about that write, as *)
(* far as the platform reports it.                                         *)
LEMMA VerifiedIsOwn ==
  ASSUME NEW l \in ParsedLines, NEW answer, Verified_output(l, answer),
         l.cap \in ExternalCaps \ PcCaps, answer.cap = l.cap
  PROVE  EvidenceOf(l, answer)
<1>1. l \notin PcLines
  BY LineCaps
<1>2. CASE l \in WebLines
  <2>1. l.cap \in WebCaps /\ l \notin FileLines /\ l \notin DeviceLines
    BY <1>2, LineCaps DEF WebCaps, FileCaps, DeviceCaps
  <2>2. WebVerified(l, answer)
    BY <1>2, <2>1 DEF Verified_output
  <2> QED BY <2>1, <2>2 DEF WebVerified, ExternalCaps, WebCaps, EvidenceOf
<1>3. CASE l \in FileLines
  <2>1. l.cap \in FileCaps /\ l \notin WebLines /\ l \notin DeviceLines
    BY <1>3, LineCaps DEF WebCaps, FileCaps, DeviceCaps
  <2>2. FileVerified(l, answer)
    BY <1>3, <2>1 DEF Verified_output
  <2> QED BY <2>1, <2>2 DEF FileVerified, ExternalCaps, FileCaps, EvidenceOf
<1>4. CASE l \in DeviceLines
  <2>1. l.cap \in DeviceCaps /\ l \notin WebLines /\ l \notin FileLines
    BY <1>4, LineCaps DEF WebCaps, FileCaps, DeviceCaps
  <2>2. DeviceVerified(l, answer)
    BY <1>4, <2>1 DEF Verified_output
  <2> QED BY <2>1, <2>2 DEF DeviceVerified, ExternalCaps, DeviceCaps, EvidenceOf
<1> QED BY <1>1, <1>2, <1>3, <1>4 DEF ParsedLines

LEMMA PlanTextStep ==
  ASSUME PlanInv, NEW text \in Seq(ParsedLines \cup {UnknownLine}), plan_text(text)
  PROVE  PlanInv'
<1>1. /\ planStage = "idle" /\ receipts = <<>> /\ receipts' = <<>> /\ shown' = shown
      /\ consent' = consent /\ cause' = cause
  BY DEF plan_text, PlanInv
<1>2. /\ receipts' \in Seq(ParsedLines) /\ Len(receipts') = 0 /\ ApprovedPlanRuns'
      /\ \A n \in 1 .. Len(receipts') :
            lines'[n].cap \in ExternalCaps \ PcCaps => EvidenceOf(lines'[n], receipts'[n])
  <2>1. receipts' \in Seq(ParsedLines) /\ Len(receipts') = 0
    BY <1>1
  <2>2. ApprovedPlanRuns'
    BY <1>1 DEF PlanInv, ApprovedPlanRuns
  <2> QED BY <2>1, <2>2
<1>3. CASE parse_native_action_plan(text) = {}
  <2>1. planStage' = "direct" /\ lines' = <<>>
    BY <1>3 DEF plan_text
  <2>2. lines' \in Seq(ParsedLines) /\ Len(lines') \in Nat
    BY <2>1
  <2> QED BY <1>1, <1>2, <2>1, <2>2 DEF PlanInv
<1>4. CASE parse_native_action_plan(text) # {}
  <2>1. planStage' = "planned" /\ lines' = text
    BY <1>4 DEF plan_text
  <2>2. text # <<>> /\ \A n \in DOMAIN text : text[n] \in ParsedLines
    BY <1>4 DEF parse_native_action_plan
  <2>3. text \in Seq(ParsedLines)
    BY <2>2
  <2>4. Len(text) \in Nat
    OBVIOUS
  <2> QED BY <1>1, <1>2, <2>1, <2>2, <2>3, <2>4 DEF PlanInv
<1> QED BY <1>3, <1>4

LEMMA RunStep ==
  ASSUME PlanInv, run_current_action
  PROVE  PlanInv'
<1> DEFINE k == Len(receipts) + 1
<1>1. /\ planStage = "running" /\ lines' = lines /\ shown' = shown /\ consent' = consent
      /\ cause' = cause
  BY DEF run_current_action
<1>2. /\ lines \in Seq(ParsedLines) /\ receipts \in Seq(ParsedLines) /\ lines # <<>>
      /\ Len(receipts) \in Nat /\ Len(lines) \in Nat /\ Len(receipts) < Len(lines)
      /\ k \in 1 .. Len(lines) /\ lines[k] \in ParsedLines /\ Covered
  BY <1>1 DEF PlanInv
<1>3. Covered'
  BY <1>1, <1>2 DEF Covered, Writes
<1>4. CASE planStage' = "stopped" /\ UNCHANGED receipts
  BY <1>1, <1>2, <1>3, <1>4 DEF PlanInv, ApprovedPlanRuns
<1>5. ASSUME NEW answer \in Answers, Verified_output(lines[k], answer),
             receipts' = Append(receipts, answer),
             planStage' = IF Len(receipts) + 1 = Len(lines) THEN "complete" ELSE "running"
      PROVE  PlanInv'
  <2>1. answer \in ParsedLines
    BY <1>2 DEF Answers
  <2>2. /\ receipts' \in Seq(ParsedLines) /\ Len(receipts') = k /\ receipts'[k] = answer
        /\ \A n \in 1 .. Len(receipts) : receipts'[n] = receipts[n]
    BY <1>2, <1>5, <2>1
  <2>3. ASSUME NEW n \in 1..k, lines[n].cap \in ExternalCaps \ PcCaps
        PROVE  EvidenceOf(lines[n], receipts'[n])
    <3>1. CASE n = k
      <4>0. answer.cap = lines[k].cap
        BY <1>5 DEF Answers, Current
      <4>1. EvidenceOf(lines[k], answer)
        BY <1>2, <1>5, <2>3, <3>1, <4>0, VerifiedIsOwn
      <4> QED BY <2>2, <3>1, <4>1
    <3>2. CASE n # k
      <4>1. n \in 1 .. Len(receipts)
        BY <1>2, <3>2
      <4> QED BY <2>2, <2>3, <4>1 DEF PlanInv
    <3> QED BY <3>1, <3>2
  <2>4. k <= Len(lines) /\ (planStage' = "running" => k < Len(lines))
    BY <1>2, <1>5
  <2>5. planStage' \in {"running", "complete"}
    BY <1>5
  <2> QED BY <1>1, <1>2, <1>3, <2>2, <2>3, <2>4, <2>5 DEF PlanInv, ApprovedPlanRuns
<1> QED BY <1>4, <1>5 DEF run_current_action, Current

LEMMA PlanStep ==
  ASSUME PlanInv, [PlanNext]_planVars
  PROVE  PlanInv'
<1>1. ASSUME NEW l \in ParsedLines \cup {UnknownLine}, plan_text(<<l>>)
      PROVE  PlanInv'
  <2>1. <<l>> \in Seq(ParsedLines \cup {UnknownLine})
    OBVIOUS
  <2> QED BY <1>1, <2>1, PlanTextStep
<1>2. CASE governed_explicit_action_plan
  <2>1. WebCommands \cup DeviceCommands \cup PcCommands \subseteq ParsedLines
    <3>1. WebCommands \subseteq WebLines
      BY DEF WebCommands, WebLines, Plain, TwoTexts, WebCaps
    <3>2. DeviceCommands \subseteq FileLines \cup DeviceLines
      BY DEF DeviceCommands, FileLines, Plain, TwoTexts, FileCaps
    <3> QED BY <3>1, <3>2 DEF PcCommands, ParsedLines
  <2> QED BY <1>1, <1>2, <2>1 DEF governed_explicit_action_plan
<1>3. CASE run_constrained_device_planner
  BY <1>1, <1>3 DEF run_constrained_device_planner, ParsedLines
<1>4. CASE run_native_action_planner
  <2>1. ASSUME NEW first \in ParsedLines \cup {UnknownLine},
               NEW second \in ParsedLines \cup {UnknownLine}, plan_text(<<first, second>>)
        PROVE  PlanInv'
    <3>1. <<first, second>> \in Seq(ParsedLines \cup {UnknownLine})
      OBVIOUS
    <3> QED BY <2>1, <3>1, PlanTextStep
  <2> QED BY <1>1, <1>4, <2>1 DEF run_native_action_planner
<1>5. ASSUME NEW why, Refuse(why), why \notin {"no authority", "no approval"},
             planStage \in {"planned", "approved"}
      PROVE  PlanInv'
  BY <1>5 DEF Refuse, PlanInv, ApprovedPlanRuns
<1>6. CASE external_write_approval
  <2>1. planStage = "planned" /\ Writes # {}
    BY <1>6 DEF external_write_approval
  <2>2. CASE Refuse("unsupported write")
    BY <1>5, <2>1, <2>2
  <2>3. CASE /\ planStage' = "awaiting"
             /\ shown' = {lines[n].cap : n \in Writes}
             /\ UNCHANGED <<lines, consent, cause, receipts>>
    BY <2>1, <2>3 DEF PlanInv, ApprovedPlanRuns, Writes
  <2> QED BY <1>6, <2>2, <2>3 DEF external_write_approval
<1>7. CASE resolve_plan_approval
  <2>1. /\ planStage = "awaiting" /\ UNCHANGED <<lines, shown, cause, receipts>>
        /\ \/ planStage' = "approved" /\ consent' = TRUE
           \/ planStage' = "direct" /\ consent' = FALSE
    BY <1>7 DEF resolve_plan_approval
  <2>2. planStage' = "approved" => Covered'
    BY <2>1 DEF PlanInv, Covered, Writes
  <2> QED BY <2>1, <2>2 DEF PlanInv, ApprovedPlanRuns
<1>8. CASE execute_android_verified_actions
  <2>1. planStage \in {"planned", "approved"} /\ Covered
    BY <1>8 DEF execute_android_verified_actions, PlanInv, Covered
  <2>2. CASE Refuse("peer")
    BY <1>5, <2>1, <2>2
  <2>3. CASE planStage' = "running" /\ UNCHANGED <<lines, shown, consent, cause, receipts>>
    <3>1. Covered'
      BY <2>1, <2>3 DEF Covered, Writes
    <3>2. lines # <<>> /\ receipts = <<>> /\ lines \in Seq(ParsedLines)
      BY <2>1 DEF PlanInv
    <3>3. Len(receipts) < Len(lines)
      BY <3>2
    <3> QED BY <2>3, <3>1, <3>2, <3>3 DEF PlanInv, ApprovedPlanRuns
  <2>4. Writes # {} => consent
    BY <2>1 DEF Covered
  <2>5. ~ \E c \in PlanCaps : Registry(c).effect # SideEffect(c)
                                \/ ~ Registry(c).scopes \subseteq Authority
    BY Authorized
  <2> QED BY <1>8, <2>2, <2>3, <2>4, <2>5 DEF execute_android_verified_actions
<1>9. CASE run_current_action
  BY <1>9, RunStep
<1>10. CASE UNCHANGED planVars
  BY <1>10 DEF planVars, PlanInv, Covered, Writes, ApprovedPlanRuns
<1> QED BY <1>2, <1>3, <1>4, <1>6, <1>7, <1>8, <1>9, <1>10 DEF PlanNext

LEMMA PlanInvariance == PlanSpec => []PlanInv
<1>1. PlanInit => PlanInv
  BY DEF PlanInit, PlanInv, ApprovedPlanRuns
<1>2. PlanInv /\ [PlanNext]_planVars => PlanInv'
  BY PlanStep
<1> QED BY <1>1, <1>2, PTL DEF PlanSpec

(* A plan that the grammar admits and the user approved is never refused   *)
(* for authority: descriptors, side effects and granted scopes agree on    *)
(* every capability, alone and beside any others of the same plan.         *)
THEOREM ApprovedRuns == PlanSpec => []ApprovedPlanRuns
<1>1. PlanInv => ApprovedPlanRuns
  BY DEF PlanInv
<1> QED BY <1>1, PlanInvariance, PTL

(* Every external write of a plan that runs was on an approved card, and   *)
(* its committed evidence is about that write as far as its platform       *)
(* reports it, though the platform may answer about another action of the  *)
(* plan, for plans of any length.                                          *)
THEOREM WritesShown == PlanSpec => []WritesWereShown
<1>1. PlanInv => WritesWereShown
  <2> SUFFICES ASSUME PlanInv
               PROVE  WritesWereShown
    OBVIOUS
  <2>1. \A n \in DOMAIN lines : lines[n].cap \in Caps
    BY LineCaps DEF PlanInv, ParsedLines, Caps
  <2>2. DOMAIN receipts = 1 .. Len(receipts) /\ DOMAIN receipts \subseteq DOMAIN lines
    BY DEF PlanInv
  <2>3. ASSUME planStage \in {"running", "stopped", "complete"}, NEW n \in DOMAIN lines,
               lines[n].cap \in ExternalCaps
        PROVE  consent /\ lines[n].cap \in shown
    <3>1. n \in Writes
      BY <2>1, <2>3, ExternalWrites DEF Writes
    <3> QED BY <2>3, <3>1 DEF PlanInv, Covered
  <2>4. ASSUME NEW n \in DOMAIN receipts,
               SideEffect(lines[n].cap) = "ExternalWrite", lines[n].cap \notin PcCaps
        PROVE  EvidenceOf(lines[n], receipts[n])
    BY <2>1, <2>2, <2>4, ExternalWrites DEF PlanInv
  <2> QED BY <2>3, <2>4 DEF WritesWereShown, ExternalCaps
<1> QED BY <1>1, PlanInvariance, PTL
=============================================================================
