----------------------------- MODULE WebSearch ------------------------------
(***************************************************************************)
(* Web access of NtdWebPlatform.java and the web adapters of lib.rs        *)
(* (ntd-android-bridge): the search profile and its credential, the one    *)
(* network thread, redirects, OpenSearch discovery and the normalization   *)
(* of results.  A caller that times out leaves a job that has begun to the *)
(* network thread, and the profile may change while a job runs.            *)
(*                                                                         *)
(* A URL has a host, its origin (only port 443 is admitted).  A credential *)
(* is a model value; the cipher that stores it is left out, but reading it *)
(* back may fail.                                                          *)
(***************************************************************************)
EXTENDS Integers, Sequences, SequencesExt

CONSTANTS
    Hosts,           \* the public https hosts; a URL is its host here
    Credentials,     \* values of the credential header
    ResultUrls,      \* the URLs of results
    Pages,           \* what a provider may answer: sequences of items
    Limits,          \* the result limits a caller may ask for
    MAX_REDIRECTS,
    MaxJobs          \* bound on the jobs at the network thread

Item == [url : ResultUrls, public : BOOLEAN]

ASSUME WebAssumption ==
    /\ Pages \subseteq Seq(Item) /\ Limits \subseteq Nat
    /\ MAX_REDIRECTS \in Nat /\ MaxJobs \in Nat

VARIABLES
    searchConfiguration,   \* the profile in use
    preferences,           \* the profile on disk
    jobs,                  \* NETWORK_EXECUTOR: the head runs, the rest waits
    sent,                  \* {} or the last request: [credential, host, home]
    found                  \* {} or the last result: its page, limit and items

webVars == <<searchConfiguration, preferences, jobs, sent, found>>

Empty == [mode |-> "none", host |-> "none", credential |-> {}]

Profile ==
    [mode : {"json", "opensearch"}, host : Hosts,
     credential : {{}} \cup {{k} : k \in Credentials}]

WebInit ==
    /\ searchConfiguration = Empty
    /\ preferences = Empty
    /\ jobs = <<>>
    /\ sent = {}
    /\ found = {}

-----------------------------------------------------------------------------
(* The profile.                                                            *)

(* With a header name but no value the credential in use is kept; a first  *)
(* one is required.  The profile is committed to disk before it is used.   *)
configureSearchProfile ==
    \E p \in Profile, keep \in BOOLEAN :
        LET q == IF keep THEN [p EXCEPT !.credential = searchConfiguration.credential]
                         ELSE p
        IN  /\ keep => p.credential = {} /\ searchConfiguration.credential # {}
            /\ searchConfiguration' = q
            /\ preferences' = q
            /\ UNCHANGED <<jobs, sent, found>>

clearSearchPreferences ==
    /\ searchConfiguration' = Empty
    /\ preferences' = Empty
    /\ UNCHANGED <<jobs, sent, found>>

(* A new process: the stored profile is built again, or cleared when its   *)
(* credential cannot be read.                                              *)
initialize ==
    /\ jobs' = <<>> /\ found' = {}
    /\ \/ /\ searchConfiguration' = preferences
          /\ UNCHANGED preferences
       \/ /\ preferences.credential # {}
          /\ searchConfiguration' = Empty
          /\ preferences' = Empty
    /\ UNCHANGED sent

-----------------------------------------------------------------------------
(* Jobs.                                                                   *)

NewJob(kind, limit) ==
    [kind |-> kind, limit |-> limit, stage |-> "queued", at |-> "none",
     home |-> "none", pinned |-> "none", credential |-> {}, open |-> FALSE,
     redirects |-> 0]

search ==
    /\ Len(jobs) < MaxJobs
    /\ \E n \in Limits : jobs' = Append(jobs, NewJob("search", n))
    /\ UNCHANGED <<searchConfiguration, preferences, sent, found>>

fetch ==
    /\ Len(jobs) < MaxJobs
    /\ jobs' = Append(jobs, NewJob("fetch", 1))
    /\ UNCHANGED <<searchConfiguration, preferences, sent, found>>

(* future.get runs out: a job that has not begun is dropped, one that has  *)
(* goes on unheard, as it does here when its caller waits.                 *)
job_cancelled ==
    /\ jobs # <<>>
    /\ jobs[Len(jobs)].stage = "queued"
    /\ jobs' = Front(jobs)
    /\ UNCHANGED <<searchConfiguration, preferences, sent, found>>

Running(job) == jobs' = <<job>> \o Tail(jobs)

Ends == jobs' = Tail(jobs)

(* The first URL of a job; the profile is the one of this moment.          *)
job_begins ==
    /\ jobs # <<>> /\ Head(jobs).stage = "queued"
    /\ LET job == Head(jobs)
           c == searchConfiguration
       IN  IF job.kind = "fetch"
           THEN \E h \in Hosts :
                  Running([job EXCEPT !.stage = "results", !.at = h, !.home = h])
           ELSE IF c = Empty THEN Ends
           ELSE Running([job EXCEPT
                  !.stage = IF c.mode = "opensearch" THEN "description" ELSE "results",
                  !.at = c.host, !.home = c.host, !.pinned = c.host,
                  !.credential = c.credential, !.open = c.mode = "opensearch"])
    /\ found' = {} /\ sent' = {}
    /\ UNCHANGED <<searchConfiguration, preferences>>

Requested(job) ==
    sent' = {[credential |-> job.credential, host |-> job.at, home |-> job.home]}

(* fetchSearchResponse and fetchResponse: the request is redirected.  With *)
(* a credential the origin must stay; the number of redirects is bounded.  *)
MayFollow(job, h) ==
    /\ job.redirects < MAX_REDIRECTS
    /\ job.credential # {} => h = job.pinned

(* Mutant: the credential follows any redirect.                            *)
redirected_any ==
    /\ jobs # <<>> /\ Head(jobs).stage # "queued"
    /\ LET job == Head(jobs) IN
       /\ Requested(job)
       /\ \E h \in Hosts :
            IF job.redirects < MAX_REDIRECTS
            THEN Running([job EXCEPT !.at = h, !.redirects = @ + 1])
            ELSE Ends
    /\ UNCHANGED <<searchConfiguration, preferences, found>>

redirected ==
    /\ jobs # <<>> /\ Head(jobs).stage # "queued"
    /\ LET job == Head(jobs) IN
       /\ Requested(job)
       /\ \E h \in Hosts :
            IF MayFollow(job, h)
            THEN Running([job EXCEPT !.at = h, !.redirects = @ + 1])
            ELSE Ends
    /\ UNCHANGED <<searchConfiguration, preferences, found>>

(* The OpenSearch description arrived: it names the URL of the search, a   *)
(* URL of the same origin when there is a credential.                      *)
described ==
    /\ jobs # <<>> /\ Head(jobs).stage = "description"
    /\ LET job == Head(jobs) IN
       /\ Requested(job)
       /\ \E h \in Hosts :
            IF job.credential # {} /\ h # job.at THEN Ends
            ELSE Running([job EXCEPT !.stage = "results", !.at = h,
                                     !.pinned = h, !.redirects = 0])
    /\ UNCHANGED <<searchConfiguration, preferences, found>>

(* A page of results becomes canonical items: those with a public URL,     *)
(* each URL once, in the provider's order, at most `limit` of them.        *)
Kept(items, item) ==
    item.public /\ \A n \in DOMAIN items : items[n].url # item.url

Prefix(page, limit) == SubSeq(page, 1, IF limit < Len(page) THEN limit ELSE Len(page))

(* The items taken from the first n entries.                               *)
Canonical(page, limit) ==
    LET Taken[n \in 0..Len(page)] ==
          IF n = 0 THEN <<>>
          ELSE IF Len(Taken[n - 1]) < limit /\ Kept(Taken[n - 1], page[n])
          THEN Append(Taken[n - 1], page[n])
          ELSE Taken[n - 1]
    IN  Taken[Len(page)]

(* Mutant: unsafe items count against the limit.                           *)
normalizeSearchResults_first(page, limit) == Canonical(Prefix(page, limit), limit)

normalizeSearchResults(page, limit) == Canonical(page, limit)

(* normalizeOpenSearchResults looks at the first `limit` entries only.     *)
normalizeOpenSearchResults(page, limit) ==
    normalizeSearchResults(Prefix(page, limit), limit)

answered ==
    /\ jobs # <<>> /\ Head(jobs).stage = "results"
    /\ LET job == Head(jobs) IN
       /\ Requested(job)
       /\ \/ job.kind = "fetch" /\ UNCHANGED found
          \/ /\ job.kind = "search"
             /\ \E page \in Pages :
                  LET items == IF job.open THEN normalizeOpenSearchResults(page, job.limit)
                                           ELSE normalizeSearchResults(page, job.limit)
                  IN  /\ page # <<>> => items # <<>>
                      /\ found' = {[page |-> page, limit |-> job.limit,
                                    items |-> items, open |-> job.open]}
    /\ Ends
    /\ UNCHANGED <<searchConfiguration, preferences>>

(* Another status, a body over the limit, no usable result, no network.    *)
job_fails ==
    /\ jobs # <<>> /\ Head(jobs).stage # "queued"
    /\ Ends
    /\ UNCHANGED <<searchConfiguration, preferences, sent, found>>

WebNext ==
    \/ configureSearchProfile \/ clearSearchPreferences \/ initialize
    \/ search \/ fetch \/ job_cancelled
    \/ job_begins \/ redirected \/ described \/ answered \/ job_fails

WebSpec == WebInit /\ [][WebNext]_webVars

-----------------------------------------------------------------------------
(* A credential goes only to the origin of the profile its job began with, *)
(* through redirects, OpenSearch discovery and changes of the profile.     *)
CredentialStaysHome ==
    \A r \in sent : r.credential # {} => r.host = r.home

(* The results are exactly the first distinct public entries, in the       *)
(* provider's order, as many as were asked for and exist among those the   *)
(* provider's format admits.                                               *)
ResultsExact ==
    \A f \in found :
        LET seen == IF f.open THEN Prefix(f.page, f.limit) ELSE f.page
            firsts == {n \in DOMAIN seen : seen[n].public /\
                         \A m \in 1 .. n - 1 :
                            seen[m].public => seen[m].url # seen[n].url}
        IN  /\ Len(f.items) = IF f.limit < Cardinality(firsts)
                              THEN f.limit ELSE Cardinality(firsts)
            /\ \A i \in DOMAIN f.items : \E n \in firsts :
                  f.items[i] = seen[n] /\ Cardinality({m \in firsts : m <= n}) = i
=============================================================================
