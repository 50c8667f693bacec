------------------------------ MODULE Browser -------------------------------
(***************************************************************************)
(* The browser session of NtdBrowserPlatform.java and the two adapters in  *)
(* front of it (lib.rs of ntd-android-bridge).  A caller posts a closure   *)
(* to the main thread and waits on a latch with a timeout; the closure     *)
(* installs a WebViewClient and starts a load or a script, whose callbacks *)
(* complete the call later.  A timeout gives the caller an error and the   *)
(* BUSY flag back, and cancels nothing: the closure and the callbacks of a *)
(* call that was given up still run, on the WebView of its successors.     *)
(*                                                                         *)
(* A URL is a model value with an origin.  What the page and the engine do *)
(* (loads, redirects, further navigations, several finish events) is a     *)
(* choice.  A receipt is the call it names: operation, target and value.   *)
(***************************************************************************)
EXTENDS Integers, Sequences, FiniteSets

CONSTANTS
    Urls,              \* the public https URLs, all that validation admits
    Origin,            \* their origins
    MaxBrowserCalls,   \* bound on the calls
    MaxNavigations     \* bound on what pages navigate to by themselves

ASSUME BrowserAssumption ==
    /\ DOMAIN Origin = Urls
    /\ MaxBrowserCalls \in Nat /\ MaxNavigations \in Nat

VARIABLES
    busy,          \* BUSY
    calls,         \* the calls so far, the closure's captured state in each
    posted,        \* the main thread's queue: closures not yet run
    view,          \* webView: {} or [page, loading, finishing, client]
    prefs,         \* last-verified-url, {} when absent
    pinnedBy,      \* history: the origin pinned by the call that saved it
    navigations    \* how often a page navigated

browserVars == <<busy, calls, posted, view, prefs, pinnedBy, navigations>>

LoadOps == {"observe", "navigate"}
ScriptOps == {"click", "set_value", "submit"}

BrowserInit ==
    /\ busy = FALSE
    /\ calls = <<>>
    /\ posted = <<>>
    /\ view = {}
    /\ prefs = {} /\ pinnedBy = {}
    /\ navigations = 0

-----------------------------------------------------------------------------
(* The caller's thread.                                                    *)

(* A call that gets past its checks.  `origin` is the pinned origin, {}    *)
(* until it is known; `phase` what its callbacks wait for.                 *)
Call(op, target, origin) ==
    [op |-> op, target |-> target, origin |-> origin, phase |-> "posted",
     seen |-> {}, completed |-> FALSE, ok |-> FALSE, url |-> {}, answer |-> "none"]

Enter(call) ==
    /\ ~busy
    /\ Len(calls) < MaxBrowserCalls
    /\ busy' = TRUE
    /\ calls' = Append(calls, call)
    /\ posted' = Append(posted, Len(calls) + 1)
    /\ UNCHANGED <<view, prefs, pinnedBy, navigations>>

observe == \E u \in Urls : Enter(Call("observe", u, {Origin[u]}))

observe_session == \E u \in prefs : Enter(Call("observe", u, {Origin[u]}))

(* The stored location is no longer a public https URL: it is removed and  *)
(* the call fails before it posts anything.                                *)
observe_session_invalid ==
    /\ ~busy
    /\ prefs # {}
    /\ prefs' = {} /\ pinnedBy' = {}
    /\ UNCHANGED <<busy, calls, posted, view, navigations>>

interact_navigate == \E u \in Urls : Enter(Call("navigate", u, {Origin[u]}))

interact ==
    /\ view # {}
    /\ \E op \in ScriptOps : Enter(Call(op, op, {}))

Unanswered == {c \in DOMAIN calls : calls[c].answer = "none"}

Answer(c, answer) ==
    /\ calls' = [calls EXCEPT ![c].answer = answer]
    /\ busy' = FALSE
    /\ UNCHANGED <<posted, view, prefs, pinnedBy, navigations>>

call_returns ==
    \E c \in Unanswered :
        /\ calls[c].completed
        /\ Answer(c, IF calls[c].ok THEN "ok" ELSE "error")

(* Mutant: a call that is given up keeps the session.                      *)
call_times_out_busy ==
    \E c \in Unanswered :
        /\ ~calls[c].completed
        /\ calls' = [calls EXCEPT ![c].answer = "error"]
        /\ UNCHANGED <<busy, posted, view, prefs, pinnedBy, navigations>>

call_times_out ==
    \E c \in Unanswered : ~calls[c].completed /\ Answer(c, "error")

-----------------------------------------------------------------------------
(* The main thread.                                                        *)

(* finish: only the first completion counts.                               *)
finish(cs, c, ok, url) ==
    IF cs[c].completed THEN cs
    ELSE [cs EXCEPT ![c].completed = TRUE, ![c].ok = ok, ![c].url = url]

Fail(cs, c) == finish(cs, c, FALSE, {})

View == CHOOSE v \in view : TRUE

NoView == [page |-> {}, loading |-> {}, finishing |-> {}, client |-> 0]

(* performObserve, and performInteract of a navigation: the load of what   *)
(* is on its way stops, but a finish event of it may be under way already. *)
(* The WebView may be missing on the device, and the URL of a navigation,  *)
(* validated only here, refused.                                           *)
perform_load ==
    /\ posted # <<>>
    /\ LET c == Head(posted)
           v == IF view = {} THEN NoView ELSE View
       IN  /\ calls[c].op \in LoadOps
           /\ \/ /\ view' = {[v EXCEPT !.client = c, !.loading = {calls[c].target}]}
                 /\ calls' = [calls EXCEPT ![c].phase = "load"]
              \/ calls' = Fail(calls, c) /\ UNCHANGED view
    /\ posted' = Tail(posted)
    /\ UNCHANGED <<busy, prefs, pinnedBy, navigations>>

(* performInteract of a script: without a page whose URL passes validation *)
(* it fails.                                                               *)
perform_script ==
    /\ posted # <<>>
    /\ LET c == Head(posted) IN
       /\ calls[c].op \in ScriptOps
       /\ \/ calls' = Fail(calls, c) /\ UNCHANGED view
          \/ /\ view # {} /\ View.page # {}
             /\ view' = {[View EXCEPT !.client = c]}
             /\ calls' = [calls EXCEPT ![c].phase = "script",
                                       ![c].origin = {Origin[u] : u \in View.page}]
    /\ posted' = Tail(posted)
    /\ UNCHANGED <<busy, prefs, pinnedBy, navigations>>

SameOrigin(c, u) == Origin[u] \in calls[c].origin

(* persistVerifiedSessionUrl and the report: the URL is validated again,   *)
(* which may fail; a commit that fails leaves the new location to be read  *)
(* all the same, and the call an error.                                    *)
Verified(cs, c, u) ==
    \/ /\ calls' = finish(cs, c, TRUE, {u}) \/ calls' = Fail(cs, c)
       /\ prefs' = {u} /\ pinnedBy' = calls[c].origin
    \/ /\ calls' = Fail(cs, c)
       /\ UNCHANGED <<prefs, pinnedBy>>

(* Mutant: the origin of the finished page is not compared.                *)
onPageFinished_any_origin ==
    \E v \in view : \E u \in v.finishing :
        LET c == v.client IN
        /\ view' = {[v EXCEPT !.finishing = @ \ {u}]}
        /\ CASE calls[c].completed \/ calls[c].op \in {"click", "set_value"} ->
                  UNCHANGED <<calls, prefs, pinnedBy>>
             [] calls[c].op = "observe" /\ ~calls[c].completed ->
                  /\ calls' = [calls EXCEPT ![c].phase = "script", ![c].seen = {u}]
                  /\ UNCHANGED <<prefs, pinnedBy>>
             [] OTHER -> Verified(calls, c, u)
        /\ UNCHANGED <<busy, posted, navigations>>

(* A finish event reaches the client of the moment.  An observation now    *)
(* reads the page; a navigation or a submission is complete.               *)
onPageFinished ==
    \E v \in view : \E u \in v.finishing :
        LET c == v.client IN
        /\ view' = {[v EXCEPT !.finishing = @ \ {u}]}
        /\ CASE calls[c].completed \/ calls[c].op \in {"click", "set_value"} ->
                  UNCHANGED <<calls, prefs, pinnedBy>>
             [] ~calls[c].completed /\ calls[c].op \in {"observe", "navigate", "submit"}
                    /\ ~SameOrigin(c, u) ->
                  /\ calls' = Fail(calls, c)
                  /\ UNCHANGED <<prefs, pinnedBy>>
             [] ~calls[c].completed /\ calls[c].op = "observe" /\ SameOrigin(c, u) ->
                  /\ calls' = [calls EXCEPT ![c].phase = "script", ![c].seen = {u}]
                  /\ UNCHANGED <<prefs, pinnedBy>>
             [] OTHER -> Verified(calls, c, u)
        /\ UNCHANGED <<busy, posted, navigations>>

(* The callback of the observation's script: the page may have changed.    *)
observed ==
    \E c \in DOMAIN calls :
        /\ view # {}
        /\ calls[c].op = "observe" /\ calls[c].phase = "script"
        /\ ~calls[c].completed
        /\ IF View.page = calls[c].seen
           THEN \E u \in View.page : Verified(calls, c, u)
           ELSE calls' = Fail(calls, c) /\ UNCHANGED <<prefs, pinnedBy>>
        /\ UNCHANGED <<busy, posted, view, navigations>>

(* The script of an interaction runs on the page of the moment: no unique  *)
(* target, a click that waits to settle, a value that is read back, a      *)
(* form whose submission the page carries out by itself.                   *)
script_runs ==
    \E c \in DOMAIN calls :
        /\ view # {}
        /\ calls[c].op \in ScriptOps /\ calls[c].phase = "script"
        /\ \/ calls' = [Fail(calls, c) EXCEPT ![c].phase = "end"]
           \/ calls' = [calls EXCEPT
                ![c].phase = IF @ = "script" /\ calls[c].op = "submit"
                             THEN "submitted" ELSE "settle",
                ![c].seen = View.page]
        /\ UNCHANGED <<busy, posted, view, prefs, pinnedBy, navigations>>

(* The end of an interaction.  That of a click, which ran after a delay,   *)
(* does not look whether the call is complete already.                     *)
finishInteraction ==
    \E c \in DOMAIN calls :
        /\ view # {}
        /\ calls[c].phase = "settle"
        /\ calls[c].op = "set_value" => ~calls[c].completed
        /\ LET ended == [calls EXCEPT ![c].phase = "end"] IN
           \/ \E u \in View.page : SameOrigin(c, u) /\ Verified(ended, c, u)
           \/ /\ \A u \in View.page : ~SameOrigin(c, u)
              /\ calls' = Fail(ended, c)
              /\ UNCHANGED <<prefs, pinnedBy>>
        /\ UNCHANGED <<busy, posted, view, navigations>>

(* External: the page, a script or a redirect asks for another URL.        *)
(* GuardedClient refuses another origin in shouldOverrideUrlLoading, which *)
(* the engine does not ask about every request, and in onPageStarted as    *)
(* long as its call is not complete.                                       *)
main_frame_request ==
    /\ navigations < MaxNavigations
    /\ navigations' = navigations + 1
    /\ \E v \in view, u \in Urls :
         LET c == v.client IN
         /\ v.page \cup v.loading # {}
         /\ \/ /\ ~SameOrigin(c, u)
               /\ calls' = Fail(calls, c)
               /\ view' = {[v EXCEPT !.loading = {}]}
            \/ /\ SameOrigin(c, u) \/ calls[c].completed
               /\ view' = {[v EXCEPT !.loading = {u}]}
               /\ UNCHANGED calls
    /\ UNCHANGED <<busy, posted, prefs, pinnedBy>>

(* External: a load arrives, or fails (onReceivedError, also of TLS).      *)
page_loaded ==
    \E v \in view : \E u \in v.loading :
        /\ view' = {[v EXCEPT !.page = {u}, !.loading = {}, !.finishing = {u}]}
        /\ UNCHANGED <<busy, calls, posted, prefs, pinnedBy, navigations>>

onReceivedError ==
    \E v \in view :
        /\ v.loading # {}
        /\ view' = {[v EXCEPT !.loading = {}]}
        /\ calls' = Fail(calls, v.client)
        /\ UNCHANGED <<busy, posted, prefs, pinnedBy, navigations>>

(* The process ends: the preferences remain.                               *)
browser_restart ==
    /\ calls # <<>>
    /\ busy' = FALSE /\ posted' = <<>> /\ view' = {} /\ calls' = <<>>
    /\ UNCHANGED <<prefs, pinnedBy, navigations>>

BrowserNext ==
    \/ observe \/ observe_session \/ observe_session_invalid \/ interact_navigate \/ interact
    \/ call_returns \/ call_times_out
    \/ perform_load \/ perform_script
    \/ onPageFinished \/ observed \/ script_runs \/ finishInteraction
    \/ main_frame_request \/ page_loaded \/ onReceivedError
    \/ browser_restart

(* A caller waits at most OPERATION_TIMEOUT_SECONDS.                       *)
BrowserFairness == WF_browserVars(call_returns \/ call_times_out)

BrowserSpec == BrowserInit /\ [][BrowserNext]_browserVars /\ BrowserFairness

-----------------------------------------------------------------------------
(* What a call reports has the origin that this call pinned, whatever late *)
(* events of earlier calls reach its client; and the location that a later *)
(* session resumes has the origin pinned by the call that saved it, also   *)
(* when that call had failed or been given up, and after a restart.        *)
EvidenceOrigin ==
    /\ \A u \in prefs : Origin[u] \in pinnedBy
    /\ \A c \in DOMAIN calls : \A u \in calls[c].url :
          /\ Origin[u] \in calls[c].origin
          /\ calls[c].op \in LoadOps => Origin[u] = Origin[calls[c].target]

(* A submission is reported as done only after its form was found and      *)
(* submitted.                                                              *)
SubmitOnlyAfterForm ==
    \A c \in DOMAIN calls :
        calls[c].op = "submit" /\ calls[c].answer = "ok"
            => calls[c].phase = "submitted"

(* A caller always gets an answer, and the session is then free again.     *)
BrowserFreed == busy ~> ~busy
=============================================================================
