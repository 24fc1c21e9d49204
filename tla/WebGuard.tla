------------------------------ MODULE WebGuard ------------------------------
(***************************************************************************)
(* One interaction of a Claude.ai page with the browser extension: a call  *)
(* of fetch, XMLHttpRequest.send or sendBeacon, which extension/           *)
(* page_hook.js has replaced, or a DOM event extension/content.js listens  *)
(* to.  Three parties work on it, each at its own pace: the page with its  *)
(* timer, the content script, and the gateway's evaluate_web_event         *)
(* (app/main.py).  Page and content script exchange window messages.       *)
(***************************************************************************)
EXTENDS PolicyEngine

CONSTANTS Policies,      \* the policies considered
          AutoSecure,    \* the model evaluate_web_event assumes
          Contents       \* what the interaction may carry, see ContentType

Network == {"fetch", "xhr", "beacon"}
Dom     == {"paste", "submit", "drop", "file"}

(* text: is there a text to inspect?  local: does localScan or             *)
(* fileNameFindings match?                                                 *)
ContentType ==
    [text: BOOLEAN, findings: SUBSET Findings, local: BOOLEAN,
     fields: Seq(Models), topics: SUBSET Topics]

ASSUME WebAssumption ==
    /\ NoModel \notin Models /\ AutoSecure \in Models
    /\ Policies \subseteq PolicyType
    /\ Contents \subseteq ContentType

VARIABLES
    policy, kind, content,
    page,       \* the page hook
    guard,      \* the content script's evaluateWebEvent
    logged,     \* decision of the gateway's audit event, NoDecision if there is none
    verdict,    \* what evaluateWebEvent returned
    banner,     \* the banner shown
    sent,       \* did it take place: the request leave, the paste happen?
    by          \* history: on whose word

choice == <<policy, kind, content>>
vars   == <<choice, page, guard, logged, verdict, banner, sent, by>>

NoDecision == Decision("none", FALSE)

(* File names are found in uploads only, models in request bodies.         *)
Carries(k, c) ==
    /\ k \in {"drop", "file"} \/ "sensitive_upload" \notin c.findings
    /\ k \in Network \/ c.fields = <<>>
    /\ c.text \/ (c.fields = <<>> /\ c.findings \subseteq {"sensitive_upload"})
    /\ k = "file" => ~c.text
    /\ c.local => c.findings # {}

Init ==
    /\ policy \in Policies /\ kind \in Network \cup Dom
    /\ content \in {c \in Contents : Carries(kind, c)}
    /\ page = "idle" /\ guard = "idle"
    /\ logged = NoDecision /\ verdict = NoDecision
    /\ banner = "none" /\ sent = "no" /\ by = "nobody"

(* The hook begins to read the body; a beacon does not wait for that.      *)
Call ==
    /\ page = "idle" /\ kind \in Network
    /\ page' = "reading"
    /\ IF kind = "beacon" THEN sent' = "original" /\ by' = "hook" ELSE UNCHANGED <<sent, by>>
    /\ UNCHANGED <<choice, guard, logged, verdict, banner>>

(* A handler starts evaluateWebEvent and awaits it, and the browser goes   *)
(* on with the event.  A short text is not evaluated.                      *)
Dispatch ==
    /\ page = "idle" /\ kind \in Dom
    /\ page' = "done"
    /\ guard' = IF content.text \/ kind \in {"drop", "file"} THEN "calling" ELSE guard
    /\ sent' = "original" /\ by' = "browser"
    /\ UNCHANGED <<choice, logged, verdict, banner>>

(* The hook is done with the call, and lets it pass on the word of w. *)
Pass(body, w) ==
    /\ page' = "done"
    /\ IF kind = "beacon" THEN UNCHANGED <<sent, by>> ELSE sent' = body /\ by' = w

(* Mutant of Read: only bodies that name a model are inspected. *)
ReadModelCarriers ==
    /\ page = "reading"
    /\ IF content.fields # <<>>
       THEN page' = "asking" /\ guard' = "mailed" /\ UNCHANGED <<sent, by>>
       ELSE Pass("original", "hook") /\ UNCHANGED guard
    /\ UNCHANGED <<choice, logged, verdict, banner>>

(* The body is read: a text makes the hook ask for a decision and set a    *)
(* timer.                                                                  *)
Read ==
    /\ page = "reading"
    /\ IF content.text
       THEN page' = "asking" /\ guard' = "mailed" /\ UNCHANGED <<sent, by>>
       ELSE Pass("original", "hook") /\ UNCHANGED guard
    /\ UNCHANGED <<choice, logged, verdict, banner>>

(* It cannot be read, and counts as empty. *)
ReadFails ==
    /\ page = "reading" /\ content.text
    /\ Pass("original", "unread")
    /\ UNCHANGED <<choice, guard, logged, verdict, banner>>

(* The content script receives the hook's message. *)
Receive ==
    /\ guard = "mailed"
    /\ guard' = "calling"
    /\ UNCHANGED <<choice, page, logged, verdict, banner, sent, by>>

Request ==
    [model |-> AutoSecure, stream |-> FALSE, topics |-> content.topics,
     findings |-> content.findings, fields |-> content.fields, upload |-> kind \in {"drop", "file"}]

(* The gateway decides and logs. *)
Evaluate ==
    /\ guard = "calling"
    /\ logged' = DecideWeb(policy, Request)
    /\ guard' = "answered"
    /\ UNCHANGED <<choice, page, verdict, banner, sent, by>>

(* evaluateWebEvent returns d with the given findings: its caller shows a  *)
(* banner, calls preventDefault for an event that is over by then, clears  *)
(* a file input, and posts the decision to the hook.                       *)
BannerOf(d, findings) ==
    IF d.decision = "block" THEN "block"
    ELSE IF (findings # {} \/ d.decision = "allow_with_warning") /\ kind \notin {"drop", "file"}
         THEN "warn" ELSE "none"

(* Mutant of Conclude: the banner of a request waits for the next one. *)
ConcludeQuietly(d, findings) ==
    /\ verdict' = d
    /\ banner' = IF kind \in Network THEN banner ELSE BannerOf(d, findings)
    /\ sent' = IF kind = "file" /\ d.decision = "block" THEN "cleared" ELSE sent
    /\ UNCHANGED <<choice, page, logged, by>>

Conclude(d, findings) ==
    /\ verdict' = d
    /\ banner' = BannerOf(d, findings)
    /\ sent' = IF kind = "file" /\ d.decision = "block" THEN "cleared" ELSE sent
    /\ UNCHANGED <<choice, page, logged, by>>

Answer ==
    /\ guard = "answered" /\ guard' = "done"
    /\ Conclude(logged, content.findings)

(* The call raises, before or after the gateway decided: a decision on     *)
(* local findings.                                                         *)
CallFails ==
    /\ guard \in {"calling", "answered"} /\ guard' = "fallback"
    /\ IF content.local THEN Conclude(Block, content.findings) ELSE Conclude(Allow, {})

(* Mutants of Decided: XMLHttpRequest does not look for a block; it lacks  *)
(* the return after its abort event.                                       *)
DecidedFetchOnly ==
    /\ page = "asking" /\ guard \in {"done", "fallback"}
    /\ IF verdict.decision = "block" /\ kind = "fetch"
       THEN page' = "refused" /\ UNCHANGED <<sent, by>>
       ELSE Pass(IF verdict.rewritten THEN "rewritten" ELSE "original",
                 IF guard = "done" THEN "gateway" ELSE "local")
    /\ UNCHANGED <<choice, guard, logged, verdict, banner>>

DecidedOnwards ==
    /\ page = "asking" /\ guard \in {"done", "fallback"}
    /\ IF verdict.decision = "block" /\ kind # "beacon"
       THEN /\ page' = "refused"
            /\ IF kind = "xhr" THEN sent' = "original" /\ by' = "gateway" ELSE UNCHANGED <<sent, by>>
       ELSE Pass(IF verdict.rewritten THEN "rewritten" ELSE "original",
                 IF guard = "done" THEN "gateway" ELSE "local")
    /\ UNCHANGED <<choice, guard, logged, verdict, banner>>

(* The hook receives the decision. *)
Decided ==
    /\ page = "asking" /\ guard \in {"done", "fallback"}
    /\ IF verdict.decision = "block" /\ kind # "beacon"
       THEN page' = "refused" /\ UNCHANGED <<sent, by>>
       ELSE Pass(IF verdict.rewritten THEN "rewritten" ELSE "original",
                 IF guard = "done" THEN "gateway" ELSE "local")
    /\ UNCHANGED <<choice, guard, logged, verdict, banner>>

(* Mutant of Timeout: the timer is fetch's. *)
TimeoutOfFetch ==
    /\ page = "asking" /\ kind = "fetch"
    /\ Pass("original", "timer")
    /\ UNCHANGED <<choice, guard, logged, verdict, banner>>

(* Its timer comes first; the decision will be ignored. *)
Timeout ==
    /\ page = "asking"
    /\ Pass("original", "timer")
    /\ UNCHANGED <<choice, guard, logged, verdict, banner>>

Hook == Read \/ ReadFails \/ Decided \/ Timeout

Next ==
    \/ Call \/ Dispatch
    \/ Hook
    \/ Receive \/ Evaluate \/ Answer \/ CallFails

Spec == Init /\ [][Next]_vars

(* The browser runs the page's timers.  Nothing obliges the gateway to     *)
(* answer, nor the content script, whose call has no timeout.              *)
FairSpec == Spec /\ WF_vars(Hook)

-----------------------------------------------------------------------------
(* Type correctness; a call that was refused has not left. *)
TypeOK ==
    /\ policy \in Policies /\ kind \in Network \cup Dom /\ content \in Contents
    /\ page \in {"idle", "reading", "asking", "done", "refused"}
    /\ guard \in {"idle", "mailed", "calling", "answered", "done", "fallback"}
    /\ logged \in {NoDecision, Block, Warn, Allow, Decision("allow_with_warning", TRUE)}
    /\ verdict \in {NoDecision, logged, Block, Allow}
    /\ banner \in {"none", "warn", "block"}
    /\ sent \in {"no", "original", "rewritten", "cleared"}
    /\ by \in {"nobody", "browser", "hook", "unread", "timer", "gateway", "local"}
    /\ page \in {"idle", "refused"} => sent = "no"

(* What a policy forbids to leave, without the cases of decide_web: a      *)
(* finding it blocks on; or a body whose first model is not a permitted    *)
(* hosted model, unless it was rewritten.                                  *)
Forbidden(p, c, body) ==
    /\ p.webEnabled
    /\ \/ c.findings \cap p.blockOn # {}
       \/ /\ p.hosted.enabled /\ c.fields # <<>> /\ body = "original"
          /\ \/ \E s \in p.hosted.blocked : c.fields[1] \in s
             \/ p.hosted.allowed # {} /\ c.fields[1] \notin UNION p.hosted.allowed

(* A fetch or XMLHttpRequest that leaves on the gateway's word carries     *)
(* nothing the policy forbids, and one that leaves on the content script's *)
(* nothing it found itself: the hook applies the decisions it gets.        *)
SentIsPermitted ==
    sent \in {"original", "rewritten"} =>
        /\ by = "gateway" => ~Forbidden(policy, content, sent)
        /\ by = "local" => ~content.local

(* A fetch or XMLHttpRequest with a text that left is in the audit trail   *)
(* under the decision it left with; it may be missing there, or be there   *)
(* under another decision, only if the timer or the call of the gateway    *)
(* failed it or its body could not be read.                                *)
PassedIsAudited ==
    kind \in {"fetch", "xhr"} /\ content.text /\ sent # "no" =>
        \/ by \in {"timer", "local", "unread"}
        \/ logged \in {Allow, Warn} /\ sent = "original"
        \/ logged.rewritten /\ sent = "rewritten"

(* "Blocked Claude.ai web request" is said of a fetch or XMLHttpRequest    *)
(* that has left only if the timer had passed.                             *)
LateBlockByTimer ==
    banner = "block" /\ sent \in {"original", "rewritten"} /\ kind \in {"fetch", "xhr"} => by = "timer"

(* A call that is refused to the page was announced to the user, and for a *)
(* reason: the gateway's decision or a local finding.                      *)
RefusedIsTold ==
    page = "refused" => banner = "block" /\ (logged = Block \/ content.local)

(* decide_web "reuses core DLP/model policy": it is no weaker than decide, *)
(* except for what is not to be inspected, and for a body whose hosted     *)
(* model is permitted, which loses decide's warning.                       *)
Strength(d) == IF d.decision = "block" THEN 2 ELSE IF d.decision = "allow_with_warning" THEN 1 ELSE 0
WebReinforces ==
    guard = "answered" /\ policy.webEnabled /\ (Request.upload => policy.inspectUploads) =>
        \/ Strength(logged) >= Strength(Decide(policy, Request))
        \/ Decide(policy, Request) # Block /\ policy.hosted.enabled /\ content.fields # <<>>

(* Whatever becomes of gateway and content script, the page gets an answer *)
(* to every call: it leaves or is refused.                                 *)
CallSettles == (page = "reading") ~> (page \in {"done", "refused"})

(* "AISecurityControlPlane blocked Claude.ai paste" (content.js): what the *)
(* user is told was blocked did not happen.                                *)
BlockedDidNotHappen == banner = "block" => sent \in {"no", "cleared"}
=============================================================================
