--------------------------- MODULE WebGuardProofs ---------------------------
(***************************************************************************)
(* The safety properties of WebGuard for every policy and every content.   *)
(* Inv says, party by party, what the order of the steps leaves true: what *)
(* the content script has concluded from what, and how the page's call     *)
(* stands to it.                                                           *)
(***************************************************************************)
EXTENDS WebGuard, TLAPS

Rewrite == Decision("allow_with_warning", TRUE)
Waits   == kind \in {"fetch", "xhr"}       \* the page waits for a decision

(* The gateway logged what it decided, and decided once. *)
GatewayInv ==
    /\ guard \in {"idle", "mailed", "calling"} => logged = NoDecision
    /\ guard \in {"answered", "done"} => logged = DecideWeb(policy, Request)
    /\ logged \in {NoDecision, DecideWeb(policy, Request)}

(* The content script's conclusion, and the banner it showed for it. *)
GuardInv ==
    /\ guard \notin {"done", "fallback"} => verdict = NoDecision /\ banner = "none"
    /\ guard = "done" => verdict = logged /\ banner = BannerOf(logged, content.findings)
    /\ guard = "fallback" => IF content.local THEN verdict = Block /\ banner = "block"
                                              ELSE verdict = Allow /\ banner = "none"

(* How far the page is. *)
PageInv ==
    /\ page = "idle" => guard = "idle" /\ by = "nobody"
    /\ page = "reading" => guard = "idle" /\ kind \in Network
    /\ page = "asking" => guard # "idle" /\ kind \in Network
    /\ page = "refused" => Waits /\ guard \in {"done", "fallback"} /\ verdict.decision = "block"

(* Why a call the page waited for left, once it has. *)
LeftInv ==
    /\ Waits /\ page \in {"reading", "asking"} => sent = "no"
    /\ Waits /\ page = "done" =>
        \/ by = "timer"
        \/ by = "unread" /\ guard = "idle"
        \/ by = "hook" /\ guard = "idle" /\ ~content.text
        \/ /\ by = "gateway" /\ guard = "done" /\ verdict.decision # "block"
           /\ sent = IF verdict.rewritten THEN "rewritten" ELSE "original"
        \/ by = "local" /\ guard = "fallback" /\ verdict.decision # "block"
    /\ by \in {"gateway", "local"} => Waits /\ page = "done"

Inv == TypeOK /\ GatewayInv /\ GuardInv /\ PageInv /\ LeftInv

-----------------------------------------------------------------------------
(* The engine has four decisions; decide does not rewrite. *)
LEMMA DecideRange ==
    ASSUME NEW p, NEW q
    PROVE  Decide(p, q) \in {Block, Warn, Allow}
BY DEF Decide

LEMMA DecideWebRange ==
    ASSUME NEW p, NEW q
    PROVE  DecideWeb(p, q) \in {Block, Warn, Allow, Rewrite}
<1>1. Decide(p, q) \in {Block, Warn, Allow}
    BY DecideRange
<1>2. DecideHosted(p.hosted, q.fields) \in {Block, Allow, Rewrite}
    BY DEF DecideHosted, Rewrite
<1>. QED BY <1>1, <1>2 DEF DecideWeb

(* The decisions are told apart by their fields. *)
LEMMA DecisionFields ==
    /\ Block.decision = "block" /\ Block.rewritten = FALSE
    /\ Warn.decision = "allow_with_warning" /\ Warn.rewritten = FALSE
    /\ Allow.decision = "allow" /\ Allow.rewritten = FALSE
    /\ Rewrite.decision = "allow_with_warning" /\ Rewrite.rewritten = TRUE
    /\ NoDecision.decision = "none" /\ NoDecision.rewritten = FALSE
BY DEF Block, Warn, Allow, Rewrite, NoDecision, Decision

(* What decide does not block holds no finding it blocks on. *)
LEMMA DecideFindings ==
    ASSUME NEW p, NEW q, Decide(p, q) # Block
    PROVE  q.findings \cap p.blockOn = {}
BY DEF Decide

(* What the hosted control lets pass without a rewrite names a permitted   *)
(* model.                                                                  *)
LEMMA HostedPermits ==
    ASSUME NEW h, NEW f, DecideHosted(h, f).decision # "block", ~DecideHosted(h, f).rewritten
    PROVE  /\ \A s \in h.blocked : Head(f) \notin s
           /\ h.allowed = {} \/ Head(f) \in UNION h.allowed
<1>1. HostedModelOk(h, Head(f))
    BY DecisionFields DEF DecideHosted, Rewrite
<1>. QED BY <1>1 DEF HostedModelOk

(* A network request that decide_web does not block carries nothing the    *)
(* policy forbids in the body it lets leave.                               *)
LEMMA WebPermits ==
    ASSUME NEW p, NEW c, NEW q, c.fields \in Seq(Models), ~q.upload,
           q.findings = c.findings, q.fields = c.fields,
           DecideWeb(p, q).decision # "block"
    PROVE  ~Forbidden(p, c, IF DecideWeb(p, q).rewritten THEN "rewritten" ELSE "original")
<1>. DEFINE d == DecideWeb(p, q)
<1>. SUFFICES ASSUME p.webEnabled
              PROVE  /\ c.findings \cap p.blockOn = {}
                     /\ p.hosted.enabled /\ c.fields # <<>> /\ ~d.rewritten =>
                            /\ \A s \in p.hosted.blocked : c.fields[1] \notin s
                            /\ p.hosted.allowed = {} \/ c.fields[1] \in UNION p.hosted.allowed
    BY DEF Forbidden
<1>1. Decide(p, q) # Block
    BY DecisionFields DEF DecideWeb
<1>2. c.findings \cap p.blockOn = {}
    BY <1>1, DecideFindings
<1>3. ASSUME p.hosted.enabled, c.fields # <<>>, ~d.rewritten
      PROVE  /\ \A s \in p.hosted.blocked : c.fields[1] \notin s
             /\ p.hosted.allowed = {} \/ c.fields[1] \in UNION p.hosted.allowed
    <2>1. d = DecideHosted(p.hosted, c.fields)
        BY <1>1, <1>3 DEF DecideWeb
    <2>2. Head(c.fields) = c.fields[1]
        BY <1>3
    <2>. QED BY <1>3, <2>1, <2>2, HostedPermits
<1>. QED BY <1>2, <1>3

-----------------------------------------------------------------------------
LEMMA InitInv == Init => Inv
<1>. SUFFICES ASSUME Init PROVE Inv
    OBVIOUS
<1>. USE DEF Init
<1>1. TypeOK
    BY DEF TypeOK
<1>2. GatewayInv /\ GuardInv /\ PageInv /\ LeftInv
    BY DEF GatewayInv, GuardInv, PageInv, LeftInv, Waits
<1>. QED BY <1>1, <1>2 DEF Inv

(* A step that leaves the choice alone leaves the request alone. *)
LEMMA SameRequest ==
    ASSUME UNCHANGED choice
    PROVE  Request' = Request /\ DecideWeb(policy, Request)' = DecideWeb(policy, Request)
<1>1. policy' = policy /\ kind' = kind /\ content' = content
    BY DEF choice
<1>2. Request' = Request
    BY <1>1 DEF Request
<1>. QED BY <1>1, <1>2

(* A step that leaves choice, decisions and banner alone keeps the types   *)
(* if it keeps those of what it changes.                                   *)
LEMMA TypeStep ==
    ASSUME TypeOK, UNCHANGED <<policy, kind, content, logged, verdict, banner>>,
           page' \in {"idle", "reading", "asking", "done", "refused"},
           guard' \in {"idle", "mailed", "calling", "answered", "done", "fallback"},
           sent' \in {"no", "original", "rewritten", "cleared"},
           by' \in {"nobody", "browser", "hook", "unread", "timer", "gateway", "local"},
           page' \in {"idle", "refused"} => sent' = "no"
    PROVE  TypeOK'
<1>1. policy' \in Policies /\ kind' \in Network \cup Dom /\ content' \in Contents
    BY DEF TypeOK
<1>2. logged' \in {NoDecision, Block, Warn, Allow, Decision("allow_with_warning", TRUE)}
    BY DEF TypeOK
<1>3. verdict' \in {NoDecision, logged', Block, Allow}
    BY DEF TypeOK
<1>4. banner' \in {"none", "warn", "block"}
    BY DEF TypeOK
<1>. QED BY <1>1, <1>2, <1>3, <1>4 DEF TypeOK

(* Every step keeps the invariant: one case for each action. *)
LEMMA NextInv == Inv /\ [Next]_vars => Inv'
<1>. SUFFICES ASSUME Inv, [Next]_vars PROVE Inv'
    OBVIOUS
<1>. USE DEF Inv
<1>0. UNCHANGED choice
    BY DEF Next, vars, Call, Dispatch, Hook, Read, ReadFails, Decided, Timeout, Pass,
           Receive, Evaluate, Answer, CallFails, Conclude
<1>a. policy' = policy /\ kind' = kind /\ content' = content
    BY <1>0 DEF choice
<1>b. DecideWeb(policy, Request)' = DecideWeb(policy, Request)
    BY <1>0, SameRequest
<1>c. DecideWeb(policy, Request) \in {Block, Warn, Allow, Rewrite}
    BY DecideWebRange
<1>1. CASE Call
    <2>1. TypeOK'
        BY <1>1, <1>a DEF TypeOK, Call, PageInv
    <2>2. GatewayInv' /\ GuardInv'
        BY <1>1, <1>a, <1>b DEF Call, GatewayInv, GuardInv, BannerOf
    <2>3. PageInv' /\ LeftInv'
        BY <1>1, <1>a DEF Call, PageInv, LeftInv, Waits, TypeOK
    <2>. QED BY <2>1, <2>2, <2>3
<1>2. CASE Dispatch
    <2>1. TypeOK'
        BY <1>2, <1>a DEF TypeOK, Dispatch, PageInv
    <2>2. GatewayInv' /\ GuardInv'
        BY <1>2, <1>a, <1>b DEF Dispatch, GatewayInv, GuardInv, PageInv, BannerOf
    <2>3. PageInv' /\ LeftInv'
        BY <1>2, <1>a DEF Dispatch, PageInv, LeftInv, Waits, Dom
    <2>. QED BY <2>1, <2>2, <2>3
<1>3. CASE Read
    <2>1. TypeOK'
        <3>1. page' \in {"asking", "done"} /\ guard' \in {guard, "mailed"}
            BY <1>3 DEF Read, Pass
        <3>2. logged' = logged /\ verdict' = verdict /\ banner' = banner
            BY <1>3 DEF Read
        <3>3. sent' \in {sent, "original"} /\ by' \in {by, "hook", "unread", "timer"}
            BY <1>3 DEF Read, Pass
        <3>. QED BY <1>a, <3>1, <3>2, <3>3, TypeStep DEF TypeOK
    <2>2. GatewayInv' /\ GuardInv'
        BY <1>3, <1>a, <1>b DEF Read, Pass, GatewayInv, GuardInv, PageInv, BannerOf
    <2>3. PageInv' /\ LeftInv'
        BY <1>3, <1>a DEF Read, Pass, PageInv, LeftInv, Waits, Network
    <2>. QED BY <2>1, <2>2, <2>3
<1>4. CASE ReadFails
    <2>1. TypeOK'
        <3>1. page' = "done" /\ guard' = guard
            BY <1>4 DEF ReadFails, Pass
        <3>2. logged' = logged /\ verdict' = verdict /\ banner' = banner
            BY <1>4 DEF ReadFails
        <3>3. sent' \in {sent, "original"} /\ by' \in {by, "hook", "unread", "timer"}
            BY <1>4 DEF ReadFails, Pass
        <3>. QED BY <1>a, <3>1, <3>2, <3>3, TypeStep DEF TypeOK
    <2>2. GatewayInv' /\ GuardInv'
        BY <1>4, <1>a, <1>b DEF ReadFails, GatewayInv, GuardInv, BannerOf
    <2>3. PageInv' /\ LeftInv'
        BY <1>4, <1>a DEF ReadFails, Pass, PageInv, LeftInv, Waits
    <2>. QED BY <2>1, <2>2, <2>3
<1>5. CASE Decided
    <2>1. guard' = guard /\ logged' = logged /\ verdict' = verdict /\ banner' = banner
        BY <1>5 DEF Decided
    <2>2. TypeOK'
        <3>1. page' \in {"done", "refused"} /\ sent' \in {sent, "original", "rewritten"}
            BY <1>5 DEF Decided, Pass
        <3>2. by' \in {by, "hook", "gateway", "local"}
            BY <1>5 DEF Decided, Pass, TypeOK
        <3>3. page' = "refused" => sent' = "no"
            BY <1>5 DEF Decided, Pass, LeftInv, Waits, PageInv, Network
        <3>. QED BY <1>a, <2>1, <3>1, <3>2, <3>3, TypeStep DEF TypeOK
    <2>3. GatewayInv' /\ GuardInv'
        BY <2>1, <1>a, <1>b DEF GatewayInv, GuardInv, BannerOf
    <2>4. PageInv'
        BY <1>5, <1>a DEF Decided, Pass, PageInv, Waits, Network
    <2>5. LeftInv'
        BY <1>5, <1>a DEF Decided, Pass, PageInv, LeftInv, Waits, Network
    <2>. QED BY <2>2, <2>3, <2>4, <2>5
<1>6. CASE Timeout
    <2>1. TypeOK'
        <3>1. page' = "done" /\ guard' = guard
            BY <1>6 DEF Timeout, Pass
        <3>2. logged' = logged /\ verdict' = verdict /\ banner' = banner
            BY <1>6 DEF Timeout
        <3>3. sent' \in {sent, "original"} /\ by' \in {by, "hook", "unread", "timer"}
            BY <1>6 DEF Timeout, Pass
        <3>. QED BY <1>a, <3>1, <3>2, <3>3, TypeStep DEF TypeOK
    <2>2. GatewayInv' /\ GuardInv'
        BY <1>6, <1>a, <1>b DEF Timeout, GatewayInv, GuardInv, BannerOf
    <2>3. PageInv' /\ LeftInv'
        BY <1>6, <1>a DEF Timeout, Pass, PageInv, LeftInv, Waits
    <2>. QED BY <2>1, <2>2, <2>3
<1>7. CASE Receive
    <2>1. TypeOK'
        <3>1. UNCHANGED <<page, logged, verdict, banner, sent, by>> /\ guard' = "calling"
            BY <1>7 DEF Receive
        <3>. QED BY <1>a, <3>1, TypeStep DEF TypeOK
    <2>2. GatewayInv' /\ GuardInv'
        BY <1>7, <1>a, <1>b DEF Receive, GatewayInv, GuardInv
    <2>3. PageInv' /\ LeftInv'
        BY <1>7, <1>a DEF Receive, PageInv, LeftInv, Waits
    <2>. QED BY <2>1, <2>2, <2>3
<1>8. CASE Evaluate
    <2>1. TypeOK'
        <3>1. verdict = NoDecision
            BY <1>8 DEF Evaluate, GuardInv
        <3>. QED BY <1>8, <1>a, <1>c, <3>1 DEF TypeOK, Evaluate, Rewrite
    <2>2. GatewayInv' /\ GuardInv'
        BY <1>8, <1>a, <1>b DEF Evaluate, GatewayInv, GuardInv
    <2>3. PageInv' /\ LeftInv'
        BY <1>8, <1>a DEF Evaluate, PageInv, LeftInv, Waits
    <2>. QED BY <2>1, <2>2, <2>3
<1>9. CASE Answer
    <2>. USE <1>9 DEF Answer, Conclude
    <2>1. page' = page /\ logged' = logged /\ by' = by /\ verdict' = logged /\ guard' = "done"
        OBVIOUS
    <2>2. kind # "file" => sent' = sent
        OBVIOUS
    <2>3. banner' = BannerOf(logged, content.findings)
        OBVIOUS
    <2>4. sent' \in {sent, "cleared"}
        OBVIOUS
    <2>5. TypeOK'
        BY <2>1, <2>2, <2>3, <2>4, <1>a DEF TypeOK, BannerOf, PageInv, Waits
    <2>6. GatewayInv'
        BY <2>1, <1>b DEF GatewayInv
    <2>7. GuardInv'
        BY <2>1, <2>3, <1>a DEF GuardInv, BannerOf
    <2>8. PageInv' /\ LeftInv'
        BY <2>1, <2>2, <1>a DEF PageInv, LeftInv, Waits
    <2>. QED BY <2>5, <2>6, <2>7, <2>8
<1>10. CASE CallFails
    <2>. USE <1>10 DEF CallFails, Conclude
    <2>1. page' = page /\ logged' = logged /\ by' = by /\ guard' = "fallback"
        OBVIOUS
    <2>2. kind # "file" => sent' = sent
        OBVIOUS
    <2>3. IF content.local THEN verdict' = Block /\ banner' = "block"
                           ELSE verdict' = Allow /\ banner' = "none"
        BY DecisionFields DEF BannerOf
    <2>4. sent' \in {sent, "cleared"}
        OBVIOUS
    <2>5. TypeOK'
        BY <2>1, <2>2, <2>3, <2>4, <1>a DEF TypeOK, PageInv, Waits
    <2>6. GatewayInv'
        BY <2>1, <1>b DEF GatewayInv
    <2>7. GuardInv'
        BY <2>1, <2>3, <1>a DEF GuardInv
    <2>8. PageInv' /\ LeftInv'
        BY <2>1, <2>2, <1>a DEF PageInv, LeftInv, Waits
    <2>. QED BY <2>5, <2>6, <2>7, <2>8
<1>11. CASE UNCHANGED vars
    <2>1. TypeOK'
        <3>1. UNCHANGED <<page, guard, logged, verdict, banner, sent, by>>
            BY <1>11 DEF vars
        <3>. QED BY <1>a, <3>1, TypeStep DEF TypeOK
    <2>2. GatewayInv' /\ GuardInv'
        BY <1>11, <1>a, <1>b DEF vars, GatewayInv, GuardInv, BannerOf
    <2>3. PageInv' /\ LeftInv'
        BY <1>11, <1>a DEF vars, PageInv, LeftInv, Waits
    <2>. QED BY <2>1, <2>2, <2>3
<1>. QED BY <1>1, <1>2, <1>3, <1>4, <1>5, <1>6, <1>7, <1>8, <1>9, <1>10, <1>11 DEF Next, Hook

THEOREM Invariance == Spec => []Inv
BY InitInv, NextInv, PTL DEF Spec

(* Types hold, and a refused call has not left. *)
THEOREM TypeCorrect == Spec => []TypeOK
BY Invariance, PTL DEF Inv

(* What left on the gateway's word carries nothing the policy forbids:     *)
(* decide_web's rules and the hook's obedience together, for any policy.   *)
THEOREM SentIsPermittedAlways == Spec => []SentIsPermitted
<1>1. Inv => SentIsPermitted
    <2>. SUFFICES ASSUME Inv, sent \in {"original", "rewritten"}
                  PROVE  /\ by = "gateway" => ~Forbidden(policy, content, sent)
                         /\ by = "local" => ~content.local
        BY DEF SentIsPermitted
    <2>1. ASSUME by = "gateway"
          PROVE  ~Forbidden(policy, content, sent)
        <3>1. Waits /\ guard = "done" /\ verdict.decision # "block"
            BY <2>1 DEF Inv, LeftInv
        <3>2. sent = IF verdict.rewritten THEN "rewritten" ELSE "original"
            BY <2>1 DEF Inv, LeftInv
        <3>3. verdict = DecideWeb(policy, Request)
            BY <3>1 DEF Inv, GatewayInv, GuardInv
        <3>4. /\ Request.findings = content.findings /\ Request.fields = content.fields
              /\ ~Request.upload
            BY <3>1 DEF Request, Waits
        <3>5. content.fields \in Seq(Models)
            BY WebAssumption DEF Inv, TypeOK, ContentType
        <3>. QED BY <3>1, <3>2, <3>3, <3>4, <3>5, WebPermits
    <2>2. ASSUME by = "local"
          PROVE  ~content.local
        <3>1. guard = "fallback" /\ verdict.decision # "block"
            BY <2>2 DEF Inv, LeftInv
        <3>. QED BY <3>1, DecisionFields DEF Inv, GuardInv
    <2>. QED BY <2>1, <2>2
<1>. QED BY <1>1, Invariance, PTL

(* What left is in the audit trail under the decision it left with, but    *)
(* for the timer, a failed call and an unreadable body.                    *)
THEOREM PassedIsAuditedAlways == Spec => []PassedIsAudited
<1>1. Inv => PassedIsAudited
    <2>. SUFFICES ASSUME Inv, Waits, content.text, sent # "no", by \notin {"timer", "local", "unread"}
                  PROVE  \/ logged \in {Allow, Warn} /\ sent = "original"
                         \/ logged.rewritten /\ sent = "rewritten"
        BY DEF PassedIsAudited, Waits
    <2>1. page = "done"
        BY DEF Inv, TypeOK, LeftInv
    <2>2. /\ by = "gateway" /\ guard = "done" /\ verdict.decision # "block"
          /\ sent = IF verdict.rewritten THEN "rewritten" ELSE "original"
        BY <2>1 DEF Inv, LeftInv
    <2>3. verdict = logged /\ logged \in {Block, Warn, Allow, Rewrite}
        BY <2>2, DecideWebRange DEF Inv, GatewayInv, GuardInv
    <2>. QED BY <2>2, <2>3, DecisionFields
<1>. QED BY <1>1, Invariance, PTL

(* A block announced for a call that left came after its timer. *)
THEOREM LateBlockByTimerAlways == Spec => []LateBlockByTimer
<1>1. Inv => LateBlockByTimer
    <2>. SUFFICES ASSUME Inv, banner = "block", sent \in {"original", "rewritten"}, Waits
                  PROVE  by = "timer"
        BY DEF LateBlockByTimer, Waits
    <2>1. page = "done"
        BY DEF Inv, TypeOK, LeftInv
    <2>2. guard \in {"done", "fallback"}
        BY DEF Inv, GuardInv
    <2>3. ASSUME guard = "done" PROVE verdict.decision = "block"
        BY <2>3 DEF Inv, GuardInv, BannerOf
    <2>4. ASSUME guard = "fallback" PROVE verdict.decision = "block"
        BY <2>4, DecisionFields DEF Inv, GuardInv
    <2>. QED BY <2>1, <2>2, <2>3, <2>4 DEF Inv, LeftInv
<1>. QED BY <1>1, Invariance, PTL

(* A refused call was announced, and on the gateway's or the content       *)
(* script's finding.                                                       *)
THEOREM RefusedIsToldAlways == Spec => []RefusedIsTold
<1>1. Inv => RefusedIsTold
    <2>. SUFFICES ASSUME Inv, page = "refused"
                  PROVE  banner = "block" /\ (logged = Block \/ content.local)
        BY DEF RefusedIsTold
    <2>1. guard \in {"done", "fallback"} /\ verdict.decision = "block"
        BY DEF Inv, PageInv
    <2>2. CASE guard = "done"
        <3>1. verdict = logged /\ banner = BannerOf(logged, content.findings)
            BY <2>2 DEF Inv, GuardInv
        <3>2. logged \in {Block, Warn, Allow, Rewrite}
            BY <2>2, DecideWebRange DEF Inv, GatewayInv
        <3>. QED BY <2>1, <3>1, <3>2, DecisionFields DEF BannerOf
    <2>3. CASE guard = "fallback"
        BY <2>1, <2>3, DecisionFields DEF Inv, GuardInv
    <2>. QED BY <2>1, <2>2, <2>3
<1>. QED BY <1>1, Invariance, PTL

(* decide_web is no weaker than decide, for any policy and request, but    *)
(* for what it does not inspect and for a permitted hosted model.          *)
THEOREM WebReinforcesAlways == Spec => []WebReinforces
<1>1. Inv => WebReinforces
    <2>. DEFINE core == Decide(policy, Request)
                web  == DecideWeb(policy, Request)
    <2>. SUFFICES ASSUME Inv, guard = "answered", policy.webEnabled,
                         Request.upload => policy.inspectUploads,
                         core = Block \/ ~policy.hosted.enabled \/ content.fields = <<>>
                  PROVE  Strength(logged) >= Strength(core)
        BY DEF WebReinforces
    <2>1. logged = web
        BY DEF Inv, GatewayInv
    <2>2. Request.fields = content.fields
        BY DEF Request
    <2>3. web \in {core, Warn} /\ (core = Block => web = Block)
        BY <2>2 DEF DecideWeb
    <2>4. core \in {Block, Warn, Allow}
        BY DecideRange
    <2>5. Strength(Block) = 2 /\ Strength(Warn) = 1 /\ Strength(Allow) = 0
        BY DecisionFields DEF Strength
    <2>. QED BY <2>1, <2>3, <2>4, <2>5
<1>. QED BY <1>1, Invariance, PTL
=============================================================================
