------------------------------ MODULE Failover ------------------------------
(***************************************************************************)
(* One /v1/chat/completions request from decision to answer: decide and    *)
(* resolve_model (PolicyEngine), the downgrade of a user near the budget,  *)
(* the candidates policy.fallback_candidates lists (app/policy.py) and the *)
(* loop of the handler that tries them (app/main.py) through the adapters  *)
(* of app/providers.py.  The refusal of a budget is in module Budget.      *)
(*                                                                         *)
(* Each provider call is an await.  The list is fixed before the first;    *)
(* the status test reads the live policy, which a reload may have changed, *)
(* so any response but a good one may fall on either side.                 *)
(***************************************************************************)
EXTENDS PolicyEngine, SequencesExt

CONSTANTS Providers,
          ProviderOf,     \* provider_for_model
          Policies,       \* the policies considered, see RoutingType
          Requests        \* the requests considered

(* The parts of policy.yaml that routing reads: the rules of decide; the   *)
(* substitute of each model near the budget; whether routing.fallback is   *)
(* enabled, the chain of each model, fallback_order, max_attempts (0: not  *)
(* set) and each provider's default model.                                 *)
RoutingType ==
    [rules: PolicyType, downgrade: [Models -> Models \cup {NoModel}],
     enabled: BOOLEAN, chain: [Models -> Seq(Models)], order: Seq(Providers),
     maxAttempts: Nat, default: [Providers -> Models \cup {NoModel}]]

ASSUME FailoverAssumption ==
    /\ NoModel \notin Models
    /\ ProviderOf \in [Models -> Providers]
    /\ Policies \subseteq RoutingType
    /\ Requests \subseteq RequestType

VARIABLES
    policy,        \* the policy in force when the request is routed
    configured,    \* providers with an API key
    request,
    model,         \* decision.model_used
    downgraded,    \* the reasons of the decision name a downgrade
    candidates,    \* fallback_candidates
    attempts,      \* status of each candidate dealt with so far
    result,        \* index of the candidate in provider_result, 0 for None
    event,         \* decision of the audit event
    billed,        \* history: the attempts a provider charges the organisation for
    pc

given  == <<policy, configured, request>>
chosen == <<given, model, downgraded, candidates>>
vars   == <<chosen, attempts, result, event, billed, pc>>

Candidate(m) == [provider |-> ProviderOf[m], model |-> m]
ProvidersIn(cs) == {c.provider : c \in ToSet(cs)}

(* Mutant of ChainCandidates: repetitions are kept. *)
ChainAsListed(p, m) ==
    LET models == <<m>> \o p.chain[m]
    IN  [i \in DOMAIN models |-> Candidate(models[i])]

(* The model and its chain, each once. *)
ChainCandidates(p, m) ==
    LET models == <<m>> \o p.chain[m]
        upto[i \in 0 .. Len(models)] ==
            IF i = 0 THEN <<>>
            ELSE LET cs == upto[i - 1]
                     c == Candidate(models[i])
                 IN  IF c \in ToSet(cs) THEN cs ELSE Append(cs, c)
    IN  upto[Len(models)]

(* Mutant of WithDefaults: a provider need not have a model. *)
WithAnyDefaults(p, chain) ==
    LET upto[i \in 0 .. Len(p.order)] ==
            IF i = 0 THEN chain
            ELSE LET cs == upto[i - 1]
                     v == p.order[i]
                 IN  IF v \in ProvidersIn(cs) THEN cs
                     ELSE Append(cs, [provider |-> v, model |-> p.default[v]])
    IN  upto[Len(p.order)]

(* The default models of the providers that are not among them yet. *)
WithDefaults(p, chain) ==
    LET upto[i \in 0 .. Len(p.order)] ==
            IF i = 0 THEN chain
            ELSE LET cs == upto[i - 1]
                     v == p.order[i]
                 IN  IF v \in ProvidersIn(cs) \/ p.default[v] = NoModel THEN cs
                     ELSE Append(cs, [provider |-> v, model |-> p.default[v]])
    IN  upto[Len(p.order)]

FallbackCandidates(p, m) ==
    IF ~p.enabled THEN <<Candidate(m)>>
    ELSE LET all == WithDefaults(p, ChainCandidates(p, m))
         IN  IF p.maxAttempts \in 1 .. Len(all) THEN SubSeq(all, 1, p.maxAttempts) ELSE all

Init ==
    /\ policy \in Policies
    /\ configured \in SUBSET Providers
    /\ request \in Requests
    /\ model = NoModel /\ downgraded = FALSE
    /\ candidates = <<>> /\ attempts = <<>> /\ result = 0
    /\ event = "none" /\ billed = {}
    /\ pc = "deciding"

Verdict == Decide(policy.rules, request)

(* 403, and its audit event. *)
Refuse ==
    /\ pc = "deciding"
    /\ Verdict = Block
    /\ event' = "block" /\ pc' = "refused"
    /\ UNCHANGED <<given, model, downgraded, candidates, attempts, result, billed>>

(* The model of the decision, or its substitute if the user has nearly     *)
(* used up the budget, which is for Budget to say; and its candidates.     *)
Route ==
    /\ pc = "deciding"
    /\ Verdict # Block
    /\ LET resolved == ResolveModel(policy.rules, request)
           cheaper  == policy.downgrade[resolved]
       IN  \/ model' = resolved /\ downgraded' = FALSE
           \/ cheaper \notin {resolved, NoModel} /\ model' = cheaper /\ downgraded' = TRUE
    /\ candidates' = FallbackCandidates(policy, model')
    /\ pc' = "trying"
    /\ UNCHANGED <<given, attempts, result, event, billed>>

(* The candidate the loop has come to. *)
Index   == Len(attempts) + 1
Current == candidates[Index]
More    == pc = "trying" /\ Index <= Len(candidates)
Called  == More /\ Current.provider \in configured

Skip ==
    /\ More /\ Current.provider \notin configured
    /\ attempts' = Append(attempts, "skipped")
    /\ UNCHANGED <<chosen, result, event, billed, pc>>

(* No response, or none the adapter can convert: a usage that is not made  *)
(* of numbers, a candidate of Gemini without content.  The provider may    *)
(* have done the work and charge for it.                                   *)
CallRaises ==
    /\ Called
    /\ attempts' = Append(attempts, "raised")
    /\ billed' \in {billed, billed \cup {Index}}
    /\ UNCHANGED <<chosen, result, event, pc>>

(* Mutant of CallReturns: the response is taken and the loop goes on. *)
CallReturnsOn(status) ==
    /\ Called
    /\ attempts' = Append(attempts, status)
    /\ result' = Index
    /\ billed' = IF status = "good" THEN billed \cup {Index} ELSE billed
    /\ UNCHANGED <<chosen, event, pc>>

(* The response is kept whatever its status.  Providers charge for a good  *)
(* one; an error ends the loop unless its status is to be retried.         *)
CallReturns(status) ==
    /\ Called
    /\ attempts' = Append(attempts, status)
    /\ result' = Index
    /\ billed' = IF status = "good" THEN billed \cup {Index} ELSE billed
    /\ pc' = IF status = "retryable" THEN pc ELSE "over"
    /\ UNCHANGED <<chosen, event>>

(* The loop has broken off or run out of candidates.  502 if nothing ever  *)
(* responded: the user is charged nothing.                                 *)
Unavailable ==
    /\ result = 0
    /\ event' = "provider_error" /\ pc' = "unavailable"

(* Else the last response is relayed, charged by its usage, and audited.   *)
Answer ==
    /\ result # 0
    /\ event' = IF candidates[result] # Candidate(model) THEN "fallback" ELSE Verdict.decision
    /\ pc' = "answered"

Finish ==
    /\ pc = "over" \/ (pc = "trying" /\ Index > Len(candidates))
    /\ Unavailable \/ Answer
    /\ UNCHANGED <<chosen, attempts, result, billed>>

Next ==
    \/ Refuse \/ Route \/ Skip \/ CallRaises
    \/ \E status \in {"retryable", "error", "good"} : CallReturns(status)
    \/ Finish

Spec == Init /\ [][Next]_vars

-----------------------------------------------------------------------------
(* Type correctness. *)
TypeOK ==
    /\ policy \in RoutingType /\ configured \subseteq Providers /\ request \in RequestType
    /\ model \in Models \cup {NoModel} /\ downgraded \in BOOLEAN
    /\ \A i \in DOMAIN candidates :
           candidates[i] \in [provider: Providers, model: Models]
    /\ Len(attempts) <= Len(candidates)
    /\ ToSet(attempts) \subseteq {"skipped", "raised", "retryable", "error", "good"}
    /\ result \in 0 .. Len(attempts) /\ billed \subseteq DOMAIN attempts
    /\ event \in {"none", "block", "provider_error", "fallback", "allow", "allow_with_warning"}
    /\ pc \in {"deciding", "trying", "over", "refused", "answered", "unavailable"}

(* What fallback_candidates' docstring says of the list, without its loops: *)
(* the model, its chain, then the defaults of the providers that are left, *)
(* nothing twice, no more than max_attempts.  (The list is not touched     *)
(* afterwards, so it is looked at once, as the loop begins.)               *)
Rank(p, m, c) ==
    LET models == <<m>> \o p.chain[m]
    IN  IF \E i \in DOMAIN models : Candidate(models[i]) = c
        THEN CHOOSE i \in DOMAIN models :
                 Candidate(models[i]) = c /\ \A j \in 1 .. i - 1 : Candidate(models[j]) # c
        ELSE Len(models) +
             (CHOOSE i \in DOMAIN p.order :
                 p.order[i] = c.provider /\ \A j \in 1 .. i - 1 : p.order[j] # c.provider)

Listed(p, m) ==
    LET chain == {Candidate(n) : n \in {m} \cup ToSet(p.chain[m])}
    IN  chain \cup {[provider |-> v, model |-> p.default[v]] :
                        v \in {w \in ToSet(p.order) : p.default[w] # NoModel
                                                       /\ \A c \in chain : c.provider # w}}

CandidatesAsDocumented ==
    pc = "trying" /\ attempts = <<>> =>
        LET listed == IF policy.enabled THEN Listed(policy, model) ELSE {Candidate(model)}
            rank(c) == Rank(policy, model, c)
            cs == ToSet(candidates)
        IN  /\ IsInjective(candidates) /\ cs \subseteq listed
            /\ \A i, j \in DOMAIN candidates : i < j => rank(candidates[i]) < rank(candidates[j])
            /\ \A c \in cs, d \in listed : rank(d) < rank(c) => d \in cs
            /\ Len(candidates) < Cardinality(listed) =>
                   Len(candidates) = policy.maxAttempts /\ policy.enabled

(* The client gets the latest response; a retryable one only after every  *)
(* later candidate was skipped or raised.  502 "No configured or healthy   *)
(* provider could satisfy the request" is said only if every candidate of  *)
(* a configured provider was called and raised.  And what a provider       *)
(* charges for is the answer, for whose usage the user pays, or an attempt *)
(* the audit event lists as raised, for which nobody does: never a second  *)
(* good response.                                                          *)
OutcomeExplained ==
    /\ pc = "answered" =>
        /\ attempts[result] \in {"retryable", "error", "good"}
        /\ \A i \in result + 1 .. Len(attempts) : attempts[i] \in {"skipped", "raised"}
        /\ attempts[result] = "retryable" => Len(attempts) = Len(candidates)
    /\ pc = "unavailable" =>
        \A i \in DOMAIN candidates :
            candidates[i].provider \in configured => i \in DOMAIN attempts /\ attempts[i] = "raised"
    /\ \A i \in billed : attempts[i] = "raised" \/ i = result

(* Neither the fallback chain nor the downgrade asks decide again.  So an  *)
(* answer can come from a blocked model, or one with personal data from    *)
(* another than the confidential_data_model: but then the audit event says *)
(* "fallback", or its reasons name the downgrade.                          *)
SubstituteIsAudited ==
    pc = "answered" /\ event # "fallback" /\ ~downgraded =>
        LET m == candidates[result].model
        IN  /\ m \notin policy.rules.blocked
            /\ "pii" \in request.findings => policy.rules.route["pii"] \in {m, NoModel}

(* "It tries each configured provider/model until one returns a            *)
(* non-retryable response" (docs/PROVIDER_FAILOVER.md): 502 is not given   *)
(* while a configured provider of the chain or the fallback order was      *)
(* never called.                                                           *)
EveryConfiguredProviderTried ==
    pc = "unavailable" /\ policy.enabled =>
        \A c \in Listed(policy, model) :
            c.provider \in configured =>
                \E i \in DOMAIN candidates : candidates[i] = c /\ attempts[i] = "raised"

=============================================================================
