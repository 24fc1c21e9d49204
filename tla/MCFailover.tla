----------------------------- MODULE MCFailover -----------------------------
(***************************************************************************)
(* Failover over three providers, the first with two models as in          *)
(* policy.yaml.  Either the routing varies: chains of up to two models     *)
(* (repetitions and the model itself included), whole, partial and missing *)
(* fallback orders, and max_attempts from unset to more than any list is   *)
(* long.  Or the rules do: models that are blocked or not allowed and that *)
(* an alias, a route, a chain, a default or a downgrade leads to.          *)
(***************************************************************************)
EXTENDS Failover, FiniteSets, TLC

CONSTANTS opus, sonnet, gpt, gemini, anthropic, openai, google

MCModels     == {opus, sonnet, gpt, gemini}
MCProviders  == {anthropic, openai, google}
MCProviderOf == opus :> anthropic @@ sonnet :> anthropic @@ gpt :> openai @@ gemini :> google

MCDefaults   == anthropic :> sonnet @@ openai :> gpt @@ google :> gemini
MCChains     == UNION {[1 .. n -> MCModels] : n \in 0 .. 2}
MCNoSubstitute == [m \in MCModels |-> NoModel]

MCRules ==
    [default |-> sonnet, alias |-> [m \in MCModels |-> m], allowed |-> {}, blocked |-> {},
     route |-> "pii" :> sonnet @@ "review" :> opus @@ "summary" :> NoModel,
     blockStreaming |-> TRUE, blockOn |-> {"secret", "private_key", "sensitive_upload"},
     warnOnPii |-> TRUE, webEnabled |-> TRUE, inspectUploads |-> TRUE, warnOnJailbreak |-> TRUE,
     hosted |-> [enabled |-> TRUE, rewrite |-> TRUE, allowed |-> {{sonnet}}, blocked |-> {{opus}}]]

MCRoutings ==
    {[rules |-> MCRules, downgrade |-> MCNoSubstitute, enabled |-> e,
      chain |-> [m \in MCModels |-> c], order |-> o, maxAttempts |-> n, default |-> d] :
        e \in BOOLEAN, c \in MCChains, n \in {0, 1, 2, 5},
        o \in {<<anthropic, openai, google>>, <<google, openai, google>>},
        d \in {MCDefaults, [MCDefaults EXCEPT ![openai] = NoModel]}}

(* routing.fallback of policy.yaml for claude-opus-4-8. *)
MCShippedRouting ==
    [rules |-> MCRules, downgrade |-> MCNoSubstitute, enabled |-> TRUE,
     chain |-> [m \in MCModels |-> <<sonnet, gpt, gemini>>],
     order |-> <<anthropic, openai, google>>, maxAttempts |-> 3, default |-> MCDefaults]

MCRuleVariations ==
    {[MCRules EXCEPT !.blocked = b, !.allowed = a, !.route["pii"] = r, !.alias[gpt] = g] :
        b \in SUBSET MCModels, a \in {{}, {sonnet}, {opus, gpt}}, r \in {NoModel, sonnet, gemini},
        g \in {gpt, gemini}}

MCPolicies ==
    MCRoutings \cup
    {[MCShippedRouting EXCEPT !.rules = r, !.downgrade = d] :
        r \in MCRuleVariations,
        d \in {MCNoSubstitute, [m \in MCModels |-> IF m = opus THEN sonnet ELSE gpt]}}

MCRequest(m, fs, ts) ==
    [model |-> m, stream |-> FALSE, topics |-> ts, findings |-> fs, fields |-> <<>>, upload |-> FALSE]

MCRequests ==
    {MCRequest(m, {}, {}) : m \in MCModels \cup {NoModel}} \cup
    {MCRequest(gpt, {"pii"}, {}), MCRequest(gpt, {}, {"review"}), MCRequest(opus, {"secret"}, {})}

MCShipped == {MCShippedRouting}
=============================================================================
