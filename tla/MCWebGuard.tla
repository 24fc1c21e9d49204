----------------------------- MODULE MCWebGuard -----------------------------
(***************************************************************************)
(* WebGuard with the policy of policy.yaml and its variations in one or    *)
(* two respects, and contents with up to two findings and two models.      *)
(***************************************************************************)
EXTENDS WebGuard, FiniteSets, TLC

CONSTANTS auto, opus, sonnet

MCModels == {auto, opus, sonnet}

(* web_controls, web_model_control, security and models of policy.yaml.    *)
MCShipped ==
    [default |-> auto, alias |-> [m \in MCModels |-> IF m = auto THEN sonnet ELSE m],
     allowed |-> {auto, sonnet, opus}, blocked |-> {},
     route |-> "pii" :> sonnet @@ "review" :> opus @@ "summary" :> NoModel,
     blockStreaming |-> TRUE, blockOn |-> {"secret", "private_key", "sensitive_upload"},
     warnOnPii |-> TRUE, webEnabled |-> TRUE, inspectUploads |-> TRUE, warnOnJailbreak |-> TRUE,
     hosted |-> [enabled |-> TRUE, rewrite |-> TRUE,
                 allowed |-> {{sonnet}}, blocked |-> {{opus}}]]

MCVariations ==
    {MCShipped,
     [MCShipped EXCEPT !.webEnabled = FALSE],
     [MCShipped EXCEPT !.inspectUploads = FALSE],
     [MCShipped EXCEPT !.warnOnJailbreak = FALSE],
     [MCShipped EXCEPT !.warnOnPii = FALSE, !.blockOn = {"private_key"}],
     [MCShipped EXCEPT !.blockOn = @ \cup {"jailbreak"}],
     [MCShipped EXCEPT !.blocked = {opus}],
     [MCShipped EXCEPT !.allowed = {sonnet}, !.route["pii"] = NoModel],
     [MCShipped EXCEPT !.allowed = {}]}

MCPolicies ==
    MCVariations \cup
        {[MCShipped EXCEPT !.hosted.rewrite = FALSE],
         [MCShipped EXCEPT !.hosted.enabled = FALSE],
         [MCShipped EXCEPT !.hosted.allowed = {}],
         [MCShipped EXCEPT !.hosted.blocked = {}]}

MCContents ==
    {c \in [text: BOOLEAN, findings: {s \in SUBSET Findings : Cardinality(s) <= 2},
            local: BOOLEAN, fields: {<<>>} \cup UNION {[1 .. n -> {opus, sonnet}] : n \in 1 .. 2},
            topics: {{}, {"review"}, {"summary"}}] :
        \E k \in Network \cup Dom : Carries(k, c)}

MCOneText == {[text |-> TRUE, findings |-> {"secret"}, local |-> TRUE, fields |-> <<>>, topics |-> {}]}
MCAsShipped == {MCShipped}
=============================================================================
