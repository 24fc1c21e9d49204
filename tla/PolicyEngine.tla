---------------------------- MODULE PolicyEngine ----------------------------
(***************************************************************************)
(* The decisions of app/policy.py on one request, as functions of a policy *)
(* and a request: resolve_model, decide and decide_web.  The reasons they  *)
(* give are left out, and with them the order of rules that only choose    *)
(* between reasons.                                                        *)
(***************************************************************************)
EXTENDS Naturals, Sequences

CONSTANTS Models,    \* names of models and aliases
          NoModel    \* an entry that is not set

(* What scanners.py and filename_findings tell decide apart: credentials   *)
(* and tokens are "secret", addresses, cards and numbers "pii".            *)
Findings == {"secret", "private_key", "sensitive_upload", "pii", "jailbreak"}
Topics   == {"review", "summary"}

(* The parts of policy.yaml the decisions read.  A pattern of a hosted     *)
(* model is the set of the names it occurs in.                             *)
PolicyType ==
    [default: Models, alias: [Models -> Models], allowed: SUBSET Models, blocked: SUBSET Models,
     route: [Topics \cup {"pii"} -> Models \cup {NoModel}],
     blockStreaming: BOOLEAN, blockOn: SUBSET (Findings \ {"pii"}), warnOnPii: BOOLEAN,
     webEnabled: BOOLEAN, inspectUploads: BOOLEAN, warnOnJailbreak: BOOLEAN,
     hosted: [enabled: BOOLEAN, rewrite: BOOLEAN,
              allowed: SUBSET SUBSET Models, blocked: SUBSET SUBSET Models]]

(* A request: fields are the models a JSON body names, in document order,  *)
(* none where the body is not JSON.                                        *)
RequestType ==
    [model: Models \cup {NoModel}, stream: BOOLEAN, topics: SUBSET Topics,
     findings: SUBSET Findings, fields: Seq(Models), upload: BOOLEAN]

Decision(d, rewritten) == [decision |-> d, rewritten |-> rewritten]
Block == Decision("block", FALSE)
Warn  == Decision("allow_with_warning", FALSE)
Allow == Decision("allow", FALSE)

RequestedModel(p, q) == IF q.model = NoModel THEN p.default ELSE q.model

ResolveModel(p, q) ==
    LET resolved  == p.alias[RequestedModel(p, q)]
        Routed(t) == IF p.route[t] = NoModel THEN resolved ELSE p.route[t]
    IN  IF "pii" \in q.findings THEN Routed("pii")
        ELSE IF "review" \in q.topics THEN Routed("review")
        ELSE IF "summary" \in q.topics /\ q.findings = {} THEN Routed("summary")
        ELSE resolved

(* Mutant of ModelRefused: routing and aliases are not looked through. *)
ModelRefusedByName(p, q) ==
    LET name == RequestedModel(p, q)
    IN  name \in p.blocked \/ (p.allowed # {} /\ name \notin p.allowed)

ModelRefused(p, q) ==
    LET names == {RequestedModel(p, q), ResolveModel(p, q)}
    IN  \/ names \cap p.blocked # {}
        \/ p.allowed # {} /\ names \cap p.allowed = {}

Decide(p, q) ==
    IF \/ p.blockStreaming /\ q.stream
       \/ ModelRefused(p, q)
       \/ q.findings \cap p.blockOn # {}
    THEN Block
    ELSE IF "pii" \in q.findings /\ p.warnOnPii THEN Warn ELSE Allow

HostedModelOk(h, m) ==
    /\ \A s \in h.blocked : m \notin s
    /\ h.allowed = {} \/ \E s \in h.allowed : m \in s

(* _evaluate_hosted_model_request on a body that names models: the first   *)
(* of them decides, and a rewrite replaces them all.                       *)
DecideHosted(h, fields) ==
    IF HostedModelOk(h, Head(fields)) THEN Allow
    ELSE IF h.rewrite THEN Decision("allow_with_warning", TRUE) ELSE Block

(* Mutants of DecideWeb: the hosted model is decided on first; what decide *)
(* found is forgotten where it does not block.                             *)
DecideWebHostedFirst(p, q) ==
    IF ~p.webEnabled \/ (q.upload /\ ~p.inspectUploads) THEN Allow
    ELSE IF p.hosted.enabled /\ q.fields # <<>> THEN DecideHosted(p.hosted, q.fields)
    ELSE IF Decide(p, q) = Block THEN Block
    ELSE IF "jailbreak" \in q.findings /\ p.warnOnJailbreak THEN Warn
    ELSE Decide(p, q)

DecideWebAnew(p, q) ==
    IF ~p.webEnabled \/ (q.upload /\ ~p.inspectUploads) THEN Allow
    ELSE IF Decide(p, q) = Block THEN Block
    ELSE IF p.hosted.enabled /\ q.fields # <<>> THEN DecideHosted(p.hosted, q.fields)
    ELSE IF "jailbreak" \in q.findings /\ p.warnOnJailbreak THEN Warn
    ELSE Allow

DecideWeb(p, q) ==
    IF ~p.webEnabled \/ (q.upload /\ ~p.inspectUploads) THEN Allow
    ELSE IF Decide(p, q) = Block THEN Block
    ELSE IF p.hosted.enabled /\ q.fields # <<>> THEN DecideHosted(p.hosted, q.fields)
    ELSE IF "jailbreak" \in q.findings /\ p.warnOnJailbreak THEN Warn
    ELSE Decide(p, q)
=============================================================================
