--------------------------- MODULE MCControlPlane ---------------------------
(***************************************************************************)
(* ControlPlane with two requests, one reload thread and one device: each  *)
(* scenario pairs settings with two requests that meet under them.         *)
(***************************************************************************)
EXTENDS ControlPlane, TLC

CONSTANTS r1, r2, alice, bob, laptop, base, first, odd, cut, reload

MCSettings == [auth |-> "optional", trust |-> "optional", jumpcloud |-> TRUE,
               adminAuth |-> TRUE, adminDevice |-> TRUE, policyWrite |-> TRUE]

(* alice is an admin and owns the laptop. *)
MCRequest(kind, subject, token) ==
    [kind |-> kind, bearer |-> "valid", subject |-> subject, header |-> alice,
     device |-> laptop, token |-> token]

MCAlice(kind) == MCRequest(kind, alice, "issued")
MCAnonymous(kind) == [MCAlice(kind) EXCEPT !.bearer = "none"]

MCDev == [MCSettings EXCEPT !.auth = "disabled", !.trust = "disabled", !.jumpcloud = FALSE,
                            !.adminAuth = FALSE, !.adminDevice = FALSE]

MCPair(s, a, b) == [settings |-> s, input |-> r1 :> a @@ r2 :> b, around |-> {"devices", "crashes"}]
MCAround(p, happenings) == [p EXCEPT !.around = happenings]

(* Identification, with everything asked for and with less. *)
MCIdentityScenarios ==
    {MCPair([MCSettings EXCEPT !.trust = "required"], MCAlice("status"), MCAlice("web")),
     MCPair([MCSettings EXCEPT !.auth = "required"], MCAlice("status"), MCAnonymous("web")),
     MCPair(MCSettings, MCAnonymous("status"), MCRequest("web", bob, "issued")),
     MCPair(MCSettings, MCRequest("status", bob, "issued"), MCRequest("web", alice, "forged")),
     MCPair([MCSettings EXCEPT !.jumpcloud = FALSE, !.adminDevice = FALSE], MCRequest("put", bob, "issued"),
            [MCAlice("web") EXCEPT !.bearer = "invalid"]),
     MCPair([MCSettings EXCEPT !.policyWrite = FALSE], MCAlice("put"),
            [MCAlice("web") EXCEPT !.device = NoDevice])}

(* The policy, with nothing asked for. *)
MCPolicy(a, b, happenings) == MCAround(MCPair(MCDev, MCAlice(a), MCAlice(b)), happenings \cup {"crashes"})

MCPolicyScenarios ==
    {MCPolicy("put", "put", {"edits", "ticks", "disk"}),
     MCPolicy("put", "put", {"threads", "ticks", "disk"}),
     MCPolicy("put", "chat", {"threads", "edits"}),
     MCPolicy("chat", "put", {"threads", "edits", "disk"}),
     MCPolicy("web", "chat", {"threads", "edits", "disk"})}

MCScenarios == MCIdentityScenarios \cup MCPolicyScenarios

(* The second PUT's policy has no version, and cannot be hashed. *)
MCTexts     == {base, first, odd}
MCTextOf    == r1 :> first @@ r2 :> odd
MCVersionOf == [p \in {base, first, cut, Empty} |-> p]
MCOwnerOf   == [d \in Devices |-> alice]
=============================================================================
