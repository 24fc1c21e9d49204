\* Policies of MCPolicies, all contents, every order of the parties.
CONSTANTS
    auto = auto
    opus = opus
    sonnet = sonnet
    NoModel = NoModel
    Models <- MCModels
    AutoSecure = auto
    Policies <- MCPolicies
    Contents <- MCContents
SPECIFICATION FairSpec
CHECK_DEADLOCK FALSE
INVARIANTS
    TypeOK
    SentIsPermitted
    PassedIsAudited
    LateBlockByTimer
    RefusedIsTold
    WebReinforces
PROPERTY
    CallSettles
