\* All the policies of MCPolicies, every set of configured providers.
CONSTANTS
    opus = opus
    sonnet = sonnet
    gpt = gpt
    gemini = gemini
    anthropic = anthropic
    openai = openai
    google = google
    NoModel = NoModel
    Models <- MCModels
    Providers <- MCProviders
    ProviderOf <- MCProviderOf
    Policies <- MCPolicies
    Requests <- MCRequests
SPECIFICATION Spec
CHECK_DEADLOCK FALSE
INVARIANTS
    TypeOK
    CandidatesAsDocumented
    OutcomeExplained
    SubstituteIsAudited
