\* The fallback policy shipped in policy.yaml.
CONSTANTS
    opus = opus
    sonnet = sonnet
    gpt = gpt
    gemini = gemini
    anthropic = anthropic
    openai = openai
    google = google
    NoModel = NoModel
    Models <- MCModels
    Providers <- MCProviders
    ProviderOf <- MCProviderOf
    Policies <- MCShipped
    Requests <- MCRequests
SPECIFICATION Spec
CHECK_DEADLOCK FALSE
INVARIANT
    EveryConfiguredProviderTried
