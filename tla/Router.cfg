SPECIFICATION FairSpec
CONSTANTS
    groq = groq  ollama = ollama
    cloud = cloud  reasoning = reasoning  fast = fast
    Providers <- MCProviders
    Models <- MCModels
    ProviderOf <- MCProviderOf
    Paid <- MCPaid
    Chains <- MCChains
    Threshold = 2
    Cooldown = 2
    Retries = 1
    Budget = 2
    MaxCost = 2
INVARIANTS
    SpendBounded
PROPERTIES
    NothingHangs
