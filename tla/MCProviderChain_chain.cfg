SPECIFICATION FairSpec
CONSTANTS
    openai = openai
    gemini = gemini
    Priority <- TwoProviders
    Requests = {r1, r2}
    Threshold = 2
    Window = 2
    MaxFallback = 2
CHECK_DEADLOCK FALSE
INVARIANTS
    SwitchOutranksBreaker
    BreakerNeedsFailures
PROPERTIES
    ServiceRecovers
