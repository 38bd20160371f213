SPECIFICATION MCSpec
CONSTANTS
    Requests = {r1, r2}
    TTLs = {0, 2}
    FailureTTL = 2
    FetchTimeout = 1
    MaxVersion = 2
    MaxTime = 5
    Callers = {c1, c2}
    MaxCredential = 3
    Incomplete = {3}
    TokenTTL = 1
    MaxClock = 2
    Domains = {d1, d2, d3}
    MaxSize = 2
    LeafExpiry = 2
    MaxWall = 5
    Bytes = {"a", "b", "p", "g", "o"}
    MaxBody = 5
    MaxGap = 1
    Needles <- MCNeedles
    Pipelines <- MCPipelines
    MaxLength = 3
    MaxBytes = 2
    MaxTokenBody = 2
    MaxRequests = 2
    Policies <- MCPolicies
    Routes <- MCRoutes
    Bodies <- MCBodies
    Responses <- MCResponses
    MaxReloads = 1
INVARIANTS
    FreshWithinTTL
    ErrorsAreTheBackends
    TokenMatchesCredential
    LeafValid
    ChunksInvisible
    
    SignedAsSent
    
    CallsAllowed
    
PROPERTIES
    BackendSpared
    Implements
CHECK_DEADLOCK FALSE
