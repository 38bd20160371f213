SPECIFICATION MCSpec
CONSTANTS
    Requests <- MCRequests
    Pipelines <- MCPipelines
    MaxRequestBody = 2
    Statuses <- MCStatuses
    RetryStatuses <- MCRetryStatuses
    RetryHandler = TRUE
    Rewrites <- MCRewrites
    Tokens <- MCTokens
    RealValue <- MCRealValue
    MaxHandlers = 2
    MaxTime = 2
    MaxLease = 2
    MaxAttempts = 2
    MaxBridges = 2
INVARIANTS
    
    ReplayExact
    BodyIntact
    RelayKeepsConnection
    
    AdmissionAudited
    OutputBeforeClose
PROPERTIES
    
    
    LeaseEnds
    
CHECK_DEADLOCK FALSE
