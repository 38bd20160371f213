SPECIFICATION MCSpec
CONSTANTS
    Requests <- MCRequests
    Pipelines <- TwoEntries
    MaxRequestBody = 2
    Statuses <- MCStatuses
    RetryStatuses <- MCRetryStatuses
    RetryHandler = TRUE
    Rewrites <- MCRewrites
    Tokens <- MCTokens
    RealValue <- MCRealValue
    MaxHandlers = 2
    MaxTime = 2
    MaxLease = 2
    MaxAttempts = 2
    MaxBridges = 2
INVARIANT PlaceholdersSwapped
CHECK_DEADLOCK FALSE
