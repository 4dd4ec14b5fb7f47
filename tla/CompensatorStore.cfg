\* One task, a steady node and one that closes or dies; a lease that covers
\* the slowest claim.
SPECIFICATION FairSpec
CONSTANTS
    i1 = i1
    n1 = n1
    n2 = n2
    Items = {i1}
    Nodes = {n1, n2}
    Steady = {n1}
    MaxAttempts = 2
    HandlerTimeout = 1
    OperationTimeout = 1
    LeaseDuration = 2
    RetryBackoffMin = 1
    RetryBackoffMax = 2
    CleanupAfter = 1
    FailedRetention = 1
    PromptStart = TRUE
    MaxClaims = 4
    MaxRequeues = 1
    MaxLost = 1
INVARIANTS LiveHandlerHoldsLease CloseHandsBack
PROPERTIES EventuallySettled ImplementsLedger
