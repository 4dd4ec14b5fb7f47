\* One message, full timing: every lag, both executors of a takeover.
SPECIFICATION FairSpec
CONSTANTS
    m1 = m1
    Msgs = {m1}
    ShardOf <- MCShardOf
    MaxAttempts = 2
    HandlerTimeout = 2
    OperationTimeout = 1
    TaskLease = 3
    RetryMin = 1
    RetryMax = 2
    Retention = 1
    PromptStart = TRUE
    MaxClaims = 6
    MaxRequeues = 1
INVARIANTS LiveHandlerHoldsLease DeliveryBudget
PROPERTIES ImplementsLedger EventuallySettled
