\* Two consumers and one entry, or one consumer and two; see MCRedisStream.
SPECIFICATION FairSpec
CONSTANTS
    c1 = c1
    c2 = c2
    w1 = w1
    Clients = {c1, c2}
    MaxEntry = 2
    Invalid = {2}
    Workers = {w1}
    QueueDepth = 1
    BatchSize = 1
    AckBatchSize = 2
    MaxDeliveryAttempts = 2
    FromStart = TRUE
    Scenarios <- MCScenarios
INVARIANTS NothingLost InFlightIsHeld ReleaseAfterDrain
PROPERTIES EverySettled CloseCompletes
CHECK_DEADLOCK FALSE
