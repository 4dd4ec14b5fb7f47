\* Two workers, batches of two, callers and Close.
SPECIFICATION FairSpec
CONSTANTS
    w1 = w1
    w2 = w2
    c1 = c1
    Workers = {w1, w2}
    Callers = {c1}
    BatchSize = 2
    MaxTasks = 1
    MaxCalls = 3
INVARIANTS StarvedScanIsWoken TransactionIsWhole
PROPERTIES CloseCompletes
CHECK_DEADLOCK FALSE
