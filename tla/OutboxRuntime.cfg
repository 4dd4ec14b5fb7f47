\* Two workers, the scan loop and callers share the slots; Close.  See MCOutboxRuntime.
SPECIFICATION FairSpec
CONSTANTS
    w1 = w1
    w2 = w2
    d1 = d1
    s1 = s1
    Workers = {w1, w2}
    Dispatchers = {d1}
    ScanCallers = {s1}
    BatchSize = 2
    MaxReady = 1
    MaxIDs = 1
    MaxCalls = 2
    Scenarios <- MCScenarios
INVARIANTS ReleaseAfterDrain StarvedScanIsWoken TransactionIsWhole
PROPERTIES CloseCompletes
CHECK_DEADLOCK FALSE
