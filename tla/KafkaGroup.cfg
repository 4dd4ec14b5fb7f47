\* Two members, one partition of three records, one of which may fail.
SPECIFICATION FairSpec
CONSTANTS
    m1 = m1
    m2 = m2
    Members = {m1, m2}
    Earliest = {m1}
    Partitions = {1}
    LastOffset = 2
    Concurrency = 1
    Backlog = 2
    BatchSize = 1
    MaxRetries = 1
    Poison = {0}
    DLQDown = FALSE
    MaxMoves = 1
    MaxLate = 1
    MaxWorkers = 2
INVARIANTS CommittedIsSettled OneWorkerPerPartition
PROPERTIES CommitsAdvance EventuallySettled StopCompletes
CHECK_DEADLOCK FALSE
