\* Two nodes, three shards: joins, leaves, crashes, failed heartbeats and a
\* ScanOnce that refreshes beside the loop.
SPECIFICATION FairSpec
CONSTANTS
    Nodes = {1, 2}
    ShardCount = 3
    ShardLease = 3
    HeartbeatInterval = 1
    OperationTimeout = 1
    MaxFailures = 1
    MaxScans = 1
INVARIANTS ClosedOwnsNothing
PROPERTIES EventuallyBalanced
