\* Caching, eviction and registration; see MCRegistry.
SPECIFICATION FairSpec
CONSTANTS
    r1 = r1
    r2 = r2
    Instances = {"me", "peer"}
    Resolvers = {r1, r2}
    MaxStates = 2
    Scenarios <- MCScenarios
INVARIANTS CacheIsSnapshot
PROPERTIES Converges ResolveReturns ClosedLeavesNothing
CHECK_DEADLOCK FALSE
