\* Two processes, three goroutines; the ids run out.
SPECIFICATION FairSpec
CONSTANTS
    g1 = g1
    g2 = g2
    c1 = c1
    c2 = c2
    c3 = c3
    Gens = {g1, g2}
    Callers = {c1, c2, c3}
    GenOf <- MCGenOf
    Steps = {1}
    Starts = {2}
    DefaultStep = 2
    MaxInt = 3
    MaxCalls = 3
    MaxFails = 1
INVARIANTS UniqueIDs IncreasingIDs
PROPERTIES CallsAndCloseEnd
CHECK_DEADLOCK FALSE
