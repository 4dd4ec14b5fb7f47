\* Two processes and one worker id; clocks up to one unit ahead, answers and
\* pauses of one unit: the margin just covers them.
SPECIFICATION Spec
CONSTANTS
    p1 = p1
    p2 = p2
    Procs = {p1, p2}
    MaxWorkerID = 0
    MaxSequence = 0
    WorkerTimeout = 3
    SafetyThreshold = 0
    MaxRollback = 0
    Skews = {1}
    MaxSkew = 1
    MaxBehind = 0
    MaxAnswer = 1
    MaxPause = 1
    MaxTime = 8
    MaxIDs = 2
    MaxTokens = 2
    MaxFails = 1
    MaxSteps = 1
SYMMETRY MCSymmetry
INVARIANTS UniqueIDs
CHECK_DEADLOCK FALSE
