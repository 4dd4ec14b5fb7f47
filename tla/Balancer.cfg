\* Picks, reports and topology changes; see MCBalancer.
SPECIFICATION Spec
CONSTANTS
    c1 = c1
    c2 = c2
    c3 = c3
    Ids = {1, 2}
    Endpoints = {"x", "y"}
    Callers = {c1, c2, c3}
    FailureThreshold = 2
    EjectionDuration = 1
    MaxItems = 4
    Scenarios <- MCScenarios
SYMMETRY MCSymmetry
INVARIANTS NoOrphanProbe EjectedByOwnReports
CHECK_DEADLOCK FALSE
