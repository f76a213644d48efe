SPECIFICATION FairSpec
CONSTANTS
    Workers = {w1, w2}
    Callers = {c1}
    Works = {x1}
    Injector = injector
    None = none
    MaxRuns = 2
    IdleYieldLimit = 0
    ShutdownModes = {"Drain", "Cancel"}
    StartMayFail = TRUE
CHECK_DEADLOCK FALSE
INVARIANTS
    ShutdownLeavesOnlyLate
PROPERTIES
    ImplementsPool
    AcceptedWorkRuns
