CONSTANTS
    MinTimeout = 1
    MaxTimeout = 5
    DefaultTimeout = 3
    DefaultHopLimit = 4
    DefaultSlowResume = 3
    HardwareThreads = 8
    SchemaWord = 16
    Requests <- MCBaseOnly
    Private = {"x", "y"}
    ProcessOwned = {"p"}
    Needs <- MCNeeds
    RegisteredBots = {"q"}
    Generations = {1, 2}
    Replaceable = {"x", "y", "p"}
    MaxVersion = 2
SPECIFICATION Spec
INVARIANTS CandidateRunsItsClosure
CHECK_DEADLOCK FALSE
