CONSTANTS
    Roots = {"r1"}
    Raw = "raw"
    Notice = "notice"
    NoPattern = "no pattern"
    MatchedBy <- MCMatchedBy
    CatalogLimit = 3
    Received <- MCReceived
    CommandConfig <- MCCommandConfig
    Pipelines <- MCPipelines
    Registered = {"shop", "store"}
    Partition <- MCPartition
    Emissions <- MCEmissions
    HopLimit = 2
SPECIFICATION FairSpec
CHECK_DEADLOCK FALSE
INVARIANTS
    FailuresAreReported
    CommandSettledOnce
    CallsHaveWaiters
PROPERTIES
    EveryRouteEnds
