CONSTANTS
    Roots = {"r1"}
    Raw = "raw"
    Notice = "notice"
    NoPattern = "no pattern"
    MatchedBy <- MCMatchedBy
    CatalogLimit = 3
    Received <- MCReceivedPay
    CommandConfig <- MCCommandConfig
    Pipelines <- MCPipelines
    Registered = {"shop", "store"}
    Partition <- MCPartitionByGroup
    Emissions <- MCEmissions
    HopLimit = 2
SPECIFICATION Spec
INVARIANTS SameMailbox
CHECK_DEADLOCK FALSE
