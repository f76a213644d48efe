CONSTANTS
    Jobs = {1, 2}
    Workers = 2
    BotConfigs <- MCBots
SPECIFICATION Spec
CHECK_DEADLOCK FALSE
INVARIANTS
    OkIsDurable
    CallableHasItsCode
    NothingOutlivesMain
PROPERTIES
    StopEnds
