CONSTANTS
    Jobs = {1}
    Workers = 1
    BotConfigs <- MCBots
SPECIFICATION Spec
PROPERTY SignalEnds
CHECK_DEADLOCK FALSE
