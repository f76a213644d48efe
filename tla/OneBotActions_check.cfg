SPECIFICATION FairTransportSpec
CONSTANTS
    Actions = {e1, e2}
    Io = io
    Main = main
    MaxClients = 2
CHECK_DEADLOCK FALSE
INVARIANTS
    ReconnectChain
PROPERTIES
    OneOutcome
    EveryActionEnds
