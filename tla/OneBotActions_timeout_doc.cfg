SPECIFICATION FairActionsSpec
CONSTANTS
    Actions = {e1}
    Io = io
    Main = main
    MaxClients = 1
CHECK_DEADLOCK FALSE
PROPERTIES
    TimeoutReachesCaller
