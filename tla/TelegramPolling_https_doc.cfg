CONSTANTS
    MaxDomain = 1
    Configs <- MCHttpsProxy
    Callers = {"c1"}
    Methods = {"send_private_message"}
    Updates = 1
    Limit = 1
    Starts = 1
SPECIFICATION Spec
INVARIANTS ProxyConnectionUsesTls
CHECK_DEADLOCK FALSE
