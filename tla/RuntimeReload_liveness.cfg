SPECIFICATION FairSpec
CONSTANTS
    Roots = {r1}
    Attempts = {a1, a2}
    Closers = {s1}
    Boot = Boot
    None = None
    Kinds = {"reload"}
PROPERTIES
    GateWaiterProceeds
    ReloadTerminates
