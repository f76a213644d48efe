SPECIFICATION FairSpec
CONSTANTS
    Requests = {r1, r2, r3}
    Stoppers = {s1}
    Writer = writer
    None = none
    Capacity = 1
CHECK_DEADLOCK FALSE
INVARIANTS
    FaithfulWire
PROPERTIES
    SendersReturn
