SPECIFICATION Spec
CONSTANTS
    Roots = {r1}
    Attempts = {a1}
    Closers = {s1}
    Boot = Boot
    None = None
    Kinds = {"start"}
INVARIANTS
    ReopenBeforeRetire
