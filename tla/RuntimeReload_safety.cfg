SPECIFICATION Spec
CONSTANTS
    Roots = {r1, r2}
    Attempts = {a1, a2}
    Closers = {s1}
    Boot = Boot
    None = None
    Kinds = {"start", "reload_to"}
SYMMETRY ReloadSymmetry
INVARIANTS
    DrainedBeforeRetired
    OneGenerationServes
    NoLeakedGeneration
PROPERTIES
    GenerationsOnlyAdvance
