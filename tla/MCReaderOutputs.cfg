SPECIFICATION Spec
CONSTANTS
    Layouts <- MCLayouts
    max_chunks_per_operation = 2
    Offsets = {0, 1, 2, 3, 4, 5, 6}
    Lens = {0, 1, 2, 3, 5, 20}
    U64_MAX = 20
    MaxCalls = 2
    MaxDamage = 1
INVARIANTS
    OutputsUnchangedOnError
