SPECIFICATION Spec
CONSTANTS
    a = a
    b = b
    c = c
    Rejected = Rejected
    RawPaths <- MCRawPaths
    Normalize <- MCNormalize
    PathHash <- MCPathHash
    PathLen <- MCPathLen
    OptionSet <- MCOptionSet
    ZEROES = 3
    MAX_CHUNK_SIZE = 4
    MAX_ALIGNMENT = 16
    MAX_TOC_RAW_SIZE = 1000
    MAX_TOC_STORED_SIZE = 1000
    U32_MAX = 100
    U64_MAX = 5000
    EofIsFinal = FALSE
    TocLens = {7}
    MaxStreamBytes = 4
    MaxEntries = 2
INVARIANTS
    FinishedIsWellFormed
