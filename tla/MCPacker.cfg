SPECIFICATION FairSpec
CONSTANTS
    a = a
    b = b
    c = c
    Rejected = Rejected
    RawPaths <- MCRawPaths
    Normalize <- MCNormalize
    PathHash <- MCPathHash
    PathLen <- MCPathLen
    OptionSet <- MCOptionSet
    ZEROES = 3
    MAX_CHUNK_SIZE = 4
    MAX_ALIGNMENT = 16
    MAX_TOC_RAW_SIZE = 200
    MAX_TOC_STORED_SIZE = 60
    U32_MAX = 3
    U64_MAX = 190
    EofIsFinal = TRUE
    TocLens = {7, 30}
    MaxStreamBytes = 4
    MaxEntries = 3
INVARIANTS
    TypeOK
    FinishedIsWellFormed
    HeaderCommitsBody
    EveryByteFound
    LookupsUnique
PROPERTIES
    CallReturns
