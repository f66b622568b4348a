SPECIFICATION SSpec
CONSTANTS
    a = a
    b = b
    Rejected = Rejected
    RawPaths = {"a", "b", ".."}
    Normalize <- MCNormalize
    PathHash <- MCPathHash
    PathLen <- MCPathLen
    OptionSet <- MCOptionSet
    ZEROES = 3
    MAX_CHUNK_SIZE = 2
    MAX_ALIGNMENT = 16
    MAX_TOC_RAW_SIZE = 200
    MAX_TOC_STORED_SIZE = 1000
    U32_MAX = 100
    U64_MAX = 205
    EofIsFinal = TRUE
    TocLens = {7}
    MaxStreamBytes = 3
    MaxEntries = 2
    Capacities = {0, 8, 64, 120, 400}
    Limits <- MCLimits
INVARIANTS
    DeviceCommits
    FinishedOnDevice
    TornHeaderRefused
PROPERTY
    NothingAfterCallbackFailure
