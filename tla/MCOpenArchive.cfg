SPECIFICATION Spec
CONSTANTS
    Parts <- MCParts
    PartLen <- MCPartLen
    HasNul = {"NUL"}
    MAX_PATH_LEN = 4
    MAX_PATH_SEGMENTS = 2
    Rejected = Rejected
    Headers <- MCHeaders
    CallerLimits <- MCCallerLimits
    HARD <- MCHard
    HARD_MAX_IDENTIFIER_BUCKET_ENTRIES = 3
    MAX_CHUNK_SIZE = 8
    MAX_ALIGNMENT = 32
    MAX_TOC_STORED_SIZE = 60
    MAX_TOC_RAW_SIZE = 200
    FileLen = 100
    RawPaths <- MCRawPaths
    StoredPaths <- MCStoredPaths
    PathHash <- MCPathHash
    Hashes = {1, 2}
    Sizes = {1, 5}
INVARIANTS
    TypeOK
    LookupsExact
    RefusedIndexIsAmbiguous
    RetainedWithinLimit
