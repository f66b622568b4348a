SPECIFICATION Spec
CONSTANTS
    Headers <- MCHeaders
    ChunkRecords <- MCChunkRecords
    EntryRecords <- MCEntryRecords
    U64_MAX = 200
    MaxChunks = 2
    MaxEntries = 2
INVARIANTS
    TypeOK
    AcceptsExactlyWellFormed
    EntryTotalsFit
