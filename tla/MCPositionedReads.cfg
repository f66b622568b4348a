SPECIFICATION PFairSpec
CONSTANTS
    t1 = t1
    t2 = t2
    Threads = {t1, t2}
    Kinds = {"file", "memory", "callback"}
    MaxLen = 3
    MaxOffset = 4
    MaxReads = 1
    MaxSignals = 1
PROPERTIES
    ReadsAreAtomic
    ReadsReturn
