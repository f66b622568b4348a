SPECIFICATION Spec
CONSTANTS
    p1 = p1
    p2 = p2
    q1 = q1
    r1 = r1
    Absent = Absent
    Old = Old
    Packers = {p1, p2}
    Publishers = {q1}
    Readers = {r1}
    CHUNKS = 2
    STAGES = 3
    MaxSpoils = 1
INVARIANTS
    ExtractsOneArchive
    FailedReadKeepsOutput
PROPERTY
    NeverReplaces
