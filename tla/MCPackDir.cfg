SPECIFICATION FairSpec
CONSTANTS
    p1 = p1
    p2 = p2
    out = out
    in1 = in1
    in2 = in2
    v1 = v1
    v2 = v2
    Absent = Absent
    Link = Link
    Found = Found
    Procs = {p1, p2}
    Pid <- MCPid
    Output = out
    Inputs = {in1, in2}
    Versions = {v1, v2}
    Target = in2
    Root = "root"
    SubDirs <- MCSubDirs
    Home <- MCHome
    Rank <- MCRank
    ATTEMPTS = 2
    Leftover <- MCLeftover
    MaxEdits = 1
    MaxPowerLoss = 1
INVARIANTS
    OutputWhole
    NeverPacksItself
    NothingMissed
    SameFilesSameOrder
PROPERTIES
    TouchesOnlyItsOwn
    ReplacesAtomically
    PackEnds
