SPECIFICATION Spec
CONSTANTS
    t1 = t1
    t2 = t2
    u1 = u1
    arch = arch
    buf = buf
    scr = scr
    Threads = {t1, t2}
    Users = {u1}
    Slots = {arch, buf, scr}
    Holds <- MCHolds
    Null = Null
    MaxBoxes = 4
    MaxDepth = 2
    MaxCalls = 2
SYMMETRY ThreadSymmetry
INVARIANTS
    OwnedOnce
    SourceDestroyedOnce
    ErrorIsLatest
