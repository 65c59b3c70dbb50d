SPECIFICATION Spec
CONSTANTS
    a1 = a1
    a2 = a2
    k1 = k1
    k2 = k2
    Assemblers = {a1, a2}
    Keys = {k1, k2}
    Conns = {c1, c2, c3}
    None = None
    Feeds <- Shared
    Flushers = {a1, a2}
    MaxStreams = 3
    MaxPackets = 3
    MaxFlushes = 1
    MaxPages = 1
SYMMETRY Symmetry
INVARIANTS CompleteIsLast Serial FreeListSound
CHECK_DEADLOCK FALSE
