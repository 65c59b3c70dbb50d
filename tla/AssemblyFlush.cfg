SPECIFICATION Spec
CONSTANTS
    Quarter = 7
    Keys = {k1, k2}
    NoKey = NoKey
    ISNs = {3, 26}
    StreamLen = 2
    MaxLen = 1
    SynLen = 0
    Reuse = TRUE
    PageBytes = 1
    MaxBufferedPagesTotal = 4
    MaxBufferedPagesPerConnection = 3
    Times = {1, 2}
    FlushTimes = {2}
    MaxPackets = 4
    MaxFlushes = 1
SYMMETRY Symmetry
INVARIANT BufferLimits
PROPERTIES FlushLeavesNothingOld FlushSparesActive
CHECK_DEADLOCK FALSE
