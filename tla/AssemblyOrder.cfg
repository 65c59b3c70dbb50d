SPECIFICATION Spec
CONSTANTS
    Quarter = 7
    Keys = {k1}
    NoKey = NoKey
    ISNs = {3, 25}
    StreamLen = 4
    MaxLen = 3
    SynLen = 0
    Reuse = FALSE
    PageBytes = 1
    MaxBufferedPagesTotal = 0
    MaxBufferedPagesPerConnection = 4
    Times = {1}
    FlushTimes = {2}
    MaxPackets = 4
    MaxFlushes = 1
INVARIANTS InOrder HeadBlocked NoByteLost
PROPERTY HandlersReturn
CHECK_DEADLOCK FALSE
