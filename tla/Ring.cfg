SPECIFICATION Spec
CONSTANTS
    NumBlocks = 3
    BlockCap = 2
    EmptyBlocks = {TRUE, FALSE}
    MaxPackets = 5
INVARIANTS DataIntact InOrder
PROPERTIES AllRead
CHECK_DEADLOCK FALSE
