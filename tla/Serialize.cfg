SPECIFICATION MCSpec
CONSTANTS
    Layers <- MCLayers
    MaxBytes = 3
    MaxLayers = 3
    Expected <- MCExpected
    batchSize = 3
    maxPktLen = 2
    Offered <- MCOffered
    MaxPackets = 5
INVARIANT SentInOrder
PROPERTIES SecondRoundIsFree Wraps AllSent
CHECK_DEADLOCK FALSE
