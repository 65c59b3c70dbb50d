SPECIFICATION Spec
CONSTANTS
    Handles = {1, 2}
    Modes <- MCModes
    MaxPackets = 2
    ChanCap = 1
    GivesUp = TRUE
INVARIANTS NoUseAfterClose Complete
PROPERTIES CloseReturns RangeEnds
CHECK_DEADLOCK FALSE
