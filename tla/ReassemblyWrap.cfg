SPECIFICATION MCSpec
CONSTANTS
    Length <- MCLength
    ISN <- MCISNWrap
    uint32Max = 15
    MaxLen = 3
    pageBytes = 2
    Options <- MCOptions
    FinsWithLimit = FALSE
    ForceStart = FALSE
    Keeps <- MCKeeps
    Times = {1}
    Resets = FALSE
    MaxSaved = 2
    MaxWire = 3
INVARIANT InOrder
CHECK_DEADLOCK FALSE
