SPECIFICATION MCSpec
CONSTANTS
    Length <- MCLength
    ISN <- MCISN
    uint32Max = 15
    MaxLen = 3
    pageBytes = 2
    Options <- MCOptions
    FinsWithLimit = FALSE
    ForceStart = TRUE
    Keeps <- MCKeeps
    Times = {1}
    Resets = TRUE
    MaxSaved = 2
    MaxWire = 3
INVARIANTS InOrder SavedAgain NoByteLost UsedCovers EndIsEnd DataAccepted FlushLeavesNothingOld
CHECK_DEADLOCK FALSE
