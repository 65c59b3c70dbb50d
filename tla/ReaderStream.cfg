SPECIFICATION Spec
CONSTANTS
    LossErrors = TRUE
    Closes = TRUE
    ReadSizes = {0, 1, 2}
    MaxBatches = 3
    MaxBatch = 2
    MaxBytes = 2
INVARIANTS NoPanic NotUsedAfterReturn ReadsAll
PROPERTY ReadToEnd
CHECK_DEADLOCK FALSE
