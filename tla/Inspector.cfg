CONSTANTS
    MaxSteps = 30
    EntryCap = 1
    Depth = 1
    Whole = 100
    Profiles <- MCProfiles
    Detect <- Detected
SPECIFICATION Spec
INVARIANTS TreeCurrent RowsExact EditTargetsField CapsExact
CHECK_DEADLOCK FALSE
