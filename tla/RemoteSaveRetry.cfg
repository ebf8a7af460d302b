CONSTANTS
    Edits = {e1, e2}
    Foreign = {f1}
    ReadsByPath = TRUE
    Fresh = {TRUE}
    MaxClock = 3
    NoContent = NoContent
SPECIFICATION Spec
INVARIANTS AppliedOnce
