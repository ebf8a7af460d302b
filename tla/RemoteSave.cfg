CONSTANTS
    Edits = {e1, e2}
    Foreign = {f1, f2}
    ReadsByPath = FALSE
    Fresh = {TRUE, FALSE}
    MaxClock = 3
    NoContent = NoContent
SPECIFICATION Spec
INVARIANTS TypeOK EditsNeverLost NoSilentLoss AppliedOnce
