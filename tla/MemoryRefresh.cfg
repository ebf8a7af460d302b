CONSTANTS
    Regions = {1, 2}
    Slots = {1, 2}
    Typed = {1}
    Initial <- MCUpper
    Remaps = {"map"}
    Perms = {"rw", "ro", "none"}
    MaxRemaps = 1
    MaxSteps = 1
    MaxDepth = 2
    None = None
SPECIFICATION Spec
INVARIANTS CommitsWhereEdited
CHECK_DEADLOCK FALSE
