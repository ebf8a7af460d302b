CONSTANTS
    Regions = {1, 2}
    Slots = {1, 2}
    Typed = {1}
    Initial <- MCTwo
    Remaps = {"protect"}
    Perms = {"rw", "none"}
    MaxRemaps = 1
    MaxSteps = 1
    MaxDepth = 2
    None = None
SPECIFICATION Spec
INVARIANTS TypeOK CommitsWhereEdited FreezeBalanced ViewIsCurrent
PROPERTIES EditsAreKept SwitchKeepsEdits CommitsInOrder
CHECK_DEADLOCK FALSE
