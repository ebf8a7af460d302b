CONSTANTS
    OriginalLen = 3
    MaxAdd = 2
    MaxInsert = 2
    MaxRemoved = 2
SPECIFICATION Spec
INVARIANTS Structure CellsUnique QueriesExact
PROPERTY RefinesCellSequence
CHECK_DEADLOCK FALSE
