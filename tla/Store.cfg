CONSTANTS
    Length <- MCLength
    Bits = {1}
    Base <- MCBase
    Patterns <- MCPatterns
    Runs <- MCRuns
    Keys <- MCKeys
    MaxSparse = 1
    MaxEntries = 2
    MaxDead = 1
    None = None
SPECIFICATION Spec
INVARIANTS WellFormed EditsExact PatchRestores SummariesExact
