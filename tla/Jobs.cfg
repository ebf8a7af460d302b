SPECIFICATION Spec
CONSTANTS
    Byte <- MCByte
    Original <- MCOriginal
    Other <- MCOther
    Magic = 1
    HashStep = 2
    StatsLimit = 1
    StatsStep = 2
    StatsChunk = 1
    DiffStep = 2
    MaxRevision = 3
    MaxJobs = 3
    MaxScans = 2
    MaxWork = 4
    None = None
INVARIANTS
    AnalysisHonest
    ScansExact
    NearestMismatch
PROPERTIES
    AnalysisEnds
    ScanEnds
