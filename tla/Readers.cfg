CONSTANTS
    Radix = 2
    None = None
    Original <- MCOriginal
    Used = {1, 2}
    Inserted <- MCInserted
    MaxAdd = 2
    MaxEdits = 2
    Limits = {2, 9}
    Patterns <- MCPatterns
    PageSize = 2
    PageCount = 1
    MaxReads = 2
    Others <- MCOthers
    MaxShifts = {0, 1, 3}
    AnchorLen = 2
    VerifyLen = 0
    HunkCap = 3
    DiffBlock = 2
    TieSample = 1
    SameGrams = 1
    RenderShift = 2
    ExtraContext = 0
    ReadLen = 2
    BytesPerLine = 2
    ViewRows = 1
SPECIFICATION Spec
INVARIANTS WalksExact SearchesExact PagesExact DiffExact
CHECK_DEADLOCK FALSE
