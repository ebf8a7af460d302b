CONSTANTS
    Profiles <- MCProfiles
    Radix = 2
    Typed = {1}
    Clips <- MCClips
    Fills <- MCFills
    BytesPerLine = 2
    None = None
SPECIFICATION Spec
INVARIANTS TypeOK HistoryUnwinds HistoryReplays PendingIsNewest
