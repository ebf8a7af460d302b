CONSTANTS
    Radix = 2
    None = None
    Names = {"file", "copy"}
    Opened = "file"
    EntryOf <- MCEntryOf
    Bound = Bound
    ReplaceLimit = 1
    Profiles <- MCProfiles
SPECIFICATION Spec
INVARIANTS BatchesUnwind RollbackRestores SelectionNamesCells
PROPERTY SavesAreExact
