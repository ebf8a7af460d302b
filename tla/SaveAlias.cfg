CONSTANTS
    Radix = 2
    None = None
    Names = {"file", "copy"}
    Opened = "file"
    EntryOf <- Aliases
    Bound = Bound
    ReplaceLimit = 1
    Profiles <- AliasProfiles
SPECIFICATION Spec
INVARIANT SavedAsReported
