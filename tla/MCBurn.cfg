SPECIFICATION RetrySpec
CONSTANTS
    empty = empty
    small = small
    large = large
    Absent = Absent
    Corrupt = Corrupt
    Path = {1, 2}
    Content <- MCSmallOnly
    Prefix = {"BD"}
    Size <- MCSize
    Options <- BurnOptions
    IntLimit = 1000
    MaxDisks = 4
    MaxGroups = 2
    Caller = {c1, c2}
    InitialStaging <- TwoStaged
    EditsDuringBurn = FALSE
    MaxEdits = 1
    TaggedPaths = {1}
    FaultSteps = {"clear", "pack", "parity", "iso", "burn", "verify", "disk", "hash", "consume", "insert", "remove"}
    Crashes = TRUE
    OldVolumes = {"refused", "overwritten"}
    MaxFaults = 1
INVARIANTS
    TypeOK
    OneRunner
    CatalogTruthful
    NothingLost
    ParityCovers
    ParityBuildable
PROPERTIES
    ImplementsArchive
    ImplementsFairArchive
    RetryFailsOnlyOnLeftovers
CHECK_DEADLOCK FALSE
