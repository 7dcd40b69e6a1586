SPECIFICATION Spec
CONSTANTS
    a = a
    b = b
    Absent = Absent
    Corrupt = Corrupt
    Partial = Partial
    Path = {1}
    Content = {a, b}
    Prefix = {"BD"}
    Size <- MCSize
    Base <- MCBase
    Options <- RealAndDry
    IntLimit = 1000
    MaxDisks = 2
    MaxGroups = 1
    InitialStaging <- OneStaged
    EditsDuringBurn = FALSE
    MaxEdits = 1
    TaggedPaths = {}
    OldVolumes = {"refused", "overwritten"}
    TooLong = {}
    Careful = FALSE
    Crashes = TRUE
    MaxFaults = 1
    BurnCaller = {b1}
    RetrieveCaller = {r1}
    Deleter = {d1}
    BurnFaults = {"burn"}
    RetrieveFaults = {}
    MaxBad = 1
    StartsOverlap = FALSE
    RetriesAnytime = FALSE
INVARIANTS
    TypeOK
    DriveExclusive
    NothingLost
    CatalogTruthful
PROPERTIES
    EndToEnd
CHECK_DEADLOCK FALSE
