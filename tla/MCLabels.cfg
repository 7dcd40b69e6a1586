SPECIFICATION Spec
CONSTANTS
    a = a
    b = b
    Absent = Absent
    Corrupt = Corrupt
    Partial = Partial
    Path = {1}
    Content = {a, b}
    Prefix = {"BD"}
    Size <- MCSize
    Base <- MCBase
    Options <- OnlyReal
    IntLimit = 1000
    MaxDisks = 2
    MaxGroups = 1
    InitialStaging <- OneStaged
    EditsDuringBurn = FALSE
    MaxEdits = 1
    TaggedPaths = {}
    OldVolumes = {"refused", "overwritten"}
    TooLong = {}
    Careful = TRUE
    Crashes = TRUE
    MaxFaults = 1
    BurnCaller = {b1}
    RetrieveCaller = {r1}
    Deleter = {}
    BurnFaults = {}
    RetrieveFaults = {}
    MaxBad = 0
    StartsOverlap = FALSE
    RetriesAnytime = FALSE
PROPERTY WrongDiscRejected
CHECK_DEADLOCK FALSE
