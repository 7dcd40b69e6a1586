SPECIFICATION Spec
CONSTANTS
    a = a
    b = b
    Absent = Absent
    Corrupt = Corrupt
    Partial = Partial
    Path = {1}
    Content = {a, b}
    Prefix = {"BD"}
    Size <- MCSize
    Base <- MCBase
    Options <- RealAndDry
    IntLimit = 1000
    MaxDisks = 2
    MaxGroups = 1
    InitialStaging <- OneStaged
    EditsDuringBurn = FALSE
    MaxEdits = 2
    TaggedPaths = {}
    OldVolumes = {"refused", "overwritten"}
    TooLong = {}
    Careful = TRUE
    Crashes = FALSE
    MaxFaults = 0
    BurnCaller = {b1}
    RetrieveCaller = {r1}
    Deleter = {d1}
    BurnFaults = {}
    RetrieveFaults = {}
    MaxBad = 0
    StartsOverlap = FALSE
    RetriesAnytime = FALSE
INVARIANT DryRunTruthful
CHECK_DEADLOCK FALSE
