SPECIFICATION Spec
CONSTANTS
    a = a
    b = b
    Absent = Absent
    Corrupt = Corrupt
    Partial = Partial
    Path = {1, 2}
    Content = {a, b}
    Prefix = {"BD"}
    Size <- MCSize
    Base <- MCBase
    Options <- DryThenReal
    IntLimit = 1000
    MaxDisks = 4
    MaxGroups = 1
    InitialStaging <- BothStaged
    EditsDuringBurn = FALSE
    MaxEdits = 0
    TaggedPaths = {}
    OldVolumes = {"refused", "overwritten"}
    TooLong = {}
    Careful = TRUE
    Crashes = FALSE
    MaxFaults = 1
    BurnCaller = {b1}
    RetrieveCaller = {}
    Deleter = {d1}
    BurnFaults = {"hash"}
    RetrieveFaults = {}
    MaxBad = 0
    StartsOverlap = FALSE
    RetriesAnytime = FALSE
INVARIANT FreshIDs
CHECK_DEADLOCK FALSE
