SPECIFICATION Spec
CONSTANTS
    empty = empty
    small = small
    large = large
    Absent = Absent
    Corrupt = Corrupt
    Path = {1, 2}
    Content <- MCSmallOnly
    Prefix = {"BD"}
    Size <- MCSize
    Options <- OneDisc
    IntLimit = 1000
    MaxDisks = 4
    MaxGroups = 2
    Caller = {c1}
    InitialStaging <- AllSmall
    EditsDuringBurn = TRUE
    MaxEdits = 1
    TaggedPaths = {}
    FaultSteps = {}
    Crashes = FALSE
    OldVolumes = {"refused", "overwritten"}
    MaxFaults = 1
INVARIANTS
    NothingLost
CHECK_DEADLOCK FALSE
