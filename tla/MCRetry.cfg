SPECIFICATION RetrySpec
CONSTANTS
    empty = empty
    small = small
    large = large
    Absent = Absent
    Corrupt = Corrupt
    Path = {1}
    Content <- MCSmallOnly
    Prefix = {"BD"}
    Size <- MCSize
    Options <- OneDisc
    IntLimit = 1000
    MaxDisks = 4
    MaxGroups = 2
    Caller = {c1}
    InitialStaging <- AllSmall
    EditsDuringBurn = FALSE
    MaxEdits = 0
    TaggedPaths = {}
    FaultSteps = {"insert"}
    Crashes = FALSE
    OldVolumes = {"refused"}
    MaxFaults = 1
PROPERTIES
    RetrySucceeds
CHECK_DEADLOCK FALSE
