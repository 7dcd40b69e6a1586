SPECIFICATION DashboardSpec
CONSTANTS
    empty = empty
    small = small
    large = large
    Absent = Absent
    Corrupt = Corrupt
    Path = {1, 2, 3, 4}
    Content <- MCContent
    Prefix = {"BD", "BDDL", "DISC", "HDD"}
    NoColumn = NoColumn
    AlteredPrefix = "DISC"
    DefaultTypes <- MCDefaults
    Databases <- MCDatabases
    NewTypes <- MCNewTypes
    Forms <- MCForms
    Size <- MCSize
    Options <- MCOptions
    IntLimit = 1000
    MaxDisks = 6
    MaxGroups = 3
    Caller = {}
    InitialStaging <- AllStagings
    EditsDuringBurn = FALSE
    MaxEdits = 0
    TaggedPaths = {}
    FaultSteps = {}
    Crashes = TRUE
    OldVolumes = {"refused", "overwritten"}
    MaxFaults = 1
INVARIANTS
    BucketsFit
    PlanCoversScan
    GroupsWellFormed
    OptionsAdmissible
    UsedTypesFrozen
CHECK_DEADLOCK FALSE
