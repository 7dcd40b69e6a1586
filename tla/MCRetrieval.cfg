SPECIFICATION Spec
CONSTANTS
    a = a
    b = b
    Partial = Partial
    Corrupt = Corrupt
    Path = {1, 2}
    Content = {a, b}
    Prefix = {"BD"}
    Base <- MCBase
    Archives <- AllArchives
    Caller = {c1, c2}
    Deleter = {d1}
    TooLong <- FirstDisc
    Careful = FALSE
    MaxBad = 1
    FaultSteps = {"lookup", "read", "extract", "resolve", "members", "lookupMember", "readMember", "fold", "write"}
    Crashes = TRUE
    MaxFaults = 1
INVARIANTS
    TypeOK
    OneRequest
    RetrievedTruthful
CHECK_DEADLOCK FALSE
