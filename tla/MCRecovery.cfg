SPECIFICATION OperatorSpec
CONSTANTS
    a = a
    b = b
    Partial = Partial
    Corrupt = Corrupt
    Path = {1, 2}
    Content = {a, b}
    Prefix = {"BD"}
    Base <- MCBase
    Archives <- GroupOnly
    Caller = {c1, c2}
    Deleter = {}
    TooLong = {}
    Careful = TRUE
    MaxBad = 1
    FaultSteps = {"resolve", "members", "lookupMember", "readMember", "fold", "write"}
    Crashes = FALSE
    MaxFaults = 2
PROPERTIES
    LostDiscRecovered
    RequestReturns
CHECK_DEADLOCK FALSE
