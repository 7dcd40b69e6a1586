SPECIFICATION OperatorSpec
CONSTANTS
    a = a
    b = b
    Partial = Partial
    Corrupt = Corrupt
    Path = {1, 2}
    Content = {a, b}
    Prefix = {"BD"}
    Base <- MCBase
    Archives <- SingleDisc
    Caller = {c1}
    Deleter = {}
    TooLong = {}
    Careful = TRUE
    MaxBad = 1
    FaultSteps = {}
    Crashes = FALSE
    MaxFaults = 0
PROPERTIES
    RetrievalEnds
CHECK_DEADLOCK FALSE
