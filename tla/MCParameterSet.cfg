SPECIFICATION FairSpec
CONSTANTS
    a = a
    u = u
    Object = {a, u}
    Unknown = {u}
    Erased = Erased
    MaxLen = 3
    MaxRequests = 2
    MaxPowerCycles = 1
INVARIANTS ImageWasParsed ImageIsCurrent
PROPERTIES ProgrammedOnce TasksEnd
CHECK_DEADLOCK FALSE
