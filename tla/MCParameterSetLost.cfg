SPECIFICATION Spec
CONSTANTS
    a = a
    b = b
    Object = {a, b}
    Unknown = {}
    Erased = Erased
    MaxLen = 1
    MaxRequests = 3
    MaxPowerCycles = 0
PROPERTIES OperationalAfterParsing
CHECK_DEADLOCK FALSE
