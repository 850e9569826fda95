SPECIFICATION CrcSpec
CONSTANTS
    a = a
    b = b
    Byte = {a, b}
    NumObjects = 3
    Checked = {1, 3}
    Domain = {3}
    DomainLen = 2
    MaxData = 2
    Count = 1
INVARIANT CalledWhenStarted
PROPERTIES AnswerIsExact CalcEnds
CHECK_DEADLOCK FALSE
