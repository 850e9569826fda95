SPECIFICATION Spec
CONSTANTS
    Turn = 9
    Wrap = 8
    CycleMin = 3
    CycleMax = 5
    Threshold = 2
    Tolerance = 1
    Factors = {1, 2}
    InitFactor = 2
    Skew = 1
    PollGap = 1
    MaxTime = 22
    MaxRescale = 1
INVARIANTS BaseIsTrue LossNoticed StartsAgain
PROPERTIES ConsTimeForward NoFalseAlarm
CHECK_DEADLOCK FALSE
