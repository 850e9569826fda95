SPECIFICATION FairSpec
CONSTANT MaxChecks = 2
INVARIANTS OneCheckPerEntry StatesAgree
PROPERTIES ShutdownIsSafe LossIsSafe
CHECK_DEADLOCK FALSE
