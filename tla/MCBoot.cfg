SPECIFICATION BootFairSpec
CONSTANT MaxRestarts = 2
INVARIANTS RestoreAgreed TimeFromMaster
PROPERTY BootsUp
CHECK_DEADLOCK FALSE
