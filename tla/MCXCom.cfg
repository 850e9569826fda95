SPECIFICATION FairSpec
CONSTANT Crc = {"a", "b"}
INVARIANT NoFalseStop
PROPERTY BothStop
CHECK_DEADLOCK FALSE
