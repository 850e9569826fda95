SPECIFICATION FairSpec
CONSTANTS
    TimeoutLimit = 1
    ArpLimit = 0
    MaxFrames = 3
INVARIANTS TakenAsPosted AckedWasFinished PendingFindsUnlocked
PROPERTIES ImplementsStopAndWait ImageStableInTransfer EventuallyUnlocked
CHECK_DEADLOCK FALSE
