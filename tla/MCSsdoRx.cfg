SPECIFICATION Spec
CONSTANTS
    TimeoutLimit = 2
    MaxFrames = 5
    MaxKept = 2
INVARIANTS HandedInOrder FrameStableWhileBusy FreeMeansFinished
PROPERTIES ImplementsStopAndWait
CHECK_DEADLOCK FALSE
