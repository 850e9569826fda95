SPECIFICATION Spec
CONSTANTS
    TimeoutLimit = 0
    ArpLimit = 0
    MaxEntries = 3
    MaxArp = 1
INVARIANTS TakenWhole NeverBlank AcceptedIsTaken SentAsTaken
PROPERTIES ImplementsStopAndWait
CHECK_DEADLOCK FALSE
