SPECIFICATION Spec
CONSTANTS
    Debounce = 1
    MinInterval = 2
    Poll = 3
    MaxVersion = 4
    MaxFaults = 1
    MaxTime = 12
INVARIANTS TypeOK ChangesAreSaved HeardIsSaved
PROPERTIES WritesAreSpaced
CHECK_DEADLOCK FALSE
