SPECIFICATION Spec
CONSTANTS
    MaxStarts = 1
    Length = 2
    QueueCap = 1
INVARIANT StartPlays
CHECK_DEADLOCK FALSE
