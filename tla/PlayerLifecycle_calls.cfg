SPECIFICATION FairSpec
CONSTANTS
    MaxStarts = 3
    Length = 2
    QueueCap = 2
INVARIANTS
    PacketsInOrder
    UnsafeOnReopening
PROPERTY StartReturns
CHECK_DEADLOCK FALSE
