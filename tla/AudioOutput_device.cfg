\* Two starts, two blocks, a list that is full with one block: with both loops
\* registered each block is appended twice, and both loops may wait for room.
\* The sound ends, and a stopped thread may sleep for good.
SPECIFICATION FairSpec
CONSTANTS
    MaxStarts = 2
    MaxBlocks = 2
    MaxFrameBuffer = 0
INVARIANTS
    ListBounded
    FaultsHaveCauses
PROPERTIES
    EveryBlockPlayed
    StartReturns
CHECK_DEADLOCK FALSE
