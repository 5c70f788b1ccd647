\* Either decoder, stopped and paused at any time, on every stream of four
\* packets; packets of three frames make the codec refuse, sometimes
\* twice in a row.
SPECIFICATION FairSpec
CONSTANTS
    MaxPackets = 4
    Yields = {0, 1, 3}
    Delay = 1
    Backlog = 0
    PacketCap = 2
    RingCap = 1
INVARIANTS
    OnlyRefusedAreMissing
    FramesInOrder
    RefusalsArePaid
    SingleFramesAccepted
PROPERTIES
    AudioStallsForGood
    AllButDelayDelivered
    StopEndsOrBlocks
CHECK_DEADLOCK FALSE
