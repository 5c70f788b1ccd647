\* Every file of up to six packets, read errors in between.  The audio side
\* takes in four packets before the first picture: PacketCap + RingCap + 1.
SPECIFICATION FairSpec
CONSTANTS
    Lengths = {0, 1, 2, 3, 4, 5, 6}
    PacketCap = 1
    RingCap = 2
    PcmCap = 0
    VideoDelay = 1
    ZeroPts = {TRUE, FALSE}
    Requests = {}
INVARIANTS
    NothingLost
    SkewedNeverPlays
PROPERTY FileIsPlayed
CHECK_DEADLOCK FALSE
