\* Up to four packets and no delay in the codec: after the one or two pictures
\* that open the sound there are two more items of either stream.
SPECIFICATION Spec
CONSTANTS
    Lengths = {1, 2, 3, 4}
    PacketCap = 1
    RingCap = 2
    PcmCap = 1
    VideoDelay = 0
    ZeroPts = {TRUE, FALSE}
    Requests = {"pause", "stop"}
INVARIANTS
    RequestsSoonObeyed
CHECK_DEADLOCK FALSE
