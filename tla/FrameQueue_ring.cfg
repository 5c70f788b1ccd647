\* The ring as the decoders build it (keep_last), three slots so that it wraps
\* twice over, started once, drained by flush() at any time.  A decoder with
\* no frame left and a consumer with nothing to show rest.
SPECIFICATION FairSpec
CONSTANTS
    MaxSize = 3
    KeepLast = TRUE
    MaxFrames = 8
    Disturbances = {"flush"}
INVARIANTS
    FillingNotReleased
    UsedFrameStable
    TornOnlyWhenStarved
PROPERTIES
    ImplementsFifo
    FramesConsumed
CHECK_DEADLOCK FALSE
