\* Two handlers on two loopers, or on one when the runtime gives a thread id
\* again; two messages on a queue of one place.  A looper whose quit message
\* was taken by nobody sleeps for good.
SPECIFICATION FairSpec
CONSTANTS
    Handlers = {h1, h2}
    Posters = {p1}
    Tids = {t1, t2}
    OwnerTid = t0
    Capacity = 1
    MaxPosts = 2
    Nobody = Nobody
INVARIANTS
    OneReader
    LateAtMostOne
    DeafReason
PROPERTIES
    CallsReturn
    Delivered
CHECK_DEADLOCK FALSE
