\* Two producers and two consumers on a queue of one place, spurious wakeups.
\* The system may rest: nobody has to push or close, and quit() can strand.
SPECIFICATION FairSpec
CONSTANTS
    Producers = {p1, p2}
    Consumers = {c1, c2}
    Capacity = 1
    MaxItems = 2
    SpuriousWakeups = TRUE
    NoThread = NoThread
INVARIANTS
    SleepersJustified
    QuitStrandsAtMostOne
PROPERTIES
    ImplementsBuffer
    ItemsDelivered
CHECK_DEADLOCK FALSE
