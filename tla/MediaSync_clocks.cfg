\* Thresholds of one and three ticks, maxFrameDuration eight; pictures closer than,
\* at and beyond the larger threshold, blocks of two ticks, clocks up to and
\* beyond maxFrameDuration apart.  Both threads end after a stop.
SPECIFICATION FairSpec
CONSTANTS
    Min = 1
    Max = 3
    Dup = 3
    NoSync = 8
    Nap = 2
    Work = 1
    Block = 2
    FirstPts = {0, 9}
    Spacings = {2, 3, 4}
    MaxAge = 4
    MaxMishaps = 2
    MaxAhead = 9
    MaxBehind = 10
INVARIANTS
    SleepBounded
PROPERTIES
    Converges
    NeverCaughtUp
CHECK_DEADLOCK FALSE
