\* Two players, together or one after the other, two surfaces.  A process
\* that crashed, and threads that wait for a window, stop.
SPECIFICATION OutFairSpec
CONSTANTS
    Players = {p1, p2}
    MaxWindows = 2
    Nobody = Nobody
    NoWindow = NoWindow
INVARIANTS
    UnseenReason
    DeadWindowReason
PROPERTY RenderReturns
CHECK_DEADLOCK FALSE
