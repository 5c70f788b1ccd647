\* Everything that can wake the decoder besides popFrame(): what survives.
SPECIFICATION Spec
CONSTANTS
    MaxSize = 2
    KeepLast = TRUE
    MaxFrames = 6
    Disturbances = {"spurious", "restart", "abort", "flush"}
INVARIANTS
    IndexesAgree
    WaitJustified
CHECK_DEADLOCK FALSE
