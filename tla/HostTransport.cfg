CONSTANTS
    Devices = {d1, d2}
    MaxFrame = 3
    QueueLen = 1
    MaxBurst = 2
SPECIFICATION MCSpec
CHECK_DEADLOCK FALSE
INVARIANTS
    TornFromAbove
    FramesWhole
PROPERTIES
    PacketsLeave
