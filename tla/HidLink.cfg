CONSTANTS
    MaxStarts = 3
    MaxRumbles = 1
    Ps3Timers = {t1, t2, t3}
    NO_TIMER = NO_TIMER
    MaxPlugs = 4
    MaxInits = 2
SPECIFICATION HidsSpec
CHECK_DEADLOCK FALSE
INVARIANTS
    UsedWhenConfigured
    InitialisedForType
    OwnCalibrationUsed
PROPERTIES
    ReportsStart
    Ps3Stops
    ExtensionKnown
