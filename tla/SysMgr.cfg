CONSTANTS
    MaxHold = 640
    MaxDev = 2
    port_cnt = 2
    Hotplug = FALSE
    InqAuto = TRUE
    CmdRoom = 1
    Every = 1
SPECIFICATION MCSpec
CHECK_DEADLOCK FALSE
INVARIANTS
    LedTellsAction
    PortsApart
PROPERTIES
    InquiryFollowsPower
