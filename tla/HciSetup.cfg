CONSTANTS
    NCmds = 8
    LoadList = 3
    ScanEnable = 5
    NKeys = 2
    BT_MAX_RETRY = 3
    MaxErrors = 6
    MaxRuntime = 2
SPECIFICATION FairSpec
INVARIANTS
    AllAcknowledged
    BondedAccepted
PROPERTIES
    SetupEnds
CHECK_DEADLOCK FALSE
