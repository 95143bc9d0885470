CONSTANTS
    N = 4
    Producers = {core1}
    m1 = m1
    m2 = m2
    long = long
    Msgs <- MCMsgs
    LenOf <- MCLenOf
    ItemMaxLen = 2
    NoSlot = NoSlot
    Torn = Torn
    NoMsg = NoMsg
    KbKeys = {1, 2}
    CodeQueueLen = 3
    Timers = {t1, t2, t3}
    FbQueueLen = 3
    NULL = NULL
    PsCommands = {"on", "off", "enter", "leave", "analog", "map"}
    Letters = {"other", "leave"}
SPECIFICATION CoresSpec
CHECK_DEADLOCK FALSE
INVARIANTS
    KeysAgree
    PadObeys
PROPERTIES
    DroppedOnlyWhenFull
    ImplementsChannel
    StallEnds
    RumbleStops
