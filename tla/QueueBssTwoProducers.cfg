CONSTANTS
    N = 4
    Producers = {core1, timer}
    m1 = m1
    m2 = m2
    long = long
    Msgs <- MCMsgs
    LenOf <- MCLenOf
    ItemMaxLen = 2
    NoSlot = NoSlot
    Torn = Torn
    NoMsg = NoMsg
SPECIFICATION Spec
INVARIANT
    SingleProducer
