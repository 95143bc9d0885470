CONSTANTS
    b1 = b1
    l1 = l1
    l2 = l2
    c1 = c1
    BrPeers = {b1}
    LePeers = {l1, l2}
    Centrals = {c1}
    Addrs <- MCTwoLe
    NoAddr = NoAddr
    BT_MAX_DEV = 2
    Handles = {1, 2}
    InqAuto = TRUE
    BT_MAX_RETRY = 2
    BT_INQUIRY_MAX = 1
SPECIFICATION Spec
INVARIANT
    NoSlotStranded
