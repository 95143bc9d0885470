CONSTANTS
    NOBODY = NOBODY
    r1 = r1
    r2 = r2
    r3 = r3
    Remotes <- Addresses
    KeySlots = 2
    MaxKeys = 4
    MaxCuts = 2
    Slots = {0, 1}
    RingLen = 4
    MaxTries = 3
    MaxErrors = 1
    HidSlots = {0, 1}
    Databases <- Controllers
    MaxDiscoveries = 2
    MaxRefusals = 1
SPECIFICATION Spec
CHECK_DEADLOCK FALSE
INVARIANTS
    NewestKeyOrNone
    ConfirmsItsRandom
    KeysOfOnePairing
    TablesApart
    AllSubscribed
PROPERTIES
    PairingEnds
    DiscoveryEnds
