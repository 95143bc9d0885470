CONSTANTS
    Writers = {core1, web}
    Blocks = {0, 1}
    QueueLen = 2
    MaxFiles = 1
    Torn = Torn
    MaxWrites = 3
    MaxFails = 1
SPECIFICATION FairCardSpec
INVARIANTS
    LostOnlyByRace
PROPERTIES
    AllStored
