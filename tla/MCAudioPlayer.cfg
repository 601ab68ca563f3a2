SPECIFICATION FairSpec
CONSTANTS
    Ssrcs = {1, 2}
    QueueLimit = 1
    MaxAge = 1
    MaxTime = 2
    MaxPackets = 3
INVARIANTS
    TypeOK
    KeysHavePackets
PROPERTIES
    KeepsPromises
    QueueDrains
CHECK_DEADLOCK FALSE
