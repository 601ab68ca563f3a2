SPECIFICATION FairSpec
CONSTANTS
    QueueLimit = 2
    MaxAge = 1
    MaxTime = 3
    MaxPackets = 5
INVARIANT TypeOK
PROPERTIES
    KeepsPromises
    CallsReturn
CHECK_DEADLOCK FALSE
