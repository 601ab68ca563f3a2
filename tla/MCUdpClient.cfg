SPECIFICATION FairSpec
CONSTANTS
    MaxConnects = 3
    MaxHandlers = 4
INVARIANTS
    QuietAfterDisconnect
    DeliversCurrentConnect
    LostOnlyIfDeaf
    AtMostOneStaleCall
PROPERTIES
    OwnerReturns
CHECK_DEADLOCK FALSE
