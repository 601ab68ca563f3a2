SPECIFICATION HttpSpec
CONSTANTS
    Data = {"a", "b", "v", "0", "cr", "lf"}
    Replies <- MCReplies
    Addresses = 2
    MaxRequests = 2
    BufSize = 7
INVARIANTS
    SocketsAccounted
    
    BodyFront
CHECK_DEADLOCK FALSE
