SPECIFICATION StreamSpec
CONSTANTS
    InBuf = 2
    OutBuf = 3
    Messages <- MCMessages
    MaxMessages = 2
INVARIANTS
    StreamTypeOK
    MessageWhole
    StreamSatisfied
