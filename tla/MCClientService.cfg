SPECIFICATION FairSpec
CONSTANTS
    Values = {0, 1}
    Lists <- MCLists
    Callers = {"ui", "overlay"}
    Application = "ui"
    Offered <- MCOffered
    Ticked = {"voice", "channels"}
    Chunk = 1
    ItemBytes = 2
INVARIANT ThreadEndsFirst
PROPERTY Implements CallsReturn
