SPECIFICATION FairSpec
CONSTANTS
    Values = {0}
    Lists <- MCLongLists
    Callers = {"ui", "overlay"}
    Application = "ui"
    Offered <- MCListings
    Ticked = {"channels"}
    Chunk = 2
    ItemBytes = 2
INVARIANT RepliesFit
