SPECIFICATION FairSpec
CONSTANTS
    MaxLogins = 2
INVARIANTS
    TypeOK
    StopsStay
    ConnectedTokenSaved
PROPERTIES
    UiFollows
