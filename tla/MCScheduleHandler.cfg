SPECIFICATION FairSpec
CONSTANTS
    Delays <- MCDelays
    MaxTimers = 3
    MaxTime = 3
INVARIANTS
    NoLostTimer
    CountdownExact
PROPERTIES
    TickServesDue
    KeepsPromises
    EveryTimerSettles
