SPECIFICATION FairSpec
CONSTANTS
    Address = {1, 2, 3}
INVARIANTS
    EachTickedOnce
    CurrentIsReady
    OneAtATime
PROPERTIES
    VoiceLoopEnding
