SPECIFICATION Spec
CONSTANTS
    me = me
    other = other
    s1 = s1
    s2 = s2
    c1 = c1
    Users = {me, other}
    Servers = {s1, s2}
    Channels = {c1}
    VoiceChannels = {1, 2, 3}
    ServerOf <- MCServerOf
    MaxChanges = 3
    MaxDrops = 1
INVARIANTS
    TypeOK
    ServersAgree
    ChannelsAgree
    StatesAgree
    NobodyHidden
    PanelHasStates
CHECK_DEADLOCK FALSE
