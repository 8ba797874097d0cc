SPECIFICATION Spec
CONSTANTS
    e1 = e1
    e2 = e2
    Events = {e1}
    MalformedId = malformed
    Forged = forged
    Peers = {1, 2}
    KindOf <- MCKindOf
    SizeOf <- MCSizeOf
    Options <- MCOptions
    Announcements <- MCAnnouncements
    PeerLists <- MCPeerLists
    MaxSeen = 2
    RouteTtl = 2
    EventTtl = 2
    MaxProviders = 2
    ValidFrameReward = 0
    InvalidMessagePenalty = 0
    UnservedPenalty = 0
    ScoreCap = 0
    MinSamples = 1
    MaxTracked = 1
    CounterMax = 0
    MaxTime = 3
    Hops = {0, 1, 2}
PROPERTIES
    WaitersKeptWithRoute
