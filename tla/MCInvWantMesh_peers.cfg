SPECIFICATION Spec
CONSTANTS
    e1 = e1
    e2 = e2
    Events = {e1}
    MalformedId = malformed
    Forged = forged
    Peers = {1, 2, 3}
    KindOf <- MCKindOf
    SizeOf <- MCSizeOf
    Options <- MCOptions
    Announcements <- MCAnnouncements
    PeerLists <- MCPeerLists
    MaxSeen = 2
    RouteTtl = 1
    EventTtl = 1
    MaxProviders = 2
    ValidFrameReward = 1
    InvalidMessagePenalty = 2
    UnservedPenalty = 1
    ScoreCap = 2
    MinSamples = 2
    MaxTracked = 1
    CounterMax = 2
    MaxTime = 2
    Hops = {2}
INVARIANTS
    ScoresEarned
VIEW StateView
