SPECIFICATION MCSpec
VIEW StateView
CONSTANTS
    Events = {"a", "b", "c"}
    Peers = {p1, p2}
    SubIds = {"s1", "s2"}
    Matches <- MCMatches
    Public = {"a"}
    Refused = {"c"}
    Roles = {"full", "receiver", "publisher"}
    Stores = {"db", "db2"}
    Workers = {w1}
    MaxSubsPerPeer = 1
    Fanout = 1
    MaxReplay = 2
    MaxHops = 1
    MaxPayloads = 1
    MaxSeenIds = 2
    ReplayCap = 1
    OutboxCap = 2
    MaxInputs = 3
    Npubs = {p1, p2, p3}
    OutboundCap = 1
    InboundCap = 1
    Epochs = {1, 2}
    RetryInterval = 2
    MaxRetryInterval = 4
    StableInterval = 3
    IdleTimeout = 2
    MaxFailures = 2
    Providers = {p1, p2}
    DecayInterval = 2
    DisconnectScore = 3
    CooldownTime = 3
    Grace = 1
    MaxTracked = 1
    MaxPoints = 4
    MaxAge = 3
    Subscriptions = {s1, s2}
    Ids = {a, b}
    MaxPerScope = 1
    MaxTotal = 2
    MaxGeneration = 5
    narrow = narrow
    wide = wide
    huge = huge
    Requests <- MCRequests
    FilterCount <- MCFilterCount
    EncodedBytes <- MCEncodedBytes
    StorePeers = {p1, p2, p3}
    SubscriptionIds = {s1, s2, s3}
    MaxPeers = 2
    MaxSubscriptions = 2
    MaxFilters = 2
INVARIANTS ServesHonestly  TablesAccounted
PROPERTIES  ImplementsWindow ImplementsRecent
CHECK_DEADLOCK FALSE
