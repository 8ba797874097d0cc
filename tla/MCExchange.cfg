SPECIFICATION Spec
CONSTANTS
    Relays = {r1, r2}
    LiveFilters = {f1, f2}
    Posts = {e1}
    ChannelCap = 1
    MinDelay = 1
    MaxDelay = 2
    MaxGaps = 3
    Keys = {"ann", "bob"}
    EventIds = {"e1", "e2"}
    KindTop = 4
    BytesTop = 6
    HopTop = 2
    MaxFilters = 2
    MaxReplay = 2
    MaxFrame = 8
    Bodies = {1, 2, 3}
    Nonces = {1, 2}
    CacheCapacity = 2
    Ids = {1, 2, 3}
    Scores <- MCScores
    MaxPeers = 4
    MaxFanout = 2
INVARIANTS
    ClosedIsFinal Understood CacheExact 

    
CHECK_DEADLOCK FALSE
