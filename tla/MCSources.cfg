SPECIFICATION Spec
CONSTANTS
    Records <- MCRecords
    Since = 1
    Until = 4
    MaxRecords = 9
    Buckets = 2
    FrameLimit = 12
    MaxFrame = 24
    MaxRounds = 8
    Events = {1,2,3}
    CreatedAt <- MCCreatedAt
    Routes <- MCRoutes
    Publishers = {p1,p2}
    Sessions = {s1}
    Contents <- MCContents
    Limits = {0,1,2}
    MaxSeen = 1
    MaxPublishes = 2
    MaxFaults = 1
    Posted = {1, 2}
    LiveRequests <- MCLiveRequests
    LiveChoices = {{1, 3}, {1, 2}}
    Root = root
    Trusted = {ann}
    Strangers = {eve}
    Subjects = {1,2,3}
    MaxAge = 2
    FutureSkew = 1
    MaxEntries = 2
    MaxPerRater = 2
    MinInterval = 2
    RefreshInterval = 3
    ScoreDelta = 1
    BatchSize = 1
    EvaluationInterval = 1
    LastTime = 3
    MaxRatings = 3
    Nodes = {1, 2}
    BytesPerSat = 4
    CreditCap = 2
    MinSettlement = 2
    BatchInterval = 1
    FixedPrepay = 2
    Prefund = 3
    UpdateSat = 1
    Lifetime = 2
    MaxRetries = 1
    RetryAfter = 1
    Deadline = 1
    Claims = 1
    PublicDiscovery = FALSE
    HomeMint <- MCHomeMint
    Gateway = 0
    PayloadSizes = {3, 7}
    MaxBytes = 17
    LastDelivery = 1
INVARIANTS
    OncePerWindow NoneMissed NewestKept DifferenceExact  BooksBalance
CHECK_DEADLOCK FALSE
