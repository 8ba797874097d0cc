SPECIFICATION Spec
CONSTANTS
    Events = {e1}
    Peers = {p1, p2}
    Subs = {"s1", "s2"}
    Fresh = {}
    Matches <- MCMatches
    Refused = {}
    MaxEvents = 1
    MaxAlternatives = 1
    MaxWantRetries = 1
    MaxReplay = 1
    MaxDelivered = 4
    MaxPayloads = 1
    MaxSeenIds = 2
    MaxActive = 2
    OutboxCap = 3
    MaxInputs = 2
    Claims = {"true"}
INVARIANT DeliveredToEvery
CHECK_DEADLOCK FALSE
