SPECIFICATION Spec
CONSTANTS
    Events = {e1, e2, e3}
    Peers = {p1}
    Subs = {"s1", "s2"}
    Fresh = {"s2"}
    Matches <- MCMatches
    Refused = {}
    MaxEvents = 1
    MaxAlternatives = 1
    MaxWantRetries = 1
    MaxReplay = 1
    MaxDelivered = 1
    MaxPayloads = 1
    MaxSeenIds = 2
    MaxActive = 1
    OutboxCap = 1
    MaxInputs = 3
    Claims = {"true"}
SYMMETRY Symmetry
 
PROPERTIES AdmittedKept ShutIsFinal
CHECK_DEADLOCK FALSE
