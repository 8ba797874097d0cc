SPECIFICATION MCSpec
CONSTANTS
    Events = {e1, e2}
    Peers = {p1, p2}
    Subscriptions = {s1, s2}
    Claims = {c1}
    MaxEvents = 1
    MaxAlternatives = 1
    MaxWantRetries = 2
    RetryAfter = 1
    MaxResets = 1
    Callers = {c1, c2}
    Announcements = {"db"}
INVARIANTS WantsFair ShutdownJoins
PROPERTIES  WantsSettle ShutdownReturns
CHECK_DEADLOCK FALSE
