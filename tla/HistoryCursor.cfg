SPECIFICATION FairSpec
CONSTANTS
    Events = {e1, e2, e3}
    Stamps = {0, 1, 2, 3}
    FirstUntil = 3
    Since = 1
    InitialLimit = 1
    MaxLimit = 2
    MaxGeneration = 12
    MaxPartials = 1
INVARIANTS NothingSkipped ExhaustedIsComplete LimitedOnlyAtCap
PROPERTY PagingEnds
