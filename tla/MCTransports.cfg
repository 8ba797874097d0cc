SPECIFICATION Spec
CONSTANTS
    MaxSlots = 2
    MaxTuples = 2
    QueueCap = 2
    MaxFaults = 1
    MaxFrames = 2
    Events = {e1}
INVARIANT InOrder
PROPERTIES StreamsSettle 
CHECK_DEADLOCK FALSE
