SPECIFICATION Spec
CONSTANTS
    Events = {1, 2, 3, 4, 5, 6}
    Accepted = {1, 2, 3, 4, 5}
    CreatedAt <- MCCreatedAt
    ExpiresAt <- MCExpiresAt
    CoordOf <- MCCoordOf
    SizeOf <- MCSizeOf
    MaxEvents = 2
    MaxBytes = 5
    Buses = {b1, b2}
    MaxTime = 1
INVARIANT StoreSound
PROPERTY NoComeback
