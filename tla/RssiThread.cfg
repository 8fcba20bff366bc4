SPECIFICATION FairSpec
CONSTANTS
    m1 = m1
    m2 = m2
    m3 = m3
    MACs <- Stations
    Frames <- HeardFrames
    MaxClock = 3
    MaxRate = 2
INVARIANTS
    TypeOK
    DevicesDistinct
    StraysBounded
    SamplesInDateOrder
PROPERTIES
    ExpiryIsExact
    DevicesPersist
    OutdatedRemoved
CHECK_DEADLOCK FALSE
