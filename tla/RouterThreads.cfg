SPECIFICATION FairSpec
CONSTANTS
    zero = zero
    m1 = m1
    MACs <- Stations
    Frames <- HeardFrames
    ZeroMAC = zero
    Overlaid <- Others
    MaxClock = 3
    MaxRate = 1
    MaxSamples = 3
INVARIANTS
    TypeOK
    MemoryExact
    UndisturbedAverage
    FaultsNeedChanges
    FaultsInWindows
PROPERTIES
    ImplementsRssiThread
    WalksEnd
CHECK_DEADLOCK FALSE
