SPECIFICATION Spec
CONSTANTS
    m1 = m1
    m2 = m2
    m3 = m3
    MACs <- TwoStations
    Frames <- HeardFrames
    MaxClock = 2
    MaxRate = 2
INVARIANTS
    EntriesHoldOwnSamples
CHECK_DEADLOCK FALSE
