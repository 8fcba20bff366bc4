SPECIFICATION Spec
CONSTANTS
    zero = zero
    m1 = m1
    MACs <- Stations
    Frames <- HeardFrames
    ZeroMAC = zero
    Overlaid <- Others
    MaxClock = 3
    MaxRate = 1
    MaxSamples = 2
INVARIANTS
    RequestsSurvived
CHECK_DEADLOCK FALSE
