SPECIFICATION Spec
CONSTANTS
    l1 = l1
    l2 = l2
    l3 = l3
    p1 = p1
    p2 = p2
    ip5 = ip5
    ip56 = ip56
    ip7 = ip7
    mac5 = mac5
    mac56 = mac56
    mac7 = mac7
    None = None
    LocateRequests = {l1, l2, l3}
    MeasureRequests = {p1}
    IPs <- Addresses
    MACs <- Stations
    Client <- From
    Inside <- Prefix
    Tables <- FullTable
    Workers = 2
PROPERTIES
    PendingTellsOfPending
CHECK_DEADLOCK FALSE
