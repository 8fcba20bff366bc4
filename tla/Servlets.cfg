SPECIFICATION FairSpec
CONSTANTS
    l1 = l1
    l2 = l2
    l3 = l3
    p1 = p1
    p2 = p2
    ip5 = ip5
    ip56 = ip56
    ip7 = ip7
    mac5 = mac5
    mac56 = mac56
    mac7 = mac7
    None = None
    LocateRequests = {l1, l2}
    MeasureRequests = {p1, p2}
    IPs <- Addresses
    MACs <- Stations
    Client <- From
    Inside <- Prefix
    Tables <- AnyTable
    Workers = 2
INVARIANTS
    TypeOK
    ListedWereAsked
PROPERTIES
    MeasureStarvesLocate
    UnheardForEver
    AloneLocatesOwn
    AnsweredUnlessSpinning
CHECK_DEADLOCK FALSE
