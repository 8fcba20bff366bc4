SPECIFICATION FairSpec
CONSTANTS
    l1 = l1
    l2 = l2
    p1 = p1
    ip5 = ip5
    ip56 = ip56
    mac5 = mac5
    mac56 = mac56
    ap1 = ap1
    None = None
    LocateRequests = {l1, l2}
    MeasureRequests = {p1}
    IPs <- Addresses
    MACs <- Stations
    Client <- From
    Inside <- Itself
    Tables <- Table
    Workers = 2
    Datagrams <- Answers
    APs = {ap1}
    CreateOutcomes = {"refused"}
    MaxDatagrams = 1
INVARIANTS
    TypeOK
    SomeServletServes
    AskedAfterStart
PROPERTIES
    ImplementsServlets
    UseWakesListener
    WinnerTakesAll
CHECK_DEADLOCK FALSE
