SPECIFICATION FairSpec
CONSTANTS
    locate = locate
    measure = measure
    ap1 = ap1
    ap2 = ap2
    None = None
    Threads <- Servlets
    APs <- TwoAPs
    Datagrams <- Answers
    CreateOutcomes = {"refused", "created"}
    MaxDatagrams = 3
INVARIANTS
    TypeOK
    InstanceListens
    DuplicatesNeedTwoListeners
PROPERTIES
    DeafForEver
    ListensAgain
CHECK_DEADLOCK FALSE
