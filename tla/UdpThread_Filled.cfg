SPECIFICATION FairSpec
CONSTANTS
    locate = locate
    measure = measure
    ap1 = ap1
    ap2 = ap2
    None = None
    Threads <- Servlets
    APs <- OneAP
    Datagrams <- Answers
    CreateOutcomes = {"refused"}
    MaxDatagrams = 1
PROPERTIES
    DatabaseIsFilled
CHECK_DEADLOCK FALSE
