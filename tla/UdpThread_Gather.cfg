SPECIFICATION Spec
CONSTANTS
    locate = locate
    measure = measure
    ap1 = ap1
    ap2 = ap2
    None = None
    Threads <- Servlets
    APs <- OneAP
    Datagrams <- Answers
    CreateOutcomes = {"refused"}
    MaxDatagrams = 2
PROPERTIES
    AllResponsesGathered
CHECK_DEADLOCK FALSE
