CONSTANTS
    p = p  q = q  p1 = p1  p2 = p2  q1 = q1  p3 = p3
    Threads = {p1, p2, p3, q1}
    Procs = {p, q}
    ProcOf <- MCProcOf
    Call <- MCCall
    MaxFaults = 1
    Nobody = Nobody
    Torn = Torn
    NoFile = NoFile
SPECIFICATION FairSpec
INVARIANTS
    TypeOK
    AckedUpdatesSurvive
PROPERTIES
    ReadersNotBlocked
    EveryoneFinishes
CHECK_DEADLOCK FALSE
