SPECIFICATION FairSpec
CONSTANTS
    g1 = g1
    g2 = g2
    p1 = p1
    p2 = p2
    h1 = h1
    h2 = h2
    timer = timer
    k1 = k1
    k2 = k2
    shared = shared
    Kinds = {"Access", "Program", "Enclave", "Hash"}
    Guids = {g1}
    Paths = {p1, p2}
    Handlers = {h1, h2}
    Timer = timer
    Scripts = {}
    Keys = {k1}
    Names = {shared}
    MaxKeys = 1
    MaxChanges = 3
    MaxFaults = 1
INVARIANTS TypeOK NoChangeMissed WrongOnlyIfOvertaken ListsInStep
PROPERTIES PurgesOnlyExpiring CatchesUp
CHECK_DEADLOCK FALSE
