SPECIFICATION Spec
CONSTANTS
    c1 = c1
    c2 = c2
    i1 = i1
    i2 = i2
    r1 = r1
    r2 = r2
    Clients = {c1}
    Images = {i1, i2}
    Hosted = {i1}
    Filled = {i1}
    MaxDevice = 2
    Rules = {r1}
    MaxMounts = 2
    MaxEdits = 1
    MaxFaults = 1
INVARIANTS TypeOK MapsInStep RulesKept LeftoversExplained GuardedWhileMounted
CHECK_DEADLOCK FALSE
