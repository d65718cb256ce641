SPECIFICATION Spec
CONSTANTS
    Pods = {p, q}
    Calls = {c1, c2}
    Ttl = 1
    L1Ttl = 1
    MaxCall = 1
    MaxTime = 5
    MaxVersions = 2
SYMMETRY Interchangeable
INVARIANTS
    StaleBound
CHECK_DEADLOCK FALSE
