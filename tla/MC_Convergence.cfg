SPECIFICATION MCSpec
CONSTANTS
    Proxies = {p}
    Digests = {d1, d2}
    Flagged = {}
    None = None
    MaxChanges = 1
    MaxOps = 1
    MaxFaults = 1
    Policies = {p, q}
INVARIANTS
    CallableWasApproved
PROPERTIES
    Repaired
CHECK_DEADLOCK FALSE
