SPECIFICATION FairSpec
CONSTANTS
    Procs = {p1, p2}
    Tokens = {t1}
    Events = {"db_fails", "wipe", "redis_fails"}
    MaxClock = 0
    MaxLate = 0
    Nobody = Nobody
    Overlap = 2
PROPERTIES
    ImplementsDenylist
    CatchesUp
CHECK_DEADLOCK FALSE
