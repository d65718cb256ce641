SPECIFICATION Spec
CONSTANTS
    Procs = {p1, p2}
    Tokens = {t1}
    Events = {"db_fails", "exit", "expire"}
    MaxClock = 2
    MaxLate = 1
    Nobody = Nobody
    Overlap = 2
SYMMETRY Interchangeable
INVARIANTS
    PullMissesNothing
    NothingDropped
CHECK_DEADLOCK FALSE
