SPECIFICATION Spec
CONSTANTS
    Writers = {w1, w2}
    Nobody = Nobody
    Caps = {1}
    Kinds = {"put"}
    Events = {"session_ends", "store_fails", "owner_expires"}
    MaxLate = 1
SYMMETRY Interchangeable
INVARIANTS
    FenceHolds
CHECK_DEADLOCK FALSE
