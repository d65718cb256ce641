SPECIFICATION Spec
CONSTANTS
    Writers = {w1, w2}
    Nobody = Nobody
    Caps = {1}
    Kinds = {"put", "delete", "warm"}
    Events = {"session_ends", "db_fails", "store_fails", "owner_expires", "flush", "call", "prune"}
    MaxLate = 0
SYMMETRY Interchangeable
INVARIANTS
    StoreCoversRegistry
    OkHoldsInBoth
PROPERTIES
    DeleteLiftsNothing
CHECK_DEADLOCK FALSE
