SPECIFICATION Spec
CONSTANTS
    Replicas = {a}
    Engines = {}
    Requests = {m1}
    Texts = {t1}
    Priorities = {1}
    Ops = {"delete"}
    Events = {"evaluate"}
    MaxVersions = 2
    Keep = 1
INVARIANTS
    DeleteFinal
CHECK_DEADLOCK FALSE
