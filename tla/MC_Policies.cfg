SPECIFICATION MCSpec
CONSTANTS
    Replicas = {a, b}
    Engines = {}
    Engine = e
    Requests = {m1, m2}
    Texts = {t1}
    Priorities = {1}
    Ops = {"save", "delete", "apply", "rollback"}
    Events = {}
    MaxVersions = 2
    Keep = 0
    PolicyKeys = {k}
    DryKeys = {d1, d2}
    Nothing = Nothing
SYMMETRY Interchangeable
INVARIANTS
    CurrentVersionKept
    EnginesFollow
    AnsweredByItsOwnText
    EngineIsAsStrictAsShown
    CapsAndControlsHold
    VerbsAreKept
PROPERTY
    DraftsGoForAReason
CHECK_DEADLOCK FALSE
