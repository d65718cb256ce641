SPECIFICATION MCSpec
CONSTANTS
    Agents = {a, b, s}
    Proxied = {s}
    Mode = "allow"
    MaxRetries = 1
    Threshold = 2
    Reset = 1
    MaxCalls = 2
    MaxTurns = 1
    MaxTime = 1
    Actors = {a, b}
    Records = {y, z}
    Pods = {r1, r2, r3}
    Nothing = Nothing
SYMMETRY Interchangeable
INVARIANTS
    EnforcesAnswers
    LoginHolds
    FleetIsTrue
    TrailIsComplete
    OutagesAreBounded
    HttpAnswersHold
    SecretsAreThere
PROPERTIES
    StepsAreSafe
CHECK_DEADLOCK FALSE
