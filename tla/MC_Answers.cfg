SPECIFICATION MCSpec
CONSTANTS
    Requests = {r1, r2}
    Pods = {p, q}
    Namespaces = {m, n}
    None = None
    Gate = 1
    DetailRuns = 1
    SummaryRuns = 2
    DetailTtl = 0
    SummaryTtl = 1
    Stamps <- Microseconds
    Overruns = TRUE
    Errors = TRUE
    Crashes = TRUE
    Writers = {w1, w2}
INVARIANTS
    LatestKeepsDetail
    GuardIsSound
    SessionAnswersOnce
PROPERTIES
    AllAnswer
CHECK_DEADLOCK FALSE
