SPECIFICATION Spec
CONSTANTS
    Task = {t1}
    Url = {u1, u2}
    MaxRuns = 2
    MaxPages = 2
    UrlCounts = {2}
    NULL = NULL
    Thread = {c1}
    Process = {w1, w2}
    Faults = {"redis", "redis_restart", "database", "api", "worker"}
SYMMETRY Symmetry
INVARIANTS
    ResultMatchesPages
    PagesAreListed
    SingleCustody
    OneLiveRun
    RunningTaskHasActiveRun
PROPERTIES
    ExecutesAtMostOnce
\* Tasks are deleted for good and runs are limited: the service may come to rest.
CHECK_DEADLOCK FALSE
