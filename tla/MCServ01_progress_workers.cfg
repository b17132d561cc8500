SPECIFICATION FairSpec
CONSTANTS
    Task = {t1}
    Url = {u1}
    MaxRuns = 2
    MaxPages = 1
    UrlCounts = {1}
    NULL = NULL
    Thread = {c1}
    Process = {w1, w2}
    Faults = {"redis", "database"}
INVARIANTS
    NoOrphanRun
PROPERTIES
    RunsEnd
    RunningEnds
    JobsEnd
\* Tasks are deleted for good and runs are limited: the service may come to rest.
CHECK_DEADLOCK FALSE
