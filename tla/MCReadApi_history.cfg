SPECIFICATION ReadSpec
CONSTANTS
    Task = {t1, t2, t3}
    Url = {u1, u2}
    MaxRuns = 1
    MaxPages = 2
    UrlCounts = {2}
    NULL = NULL
    Thread = {c1}
    Process = {w1}
    Faults = {}
    PageSize = 1
    Filters = {NULL, "draft"}
    SiteLimits = {1, 3}
SYMMETRY Symmetry
INVARIANTS
    ReadTypeOK
    WalkMissesNothing
    DetailIsComplete
    SitesCoverDetail
\* Tasks are deleted for good and runs are limited: the service may come to rest.
CHECK_DEADLOCK FALSE
