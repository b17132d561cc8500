SPECIFICATION FairSpec
CONSTANTS
    Task = {t1}
    Url = {u1}
    MaxRuns = 1
    MaxPages = 2
    UrlCounts = {0, 2}
    NULL = NULL
    Thread = {c1, c2}
    Process = {w1}
    Faults = {"redis", "database"}
INVARIANTS
    TypeOK
    SingleCustody
    CancelledNotQueued
    IInv
    NoOrphanRun
    PagesInOrder
    ResultMatchesPages
PROPERTIES
    RunsEnd
    RunningEnds
    CancelStopsAfterOnePage
    FailedInQueueNeverRuns
\* Tasks are deleted for good and runs are limited: the service may come to rest.
CHECK_DEADLOCK FALSE
