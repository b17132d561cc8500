SPECIFICATION FairSpec
CONSTANTS
    Host = {"example.com", "www.iana.org", "google.com"}
    AllowedHost = {"example.com", "www.iana.org"}
    Address <- Addresses
    MaxPages = 2
    MaxMoves = 2
    NULL = NULL
INVARIANTS
    TypeOK
    StoredPagesAllowed
    
    BrowserOpensLast
    ScreenshotsOnDisk
    LoopWithoutBrowser
PROPERTIES
    VisitsAsWorker
    LoopEnds
\* The loop ends.
CHECK_DEADLOCK FALSE
