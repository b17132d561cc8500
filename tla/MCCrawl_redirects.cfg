SPECIFICATION Spec
CONSTANTS
    Host = {"example.com", "www.iana.org", "google.com"}
    AllowedHost = {"example.com", "www.iana.org"}
    Address <- Addresses
    MaxPages = 1
    MaxMoves = 2
    NULL = NULL
INVARIANT
    ContactsAllowedHostsOnly
\* The loop ends.
CHECK_DEADLOCK FALSE
