SPECIFICATION FairSpec
CONSTANTS
    a = a
    b = b
    NoHost = NoHost
    Host = {a, b}
    Sizes <- MCSizes
    Capacity = 4
    MaxAttempts = 2
    MaxEvents = 2
    Resets = {0, 1}
INVARIANTS
    LoadingIsActive
    PageIsRight
    CurlIsRight
PROPERTIES
    FetchEnds
    CurlReturns
CHECK_DEADLOCK FALSE
