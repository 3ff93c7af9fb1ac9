\* Three requests race for one server whose inventory changes twice, with
\* timeouts, cancellation and shutdown.
CONSTANTS
    r1 = r1
    r2 = r2
    r3 = r3
    s1 = s1
    None = None
    Requests <- ThreeRequests
    Servers <- OneServer
    Target <- AllToS1
    Invokes <- TwoInvokes
    Listing = {0, 2}
    Changes <- TwoChanges
    MaxInFlight = 3
    Cancellation = TRUE
SPECIFICATION Spec
SYMMETRY SwapInvokes
INVARIANTS
    TypeOK
    OneUpstream
    NoOrphan
    StaleForCause
    NoStaleRead
PROPERTIES
    CacheMovesForward
    ImplementsLazyUpstream
\* The process exits at Shutdown.
CHECK_DEADLOCK FALSE
