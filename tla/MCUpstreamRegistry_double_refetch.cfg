\* Two requests at once, none cancelled: refetches that overlap.
CONSTANTS
    r1 = r1
    r2 = r2
    r3 = r3
    s1 = s1
    None = None
    Requests <- ThreeRequests
    Servers <- OneServer
    Target <- AllToS1
    Invokes <- TwoInvokes
    Listing = {0, 2}
    Changes <- TwoChanges
    MaxInFlight = 2
    Cancellation = FALSE
SPECIFICATION Spec
SYMMETRY SwapInvokes
INVARIANTS
    StaleIsMarked
\* The process exits at Shutdown.
CHECK_DEADLOCK FALSE
