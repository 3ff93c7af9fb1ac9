\* One request at a time, and the client may cancel it: a dropped refetch.
CONSTANTS
    r1 = r1
    r2 = r2
    r3 = r3
    s1 = s1
    None = None
    Requests <- ThreeRequests
    Servers <- OneServer
    Target <- AllToS1
    Invokes <- TwoInvokes
    Listing = {0, 2}
    Changes <- TwoChanges
    MaxInFlight = 1
    Cancellation = TRUE
SPECIFICATION Spec
SYMMETRY SwapInvokes
INVARIANTS
    StaleIsMarked
\* The process exits at Shutdown.
CHECK_DEADLOCK FALSE
