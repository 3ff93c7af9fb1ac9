\* A server that hangs beside a healthy one, and what the handlers rely on.
CONSTANTS
    r1 = r1
    r2 = r2
    r3 = r3
    s1 = s1
    s2 = s2
    None = None
    Requests <- ThreeRequests
    Servers <- TwoServers
    Target <- SplitTarget
    Invokes = {r1}
    Listing = {0}
    Changes <- S1Changes
    MaxInFlight = 3
    Cancellation = TRUE
SPECIFICATION IsolationSpec
PROPERTIES
    ImplementsService
    ReadsFromService
    HealthyAnswered
\* The process exits at Shutdown.
CHECK_DEADLOCK FALSE
