\* The deadline of a forwarded question against that of its call.
CONSTANTS
    c1 = c1
    c2 = c2
    u1 = u1
    u2 = u2
    Calls <- TwoCalls
    Upstreams <- TwoUpstreams
    Via <- OneEach
    Timeout = 2
SPECIFICATION Spec
INVARIANTS
    InheritsCallDeadline
CHECK_DEADLOCK FALSE
