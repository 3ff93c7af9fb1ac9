\* Concurrent questions, late answers, a client that leaves or never answers.
CONSTANTS
    c1 = c1
    c2 = c2
    u1 = u1
    u2 = u2
    Calls <- TwoCalls
    Upstreams <- TwoUpstreams
    Via <- OneEach
    Timeout = 2
SPECIFICATION FairSpec
INVARIANTS
    TypeOK
    AcceptIsConsent
    HonestCapability
PROPERTIES
    EveryPromptResolved
\* Every call may end and every question be settled.
CHECK_DEADLOCK FALSE
