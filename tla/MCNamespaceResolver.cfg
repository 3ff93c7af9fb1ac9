\* Every small extends graph, and every small ACL on three graphs.
CONSTANTS
    a = a
    b = b
    c = c
    x = x
    s1 = s1
    s2 = s2
    t1 = t1
    t2 = t2
    NoFilter = NoFilter
    Names <- FourNames
    Servers <- TwoServers
    Configured <- OneConfigured
    Tools <- TwoTools
    MaxDepth = 2
    Configs <- AllConfigs
SPECIFICATION Spec
INVARIANTS
    TypeOK
    ResolvesLineage
    VerdictIsJust
    NeverPanics
    StackIsChain
