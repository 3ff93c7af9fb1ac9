\* Two checks write one cache file while a session reads it.
SPECIFICATION Spec
CONSTANTS
    Checks = {c1, c2}
    Sessions = {n1}
    None = None
    Empty = Empty
    Broken = Broken
    db = db
    api = api
    read = read
    write = write
    drop = drop
    old = old
    new = new
    Servers = {db, api}
    Tools = {read, write, drop}
    Rank <- MCRank
    Configs <- MCConfigs
    Inventories <- MCInventories
    Budget = 7
    LineCost = 1
    HintCost = 1
    MoreCost = 1
    Edits = 1
    Kills = 1
SYMMETRY CheckSymmetry
INVARIANTS
    TypeOK
    CacheIsPreflight
    HintsComeFromCheck
    HintsFit
    VerdictIsSound
    NothingLeftRunning
    UnreadableForCause
\* Every check may have ended.
CHECK_DEADLOCK FALSE
