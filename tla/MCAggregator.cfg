\* Two concurrent requests, every shape of ACL, failing upstreams.
SPECIFICATION FairSpec
CONSTANTS
    Requests = {r1, r2}
    None = None
    db = db
    web = web
    typo = typo
    read = read
    write = write
    odd = odd
    Servers = {db, web}
    Names = {db, web, typo}
    Tools = {read, write, odd}
    Rank <- MCRank
    Shown <- MCShown
    Inventories <- MCInventories
    Acls <- MCAcls
    Asks <- MCAsks
    Changes = 1
INVARIANTS
    TypeOK
    AclBeforeContact
    AnswerIsTruthful
    ListingIsWhole
    ListedIsInvocable
PROPERTY EveryRequestAnswered
\* Every request is answered once.
CHECK_DEADLOCK FALSE
