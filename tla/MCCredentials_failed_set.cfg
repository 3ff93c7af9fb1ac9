\* A cred set that fails: what is in the keyring afterwards.
CONSTANTS
    p1 = p1
    p2 = p2
    p3 = p3
    a = a
    b = b
    idx = idx
    fromEnv = fromEnv
    None = None
    Procs <- ThreeProcs
    Keys <- TwoKeys
    IndexKey <- idx
    Commands <- AllCommands
    Env <- MCEnv
SPECIFICATION Spec
SYMMETRY SwapProcs
INVARIANTS
    FailedSetStoresNothing
\* Every process ends.
CHECK_DEADLOCK FALSE
