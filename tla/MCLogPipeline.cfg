SPECIFICATION Spec
CONSTANTS
    readerA = readerA
    notificationA = notificationA
    readerB = readerB
    A = A
    B = B
    log = log
    None = None
    Sources = {readerA, notificationA, readerB}
    Stderr = {readerA, readerB}
    Servers = {A, B}
    Files = {log}
    Server <- ServerOf
    LogFile <- OneFile
    Lines <- LinesOf
    PipeSize = 1
    Capacity = 1
INVARIANTS
    TypeOK
    InOrder
    Attributed
    NoSilentLoss
PROPERTIES
    NeverStuck
CHECK_DEADLOCK FALSE
