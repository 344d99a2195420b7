SPECIFICATION FairSpec
CONSTANTS
    m = m
    v = v
    w = w
    Timer = Timer
    NoTask = NoTask
    Main = m
    Tasks = {m, v, w}
    Threads = {1, 2, 3}
    MaxAcks = 1
    Programs <- MCPrograms
CHECK_DEADLOCK FALSE
INVARIANTS
    TypeOK
    LockHandedOver
    OneThread
    CleanStart
PROPERTIES
    OperationsReturn
    OverrunMadeUp
