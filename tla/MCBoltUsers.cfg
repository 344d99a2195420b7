SPECIFICATION UsersSpec
CONSTANTS
    t1 = t1
    t2 = t2
    t3 = t3
    t4 = t4
    bolt = bolt
    NoTask = NoTask
    Tasks <- MCTasks
    Bolts = {bolt}
    Prios = {1, 2}
    DefaultPrio <- MCDefaultPrio
    MaxEnters = 4
    EnterLists <- MCLists
    LeaveLists <- MCLists
    ReserveLists <- MCLists
    FreeLists <- MCLists
    SuspendedOps = {"RESERVE"}
SYMMETRY Symmetry
INVARIANTS
    WriterAlone
    FreeOnlyIfNobodyWaits
