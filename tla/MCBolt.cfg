SPECIFICATION Spec
CONSTANTS
    t1 = t1
    t2 = t2
    t3 = t3
    b1 = b1
    b2 = b2
    NoTask = NoTask
    Tasks <- MCTasks
    Bolts <- MCBolts
    Prios = {1, 2}
    DefaultPrio <- MCDefaultPrio
    MaxEnters = 2
    EnterLists <- MCLists
    LeaveLists <- MCLists
    ReserveLists <- MCLists
    FreeLists <- MCPairs
    SuspendedOps = {"RESERVE"}
SYMMETRY Symmetry
INVARIANTS
    CountMatchesState
PROPERTY
    ReserveServed
