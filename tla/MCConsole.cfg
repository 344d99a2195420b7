SPECIFICATION FairSpec
CONSTANTS
    a = a
    b = b
    c = c
    None = None
    Tasks = {a, b, c}
    Prio <- MCPrio
    Disturbed = {a}
CHECK_DEADLOCK FALSE
INVARIANTS
    TypeOK
    ListsMatch
PROPERTIES
    HandedOn
    WritersServed
