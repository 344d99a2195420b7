SPECIFICATION FairSpec
CONSTANTS
    u1 = u1
    u2 = u2
    u3 = u3
    None = None
    Users = {u1, u2, u3}
    Controlled = {u1, u3}
    Controllers = {"b"}
    Prio <- MCPrio
    WithRst = {u1}
    TerminateAnywhere = FALSE
CHECK_DEADLOCK FALSE
INVARIANTS
    TypeOK
    OneUser
    BusyMeansOwned
    QueueMatches
PROPERTIES
    OperationsReturn
