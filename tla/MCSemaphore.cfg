SPECIFICATION Spec
CONSTANTS
    t1 = t1
    t2 = t2
    t3 = t3
    s1 = s1
    s2 = s2
    Tasks <- MCTasks
    Semas <- MCSemas
    Prios = {1, 2}
    DefaultPrio <- MCDefaultPrio
    MaxValue = 2
    Preset <- MCPreset
    RequestLists <- MCRequestLists
    ReleaseLists <- MCSingleReleases
SYMMETRY Symmetry
INVARIANTS
    QueueIsBlocked
    NoMissedWakeup
PROPERTIES
    GrantsByPriority
