SPECIFICATION MutexSpec
CONSTANTS
    t1 = t1
    t2 = t2
    t3 = t3
    m = m
    Tasks <- MCTasks
    Semas = {m}
    Prios = {1, 2}
    DefaultPrio <- MCDefaultPrio
    MaxValue = 2
    Preset <- MCPreset
    RequestLists <- MCLists
    ReleaseLists <- MCLists
    Disturbed <- MCDisturbed
INVARIANT
    OneHolder
PROPERTY
    UrgentEnters
