SPECIFICATION Spec
CONSTANTS
    Tasks = {t1, t2, t3}
    Prios = {1, 2}
    Queues = {semaphores, bolts}
    Null = Null
INVARIANTS
    LinksAgree
    SortedWhenIdle
PROPERTIES
    LinksImplementQueues
