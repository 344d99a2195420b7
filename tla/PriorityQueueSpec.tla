------------------------- MODULE PriorityQueueSpec -------------------------
(***************************************************************************)
(* What the priority queues promise: the wait queues of the semaphores,    *)
(* the bolts and the dations as sequences of tasks.                        *)
(***************************************************************************)
EXTENDS PriorityQueue

CONSTANTS Tasks, Prios, Queues

VARIABLES prio, queue

Init ==
    /\ prio \in [Tasks -> Prios]
    /\ queue = [q \in Queues |-> <<>>]

QueueInsert(q, x) ==
    /\ \A r \in Queues : x \notin QueueSet(queue[r])
    /\ queue' = [queue EXCEPT ![q] = Insert(@, x, prio)]
    /\ UNCHANGED prio

QueueRemove(q, x) ==
    /\ queue' = [queue EXCEPT ![q] = Remove(@, x)]
    /\ UNCHANGED prio

\* A new priority; a queued task that is at the head leaves in the same step.
NewPrio(q, x, p) ==
    /\ prio' = [prio EXCEPT ![x] = p]
    /\ queue' \in {queue, [queue EXCEPT ![q] = Remove(@, x)]}

Next ==
    \E q \in Queues, x \in Tasks :
        \/ QueueInsert(q, x) \/ QueueRemove(q, x)
        \/ \E p \in Prios : NewPrio(q, x, p)

Spec == Init /\ [][Next]_<<prio, queue>>
=============================================================================
