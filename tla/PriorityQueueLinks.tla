------------------------ MODULE PriorityQueueLinks ------------------------
(***************************************************************************)
(* runtime/common/PriorityQueue.cc at the level of its pointers.  There is *)
(* one head per queue (Semaphore::waiters, Bolt::waiters, the wait queues  *)
(* of the dations), but a task has a single link field, blockParams.next,  *)
(* which all queues use.  The loops of insert(), remove() and of the scans *)
(* in Semaphore::release() and Bolt::leaveOrFree() are stepped through;    *)
(* each operation runs under mutexTasks, so one at a time.                 *)
(***************************************************************************)
EXTENDS Integers, Sequences, FiniteSets

CONSTANTS
    Tasks,
    Prios,
    Queues,
    Null            \* the null pointer

ASSUME LinksAssumption == Prios \subseteq Int /\ Null \notin Tasks

VARIABLES
    prio,           \* currentPrio
    in,             \* the queue a task is blocked in, Null for none (history)
    head,           \* PriorityQueue::head
    next,           \* blockParams.next
    op              \* the operation under way and its locals

vars == <<prio, in, head, next, op>>

Idle == [name |-> "idle"]

Init ==
    /\ prio \in [Tasks -> Prios]
    /\ in = [t \in Tasks |-> Null]
    /\ head = [q \in Queues |-> Null]
    /\ next = [t \in Tasks |-> Null]
    /\ op = Idle

-----------------------------------------------------------------------------
\* insert(x) as far as the head: an empty queue, a head of worse priority, or
\* else the loop.
InsertInto(q, x) ==
    IF head[q] = Null \/ prio[head[q]] > prio[x]
    THEN /\ next' = [next EXCEPT ![x] = head[q]]
         /\ head' = [head EXCEPT ![q] = x]
         /\ in' = [in EXCEPT ![x] = q]
         /\ op' = Idle
    ELSE /\ op' = [name |-> "insert", q |-> q, x |-> x, i |-> head[q]]
         /\ UNCHANGED <<head, next, in>>

InsertStart(q, x) ==
    /\ op = Idle /\ in[x] = Null
    /\ InsertInto(q, x)
    /\ UNCHANGED prio

\* Faulty variant: a task goes in front of the tasks of equal priority.
InsertLoopLifo ==
    /\ op.name = "insert"
    /\ LET i == op.i
           n == next[i] IN
       IF n = Null \/ (prio[i] < prio[op.x] /\ prio[op.x] <= prio[n])
       THEN /\ next' = [next EXCEPT ![op.x] = n, ![i] = op.x]
            /\ in' = [in EXCEPT ![op.x] = op.q]
            /\ op' = Idle
       ELSE /\ op' = [op EXCEPT !.i = n]
            /\ UNCHANGED <<next, in>>
    /\ UNCHANGED <<prio, head>>

\* One turn of the loop of insert().
InsertLoop ==
    /\ op.name = "insert"
    /\ LET i == op.i
           n == next[i] IN
       IF n = Null \/ (prio[i] <= prio[op.x] /\ prio[op.x] < prio[n])
       THEN /\ next' = [next EXCEPT ![op.x] = n, ![i] = op.x]
            /\ in' = [in EXCEPT ![op.x] = op.q]
            /\ op' = Idle
       ELSE /\ op' = [op EXCEPT !.i = n]
            /\ UNCHANGED <<next, in>>
    /\ UNCHANGED <<prio, head>>

\* remove(x) as far as the head; the callers go on with `after'.
RemoveFrom(q, x, after) ==
    IF head[q] = x
    THEN /\ head' = [head EXCEPT ![q] = next[x]]
         /\ next' = [next EXCEPT ![x] = Null]
         /\ in' = [in EXCEPT ![x] = Null]
         /\ op' = after
    ELSE /\ op' = [name |-> "remove", q |-> q, x |-> x, i |-> head[q], after |-> after]
         /\ UNCHANGED <<head, next, in>>

\* A task leaves its queue by SUSPEND or TERMINATE.  remove() is also called for
\* a task that is in no queue, when a suspended request succeeds.
RemoveStart(q, x) ==
    /\ op = Idle /\ in[x] \in {q, Null}
    /\ RemoveFrom(q, x, Idle)
    /\ UNCHANGED prio

\* Faulty variant: the unlinked task keeps its link.
RemoveLoopKeepsLink ==
    /\ op.name = "remove"
    /\ \/ op.i = Null /\ op' = op.after /\ UNCHANGED <<next, in>>
       \/ /\ op.i # Null /\ next[op.i] = op.x
          /\ next' = [next EXCEPT ![op.i] = next[op.x]]
          /\ in' = [in EXCEPT ![op.x] = Null]
          /\ op' = op.after
       \/ /\ op.i # Null /\ next[op.i] # op.x
          /\ op' = [op EXCEPT !.i = next[op.i]]
          /\ UNCHANGED <<next, in>>
    /\ UNCHANGED <<prio, head>>

\* One turn of the loop of remove().
RemoveLoop ==
    /\ op.name = "remove"
    /\ \/ op.i = Null /\ op' = op.after /\ UNCHANGED <<next, in>>
       \/ /\ op.i # Null /\ next[op.i] = op.x
          /\ next' = [next EXCEPT ![op.i] = next[op.x], ![op.x] = Null]
          /\ in' = [in EXCEPT ![op.x] = Null]
          /\ op' = op.after
       \/ /\ op.i # Null /\ next[op.i] # op.x
          /\ op' = [op EXCEPT !.i = next[op.i]]
          /\ UNCHANGED <<next, in>>
    /\ UNCHANGED <<prio, head>>

\* A task that is in no queue gets another priority.
ChangePrio(x, p) ==
    /\ op = Idle /\ in[x] = Null
    /\ prio' = [prio EXCEPT ![x] = p]
    /\ UNCHANGED <<in, head, next, op>>

\* Faulty variant: the task keeps its place in the queue.
UpdateInPlace(q, x, p) ==
    /\ op = Idle /\ in[x] = q
    /\ prio' = [prio EXCEPT ![x] = p]
    /\ UNCHANGED <<in, head, next, op>>

\* A queued task gets another priority: changeThreadPrio(), then
\* updateWaitQueue(), which removes and inserts it.
UpdateStart(q, x, p) ==
    /\ op = Idle /\ in[x] = q
    /\ prio' = [prio EXCEPT ![x] = p]
    /\ RemoveFrom(q, x, [name |-> "reinsert", q |-> q, x |-> x])

\* ... which uses the changed priority.
Reinsert ==
    /\ op.name = "reinsert"
    /\ InsertInto(op.q, op.x)
    /\ UNCHANGED prio

\* The scans: for (t = getHead(); t != 0; t = getNext(t)).
ScanStart(q) ==
    /\ op = Idle
    /\ op' = [name |-> "scan", q |-> q, t |-> head[q]]
    /\ UNCHANGED <<prio, in, head, next>>

\* The condition of t does not hold yet: on to getNext(t).
ScanKeep ==
    /\ op.name = "scan" /\ op.t # Null
    /\ op' = [op EXCEPT !.t = next[op.t]]
    /\ UNCHANGED <<prio, in, head, next>>

\* t can be served: remove(t), unblock(), and then also getNext(t), of which remove()
\* has cleared the link: the scan ends with the first task it unblocks.
ScanUnblock ==
    /\ op.name = "scan" /\ op.t # Null
    /\ RemoveFrom(op.q, op.t, [name |-> "scanNext", q |-> op.q, t |-> op.t])
    /\ UNCHANGED prio

ScanNext ==
    /\ op.name = "scanNext"
    /\ op' = [name |-> "scan", q |-> op.q, t |-> next[op.t]]
    /\ UNCHANGED <<prio, in, head, next>>

ScanEnd ==
    /\ op.name = "scan" /\ op.t = Null
    /\ op' = Idle
    /\ UNCHANGED <<prio, in, head, next>>

Next ==
    \/ \E q \in Queues, x \in Tasks : InsertStart(q, x) \/ RemoveStart(q, x)
    \/ \E q \in Queues, x \in Tasks, p \in Prios : UpdateStart(q, x, p)
    \/ \E x \in Tasks, p \in Prios : ChangePrio(x, p)
    \/ \E q \in Queues : ScanStart(q)
    \/ InsertLoop \/ RemoveLoop \/ Reinsert
    \/ ScanKeep \/ ScanUnblock \/ ScanNext \/ ScanEnd

Spec == Init /\ [][Next]_vars

-----------------------------------------------------------------------------
\* The tasks met when the links are followed from h.  One step more than there
\* are tasks shows a cycle.
Chain(h) ==
    LET RECURSIVE Follow(_, _)
        Follow(t, n) == IF t = Null \/ n = 0 THEN <<>>
                        ELSE <<t>> \o Follow(next[t], n - 1)
    IN  Follow(h, Cardinality(Tasks) + 1)

\* The pointers implement the queues of module PriorityQueue: every operation
\* that changes links inserts or removes the task it should, at the right place,
\* in one queue, and leaves the other queues alone.
Abstract == INSTANCE PriorityQueueSpec WITH queue <- [q \in Queues |-> Chain(head[q])]

LinksImplementQueues == Abstract!Spec

\* Between two operations a task is linked in the queue it is blocked in and in
\* no other, and a task that is not blocked has no link that a later scan or
\* remove() could follow into a queue.
LinksAgree ==
    op = Idle =>
        /\ \A q \in Queues : {Chain(head[q])[k] : k \in DOMAIN Chain(head[q])}
                                = {t \in Tasks : in[t] = q}
        /\ \A t \in Tasks : in[t] = Null => next[t] = Null

\* Between two operations every queue is sorted by the current priorities.
SortedWhenIdle ==
    op = Idle => \A q \in Queues : Abstract!SortedBy(Chain(head[q]), prio)
=============================================================================
