---------------------------- MODULE TaskBlocking ----------------------------
(***************************************************************************)
(* What runtime/common/TaskCommon.cc does with tasks that are blocked on a *)
(* synchronisation object, and the wait queue of that object: the state,   *)
(* the current priority and the stored blocking reason (blockParams.why)   *)
(* of every task.  Semaphore and Bolt extend this module; `waiters' is     *)
(* Semaphore::waiters in the one and Bolt::waiters in the other.           *)
(*                                                                         *)
(* Every operation below runs between mutexLock() and mutexUnlock() of     *)
(* TaskCommon::mutexTasks, so it is one atomic step here.  The hand-shakes *)
(* in which a running or suspended thread takes part (suspendRunning,      *)
(* continueSuspended, terminateRunning, ...) do not touch the wait queues; *)
(* they are the subject of module Tasking.  So is TERMINATE of a task in   *)
(* state SUSPENDED_BLOCKED, which does not return.                         *)
(***************************************************************************)
EXTENDS PriorityQueue

CONSTANTS
    Tasks,          \* the PEARL tasks
    Prios,          \* the priorities in use, small = urgent
    DefaultPrio     \* TaskCommon::defaultPrio of every task

ASSUME PrioAssumption ==
    /\ Prios \subseteq Int
    /\ DefaultPrio \in [Tasks -> Prios]

VARIABLES
    taskState,      \* TaskCommon::taskState
    currentPrio,    \* TaskCommon::currentPrio
    why,            \* blockParams.why, the request a blocked task waits with
    waiters         \* the queue of the blocked tasks

taskVars == <<taskState, currentPrio, why, waiters>>

TaskStates == {"TERMINATED", "RUNNING", "BLOCKED", "SUSPENDED_BLOCKED"}

InState(s) == {t \in Tasks : taskState[t] = s}

\* All tasks have been activated; none has blocked yet, noWhy stands for the
\* reason that is never looked at.
TaskInit(noWhy) ==
    /\ taskState = [t \in Tasks |-> "RUNNING"]
    /\ currentPrio = DefaultPrio
    /\ why = [t \in Tasks |-> noWhy]
    /\ waiters = <<>>

-----------------------------------------------------------------------------
\* waiters.insert() and block(): the caller stores its request and waits on its
\* semaBlock.
Block(me, request) ==
    /\ waiters' = Insert(waiters, me, currentPrio)
    /\ taskState' = [taskState EXCEPT ![me] = "BLOCKED"]
    /\ why' = [why EXCEPT ![me] = request]
    /\ UNCHANGED currentPrio

\* waiters.remove() and unblock() of a task blocked with REQUEST, ENTER or RESERVE.
Unblock(t) ==
    /\ waiters' = Remove(waiters, t)
    /\ taskState' = [taskState EXCEPT ![t] = "RUNNING"]
    /\ UNCHANGED <<currentPrio, why>>

\* suspend(): the blocked task leaves the queue but keeps its request.
SuspendBlocked(me, t) ==
    /\ taskState[me] = "RUNNING"
    /\ taskState[t] = "BLOCKED"
    /\ waiters' = Remove(waiters, t)
    /\ taskState' = [taskState EXCEPT ![t] = "SUSPENDED_BLOCKED"]
    /\ UNCHANGED <<currentPrio, why>>

\* changeThreadPrio(): a CONTINUE without PRIO is the case p = currentPrio[t].
WithPrio(t, p) == [currentPrio EXCEPT ![t] = p]

\* addToWaitQueue() of a continued task whose request can be satisfied now: it
\* is in no queue any more and runs on.
ContinueServed(t, p) ==
    /\ taskState[t] = "SUSPENDED_BLOCKED"
    /\ currentPrio' = WithPrio(t, p)
    /\ taskState' = [taskState EXCEPT ![t] = "RUNNING"]
    /\ UNCHANGED <<why, waiters>>

\* addToWaitQueue() of a continued task whose request still has to wait.
ContinueQueued(t, p) ==
    /\ taskState[t] = "SUSPENDED_BLOCKED"
    /\ currentPrio' = WithPrio(t, p)
    /\ waiters' = Insert(waiters, t, currentPrio')
    /\ taskState' = [taskState EXCEPT ![t] = "BLOCKED"]
    /\ UNCHANGED why

\* updateWaitQueue(): sorted in anew if it was queued.
UpdateWaitQueue(t, prio) ==
    IF t \in QueueSet(waiters) THEN Insert(Remove(waiters, t), t, prio)
                               ELSE waiters

\* continueFromOtherTask() in state BLOCKED.
ContinueBlocked(t, p) ==
    /\ taskState[t] = "BLOCKED"
    /\ currentPrio' = WithPrio(t, p)
    /\ waiters' = UpdateWaitQueue(t, currentPrio')
    /\ UNCHANGED <<taskState, why>>

\* continueFromOtherTask() in state RUNNING: only the priority changes.
ContinueRunning(t, p) ==
    /\ taskState[t] = "RUNNING"
    /\ currentPrio' = WithPrio(t, p)
    /\ UNCHANGED <<taskState, why, waiters>>

\* Faulty variant: the terminated task stays in the queue.
TerminateBlockedQueued(me, t) ==
    /\ taskState[me] = "RUNNING"
    /\ taskState[t] = "BLOCKED"
    /\ taskState' = [taskState EXCEPT ![t] = "TERMINATED"]
    /\ UNCHANGED <<currentPrio, why, waiters>>

\* terminateFromOtherTask() of a blocked task: it leaves without the resources.
TerminateBlocked(me, t) ==
    /\ taskState[me] = "RUNNING"
    /\ taskState[t] = "BLOCKED"
    /\ taskState' = [taskState EXCEPT ![t] = "TERMINATED"]
    /\ waiters' = Remove(waiters, t)
    /\ UNCHANGED <<currentPrio, why>>

\* terminateMySelf() of a running task.
TerminateMySelf(t) ==
    /\ taskState[t] = "RUNNING"
    /\ taskState' = [taskState EXCEPT ![t] = "TERMINATED"]
    /\ UNCHANGED <<currentPrio, why, waiters>>

\* activate(): only a terminated task starts, with the priority given.
Activate(t, p) ==
    /\ taskState[t] = "TERMINATED"
    /\ taskState' = [taskState EXCEPT ![t] = "RUNNING"]
    /\ currentPrio' = [currentPrio EXCEPT ![t] = p]
    /\ UNCHANGED <<why, waiters>>

\* The operations that leave the synchronisation object itself alone.
TaskOperation ==
    \E t \in Tasks :
        \/ \E me \in Tasks : TerminateBlocked(me, t)
        \/ \E p \in Prios : ContinueBlocked(t, p) \/ ContinueRunning(t, p) \/ Activate(t, p)
        \/ TerminateMySelf(t)

-----------------------------------------------------------------------------
\* The types of the task variables, for requests from the set R.
TaskTypeOK(R) ==
    /\ taskState \in [Tasks -> TaskStates]
    /\ currentPrio \in [Tasks -> Prios]
    /\ why \in [Tasks -> R]
    /\ waiters \in Seq(Tasks)

\* The queue holds exactly the tasks in state BLOCKED, each of them once: no
\* path through suspend, continue, terminate and release loses or doubles one.
QueueIsBlocked ==
    /\ Distinct(waiters)
    /\ QueueSet(waiters) = InState("BLOCKED")

\* The queue is sorted by the current priorities, also after CONTINUE ... PRIO
\* has changed the priority of a queued task.
QueueSorted == SortedBy(waiters, currentPrio)
=============================================================================
