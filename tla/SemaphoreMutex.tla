--------------------------- MODULE SemaphoreMutex ---------------------------
(***************************************************************************)
(* The usual use of a PEARL semaphore: tasks that share a resource execute *)
(* REQUEST m; ... RELEASE m; in a loop, with m preset to one.  Other tasks *)
(* suspend, continue and terminate some of them while they are blocked.    *)
(***************************************************************************)
EXTENDS Semaphore, FiniteSets

CONSTANTS
    m,              \* the semaphore
    Disturbed       \* the tasks that others suspend, continue and terminate

VARIABLE asked      \* the tasks between REQUEST and RELEASE

mutexVars == <<vars, asked>>

One == [s \in Semas |-> 1]

\* What is assumed of the program: m is the only semaphore, preset to one, and it is
\* always requested and released alone.
MutexAssumption ==
    /\ Semas = {m} /\ Preset = One
    /\ One \in RequestLists \cap ReleaseLists
    /\ Disturbed \subseteq Tasks

\* REQUEST has returned: the task has the resource.
Critical(t) == t \in asked /\ taskState[t] = "RUNNING"

MutexInit == Init /\ asked = {}

Ask(t) ==
    /\ t \notin asked
    /\ Request(t, One)
    /\ asked' = asked \cup {t}

Leave(t) ==
    /\ Critical(t)
    /\ Release(t, One)
    /\ asked' = asked \ {t}

\* What happens to a disturbed task while it is blocked.
Disturb(t) ==
    \/ /\ \/ \E me \in Tasks : Suspend(me, t)
          \/ \E p \in Prios : ContinueSuspended(t, p)
          \/ \E p \in Prios : ContinueBlocked(t, p) /\ UNCHANGED value
          \/ \E p \in Prios : Activate(t, p) /\ UNCHANGED value
       /\ UNCHANGED asked
    \/ /\ \E me \in Tasks : TerminateBlocked(me, t)
       /\ asked' = asked \ {t}
       /\ UNCHANGED value

MutexNext ==
    \/ \E t \in Tasks : Ask(t) \/ Leave(t)
    \/ \E t \in Disturbed : Disturb(t)

\* A task that has the resource goes on running and executes its RELEASE; nobody
\* has to ask for the resource, or to continue a suspended task.
MutexSpec ==
    /\ MutexInit /\ [][MutexNext]_mutexVars
    /\ \A t \in Tasks : WF_mutexVars(Leave(t))

-----------------------------------------------------------------------------
\* The resource is neither lost nor doubled, whatever happens to the waiting
\* tasks: it is free or exactly one task has it.
OneHolder == value[m] + Cardinality({t \in Tasks : Critical(t)}) = 1

\* An undisturbed task of the best priority gets the resource: tasks of equal
\* priority are served in their order, and a task that asks while others wait
\* does not overtake them.
UrgentEnters ==
    \A t \in Tasks \ Disturbed :
        (t \in asked /\ \A p \in Prios : DefaultPrio[t] <= p) ~> Critical(t)
=============================================================================
