-------------------------- MODULE SemaphoreProofs --------------------------
(***************************************************************************)
(* Proofs about module Semaphore, for any number of tasks, semaphores and  *)
(* priorities, and about its use in module SemaphoreMutex.                 *)
(*                                                                         *)
(* The inductive invariant is Inv: the types, the agreement of the queue   *)
(* with the task states, and the order of the queue.  The part about tasks *)
(* that every synchronisation object needs, TaskInv, comes first.          *)
(***************************************************************************)
EXTENDS SemaphoreMutex, PriorityQueueProofs, FiniteSetTheorems

-----------------------------------------------------------------------------
(* The tasks: every operation of module TaskBlocking keeps the wait queue  *)
(* equal to the set of blocked tasks and sorted by the current priorities. *)

\* The order needs the agreement (insert() must not meet the task it inserts), and
\* both need the types.
TaskInv ==
    /\ taskState \in [Tasks -> TaskStates]
    /\ currentPrio \in [Tasks -> Prios]
    /\ waiters \in Seq(Tasks)
    /\ QueueIsBlocked
    /\ QueueSorted

LEMMA TaskInvQueue ==
    TaskInv <=> /\ taskState \in [Tasks -> TaskStates]
                /\ currentPrio \in [Tasks -> Prios]
                /\ QueueOf(waiters, Tasks, InState("BLOCKED"), currentPrio)
  BY DEF TaskInv, QueueOf, QueueIsBlocked, QueueSorted

\* TaskInvQueue after a step, which leaves the types and the queue to be shown.
LEMMA TaskInvNext ==
    ASSUME taskState' \in [Tasks -> TaskStates], currentPrio' \in [Tasks -> Prios],
           QueueOf(waiters', Tasks, InState("BLOCKED")', currentPrio')
    PROVE  TaskInv'
  BY DEF TaskInv, QueueOf, QueueIsBlocked, QueueSorted

LEMMA TaskInitInv ==
    ASSUME NEW noWhy, TaskInit(noWhy)
    PROVE  TaskInv
<1>1. QueueIsBlocked /\ QueueSorted
  BY DEF TaskInit, QueueIsBlocked, QueueSorted, Distinct, SortedBy, QueueSet, InState
<1> QED
  BY <1>1, PrioAssumption DEF TaskInit, TaskInv, TaskStates

\* A step that blocks t: Block() and ContinueQueued().
LEMMA Enqueued ==
    ASSUME TaskInv, NEW t \in Tasks, taskState[t] # "BLOCKED",
           currentPrio' \in [Tasks -> Prios],
           \A u \in Tasks : u # t => currentPrio'[u] = currentPrio[u],
           waiters' = Insert(waiters, t, currentPrio'),
           taskState' = [taskState EXCEPT ![t] = "BLOCKED"]
    PROVE  TaskInv'
<1>1. /\ taskState \in [Tasks -> TaskStates]
      /\ QueueOf(waiters, Tasks, InState("BLOCKED"), currentPrio)
  BY TaskInvQueue
<1>2. t \notin InState("BLOCKED") /\ InState("BLOCKED")' = InState("BLOCKED") \cup {t}
  BY <1>1 DEF InState
<1>3. /\ currentPrio' \in [Tasks -> Int]
      /\ \A u \in InState("BLOCKED") : currentPrio'[u] = currentPrio[u]
  BY <1>2, PrioAssumption DEF InState
<1>4. QueueOf(waiters', Tasks, InState("BLOCKED")', currentPrio')
  BY <1>1, <1>2, <1>3, QueueOfInsert
<1> QED
  BY <1>1, <1>4, TaskInvNext DEF TaskStates

\* A step that ends the waiting of t: a scan, SUSPEND or TERMINATE.
LEMMA Dequeued ==
    ASSUME TaskInv, NEW t \in Tasks, NEW s \in TaskStates, s # "BLOCKED",
           UNCHANGED currentPrio, waiters' = Remove(waiters, t),
           taskState' = [taskState EXCEPT ![t] = s]
    PROVE  TaskInv'
<1>1. /\ taskState \in [Tasks -> TaskStates] /\ currentPrio' \in [Tasks -> Prios]
      /\ QueueOf(waiters, Tasks, InState("BLOCKED"), currentPrio)
  BY TaskInvQueue
<1>2. InState("BLOCKED")' = InState("BLOCKED") \ {t}
  BY <1>1 DEF InState
<1>3. QueueOf(waiters', Tasks, InState("BLOCKED")', currentPrio')
  BY <1>1, <1>2, QueueOfRemove
<1> QED
  BY <1>1, <1>3, TaskInvNext

\* A step that neither queues nor unqueues anyone.
LEMMA QueueUnchanged ==
    ASSUME TaskInv, UNCHANGED waiters, InState("BLOCKED")' = InState("BLOCKED"),
           taskState' \in [Tasks -> TaskStates], currentPrio' \in [Tasks -> Prios],
           \A u \in InState("BLOCKED") : currentPrio'[u] = currentPrio[u]
    PROVE  TaskInv'
<1>1. QueueOf(waiters, Tasks, InState("BLOCKED"), currentPrio)
  BY TaskInvQueue
<1>2. QueueOf(waiters', Tasks, InState("BLOCKED")', currentPrio')
  BY <1>1, QueueOfSame
<1> QED
  BY <1>2, TaskInvNext

LEMMA BlockInv ==
    ASSUME TaskInv, NEW t \in Tasks, NEW request, taskState[t] = "RUNNING",
           Block(t, request)
    PROVE  TaskInv'
  BY Enqueued DEF Block, TaskInv

LEMMA UnblockInv ==
    ASSUME TaskInv, NEW t \in Tasks, Unblock(t)
    PROVE  TaskInv'
  BY Dequeued DEF Unblock, TaskStates

LEMMA SuspendBlockedInv ==
    ASSUME TaskInv, NEW me \in Tasks, NEW t \in Tasks, SuspendBlocked(me, t)
    PROVE  TaskInv'
  BY Dequeued DEF SuspendBlocked, TaskStates

LEMMA ContinueServedInv ==
    ASSUME TaskInv, NEW t \in Tasks, NEW p \in Prios, ContinueServed(t, p)
    PROVE  TaskInv'
  BY QueueUnchanged DEF ContinueServed, WithPrio, InState, TaskInv, TaskStates

LEMMA ContinueQueuedInv ==
    ASSUME TaskInv, NEW t \in Tasks, NEW p \in Prios, ContinueQueued(t, p)
    PROVE  TaskInv'
  BY Enqueued DEF ContinueQueued, WithPrio, TaskInv

\* The operations that leave the synchronisation object alone.
LEMMA TaskOperationInv ==
    ASSUME TaskInv, TaskOperation
    PROVE  TaskInv'
<1>1. ASSUME NEW me \in Tasks, NEW t \in Tasks, TerminateBlocked(me, t)
      PROVE  TaskInv'
  BY <1>1, Dequeued DEF TerminateBlocked, TaskStates
<1>2. ASSUME NEW t \in Tasks, NEW p \in Prios, ContinueBlocked(t, p)
      PROVE  TaskInv'
  <2>1. /\ currentPrio' \in [Tasks -> Prios] /\ currentPrio' \in [Tasks -> Int]
        /\ \A u \in InState("BLOCKED") \ {t} : currentPrio'[u] = currentPrio[u]
        /\ t \in InState("BLOCKED") /\ UNCHANGED taskState
        /\ waiters' = UpdateWaitQueue(t, currentPrio')
    BY <1>2, PrioAssumption DEF ContinueBlocked, WithPrio, TaskInv, InState
  <2>2. /\ taskState \in [Tasks -> TaskStates]
        /\ QueueOf(waiters, Tasks, InState("BLOCKED"), currentPrio)
    BY TaskInvQueue
  <2>3. waiters' = Insert(Remove(waiters, t), t, currentPrio')
    BY <2>1, <2>2 DEF UpdateWaitQueue, QueueOf
  <2>4. QueueOf(waiters', Tasks, InState("BLOCKED"), currentPrio')
    BY <2>1, <2>2, <2>3, QueueOfResort
  <2>5. InState("BLOCKED")' = InState("BLOCKED")
    BY <2>1 DEF InState
  <2> QED
    BY <2>1, <2>2, <2>4, <2>5, TaskInvNext
<1>3. ASSUME NEW t \in Tasks, NEW p \in Prios, ContinueRunning(t, p)
      PROVE  TaskInv'
  BY <1>3, QueueUnchanged DEF ContinueRunning, WithPrio, InState, TaskInv
<1>4. ASSUME NEW t \in Tasks, NEW p \in Prios, Activate(t, p)
      PROVE  TaskInv'
  BY <1>4, QueueUnchanged DEF Activate, InState, TaskInv, TaskStates
<1>5. ASSUME NEW t \in Tasks, TerminateMySelf(t)
      PROVE  TaskInv'
  BY <1>5, QueueUnchanged DEF TerminateMySelf, InState, TaskInv, TaskStates
<1> QED
  BY <1>1, <1>2, <1>3, <1>4, <1>5 DEF TaskOperation

\* A step that does not touch the tasks.
LEMMA TasksUntouched ==
    ASSUME TaskInv, UNCHANGED taskVars
    PROVE  TaskInv'
  BY DEF TaskInv, taskVars, QueueIsBlocked, QueueSorted, InState

-----------------------------------------------------------------------------
Inv == TypeOK /\ QueueIsBlocked /\ QueueSorted

\* Every RELEASE of the program names one semaphore.
SingleReleases ==
    \A list \in ReleaseLists :
        \E s \in Semas : list = [x \in Semas |-> IF x = s THEN 1 ELSE 0]

-----------------------------------------------------------------------------
\* A successful internalDoTry() leaves values of the right type.
LEMMA TakeType ==
    ASSUME NEW v \in [Semas -> 0 .. MaxValue], NEW list \in [Semas -> Nat],
           Available(list, v)
    PROVE  Take(list, v) \in [Semas -> 0 .. MaxValue]
  BY SemaAssumption, MaxValueAssumption DEF Take, Available

\* Giving back what was taken restores the values.
LEMMA GiveTake ==
    ASSUME NEW v \in [Semas -> 0 .. MaxValue], NEW list \in [Semas -> Nat]
    PROVE  Give(list, Take(list, v)) = v
<1>1. \A s \in Semas : v[s] \in Int /\ list[s] \in Int
  BY SemaAssumption, MaxValueAssumption
<1>2. \A s \in Semas : Give(list, Take(list, v))[s] = v[s]
  BY <1>1 DEF Give, Take
<1> QED
  BY <1>2, Zenon DEF Give, Take

\* The scan of release() finds the first task that can be served.
LEMMA FirstServableFound ==
    ASSUME TypeOK, NEW v, Servable(v) # {}
    PROVE  \E i \in DOMAIN waiters :
              /\ FirstServable(v) = waiters[i]
              /\ waiters[i] \in Tasks
              /\ Available(why[waiters[i]], v)
              /\ \A j \in DOMAIN waiters : j < i => ~Available(why[waiters[j]], v)
<1> DEFINE S == Servable(v)
<1>1. DOMAIN waiters = 1 .. Len(waiters) /\ Len(waiters) \in Nat
  BY DEF TypeOK, TaskTypeOK
<1>2. S \in SUBSET Nat /\ S # {}
  BY <1>1 DEF Servable
<1>3. \E i \in S : \A j \in S : i <= j
  <2> HIDE DEF S
  <2> QED
    BY <1>2, LeastNatural
<1> DEFINE i == CHOOSE i \in S : \A j \in S : i <= j
<1>4. i \in S /\ \A j \in S : i <= j
  BY <1>3
<1>5. FirstServable(v) = waiters[i]
  BY DEF FirstServable
<1> HIDE DEF i
<1>6. i \in DOMAIN waiters /\ Available(why[waiters[i]], v)
  BY <1>4 DEF Servable
<1>7. \A j \in DOMAIN waiters : j < i => ~Available(why[waiters[j]], v)
  BY <1>1, <1>4, <1>6 DEF Servable
<1>8. waiters[i] \in Tasks
  BY <1>1, <1>6 DEF TypeOK, TaskTypeOK
<1> QED
  BY <1>5, <1>6, <1>7, <1>8

-----------------------------------------------------------------------------
\* Inv is the invariant of the tasks and the types of the values and requests.
LEMMA InvParts ==
    Inv <=> /\ TaskInv
            /\ value \in [Semas -> 0 .. MaxValue]
            /\ why \in [Tasks -> [Semas -> Nat]]
  BY DEF Inv, TaskInv, TypeOK, TaskTypeOK

LEMMA InitInv == Init => Inv
<1> SUFFICES ASSUME Init PROVE Inv
  OBVIOUS
<1>1. TaskInv
  BY TaskInitInv DEF Init
<1>2. /\ value \in [Semas -> 0 .. MaxValue]
      /\ why \in [Tasks -> [Semas -> Nat]]
  BY SemaAssumption DEF Init, TaskInit
<1> QED
  BY <1>1, <1>2, InvParts

LEMMA InvNext == Inv /\ [Next]_vars => Inv'
<1> SUFFICES ASSUME Inv, [Next]_vars PROVE Inv'
  OBVIOUS
<1> USE SemaAssumption, MaxValueAssumption
<1>0. /\ TaskInv
      /\ TypeOK
      /\ value \in [Semas -> 0 .. MaxValue]
      /\ why \in [Tasks -> [Semas -> Nat]]
  BY InvParts DEF Inv
<1>a. Inv' <=> /\ TaskInv'
               /\ value' \in [Semas -> 0 .. MaxValue]
               /\ why' \in [Tasks -> [Semas -> Nat]]
  BY DEF Inv, TaskInv, TypeOK, TaskTypeOK
<1>1. ASSUME NEW t \in Tasks, NEW list \in RequestLists, Request(t, list)
      PROVE  Inv'
  <2>0. list \in [Semas -> Nat]
    OBVIOUS
  <2>1. CASE Available(list, value)
    <3>1. value' = Take(list, value) /\ UNCHANGED taskVars
      BY <1>1, <2>1 DEF Request
    <3>2. TaskInv' /\ UNCHANGED why
      BY <1>0, <3>1, TasksUntouched DEF taskVars
    <3> QED
      BY <1>0, <1>a, <2>0, <2>1, <3>1, <3>2, TakeType
  <2>2. CASE ~Available(list, value)
    <3>1. Block(t, list) /\ UNCHANGED value /\ taskState[t] = "RUNNING"
      BY <1>1, <2>2 DEF Request
    <3>2. TaskInv'
      BY <1>0, <3>1, BlockInv
    <3>3. why' \in [Tasks -> [Semas -> Nat]]
      BY <1>0, <2>0, <3>1 DEF Block
    <3> QED
      BY <1>0, <1>a, <3>1, <3>2, <3>3
  <2> QED
    BY <2>1, <2>2
<1>2. ASSUME NEW t \in Tasks, NEW list \in RequestLists, Dotry(t, list)
      PROVE  Inv'
  <2>1. list \in [Semas -> Nat] /\ UNCHANGED taskVars
    BY <1>2 DEF Dotry
  <2>2. value' \in [Semas -> 0 .. MaxValue]
    BY <1>0, <1>2, <2>1, TakeType DEF Dotry
  <2>3. TaskInv' /\ UNCHANGED why
    BY <1>0, <2>1, TasksUntouched DEF taskVars
  <2> QED
    BY <1>0, <1>a, <2>2, <2>3
<1>3. ASSUME NEW t \in Tasks, NEW list \in ReleaseLists, ReleaseOverflow(t, list)
      PROVE  Inv'
  <2>1. value' \in [Semas -> 0 .. MaxValue] /\ UNCHANGED taskVars
    BY <1>3 DEF ReleaseOverflow
  <2>2. TaskInv' /\ UNCHANGED why
    BY <1>0, <2>1, TasksUntouched DEF taskVars
  <2> QED
    BY <1>0, <1>a, <2>1, <2>2
<1>4. ASSUME NEW t \in Tasks, NEW list \in ReleaseLists, Release(t, list)
      PROVE  Inv'
  <2> DEFINE v == Give(list, value)
  <2>1. list \in [Semas -> Nat] /\ v \in [Semas -> 0 .. MaxValue]
    BY <1>0, <1>4 DEF Release, Overflows, Give
  <2>2. CASE Servable(v) = {}
    <3>1. value' = v /\ UNCHANGED taskVars
      BY <1>4, <2>2 DEF Release
    <3>2. TaskInv' /\ UNCHANGED why
      BY <1>0, <3>1, TasksUntouched DEF taskVars
    <3> QED
      BY <1>0, <1>a, <2>1, <3>1, <3>2
  <2>3. CASE Servable(v) # {}
    <3> DEFINE u == FirstServable(v)
    <3>1. value' = Take(why[u], v) /\ Unblock(u)
      BY <1>4, <2>3 DEF Release
    <3> HIDE DEF v
    <3>2. u \in Tasks /\ Available(why[u], v)
      BY <1>0, <2>3, FirstServableFound
    <3> HIDE DEF u
    <3>3. TaskInv' /\ UNCHANGED why
      BY <1>0, <3>1, <3>2, UnblockInv DEF Unblock
    <3>4. value' \in [Semas -> 0 .. MaxValue]
      BY <1>0, <2>1, <3>1, <3>2, TakeType
    <3> QED
      BY <1>0, <1>a, <3>3, <3>4
  <2> QED
    BY <2>2, <2>3
<1>5. ASSUME NEW me \in Tasks, NEW t \in Tasks, Suspend(me, t)
      PROVE  Inv'
  BY <1>0, <1>5, <1>a, SuspendBlockedInv DEF Suspend, SuspendBlocked
<1>6. ASSUME NEW t \in Tasks, NEW p \in Prios, ContinueSuspended(t, p)
      PROVE  Inv'
  <2>1. CASE Available(why[t], value)
    <3>1. value' = Take(why[t], value) /\ ContinueServed(t, p)
      BY <1>6, <2>1 DEF ContinueSuspended
    <3>2. TaskInv' /\ UNCHANGED why
      BY <1>0, <3>1, ContinueServedInv DEF ContinueServed
    <3> QED
      BY <1>0, <1>a, <2>1, <3>1, <3>2, TakeType
  <2>2. CASE ~Available(why[t], value)
    <3>1. ContinueQueued(t, p) /\ UNCHANGED value
      BY <1>6, <2>2 DEF ContinueSuspended
    <3>2. TaskInv' /\ UNCHANGED why
      BY <1>0, <3>1, ContinueQueuedInv DEF ContinueQueued
    <3> QED
      BY <1>0, <1>a, <3>1, <3>2
  <2> QED
    BY <2>1, <2>2
<1>7. CASE TaskOperation /\ UNCHANGED value
  <2>1. TaskInv'
    BY <1>0, <1>7, TaskOperationInv
  <2>2. UNCHANGED why
    BY <1>7 DEF TaskOperation, TerminateBlocked, ContinueBlocked, ContinueRunning,
       Activate, TerminateMySelf
  <2> QED
    BY <1>0, <1>7, <1>a, <2>1, <2>2
<1>8. CASE UNCHANGED vars
  BY <1>0, <1>8, <1>a, TasksUntouched DEF vars, taskVars
<1> QED
  BY <1>1, <1>2, <1>3, <1>4, <1>5, <1>6, <1>7, <1>8 DEF Next

\* Semaphore values stay in the 32-bit range, the queue holds exactly the
\* blocked tasks and stays sorted, whatever lists the program uses.
THEOREM SemaphoreInvariant ==
    Spec => [](TypeOK /\ QueueIsBlocked /\ QueueSorted)
<1>1. Inv => TypeOK /\ QueueIsBlocked /\ QueueSorted
  BY DEF Inv
<1> QED
  BY <1>1, InitInv, InvNext, PTL DEF Spec

-----------------------------------------------------------------------------
\* What one RELEASE of a single semaphore does to the waiting tasks: whoever it
\* serves needs that semaphore, so nothing more can be served afterwards.
LEMMA ReleaseServesAll ==
    ASSUME Inv, NoMissedWakeup, NEW s \in Semas, NEW me \in Tasks,
           NEW list \in [Semas -> Nat],
           list = [x \in Semas |-> IF x = s THEN 1 ELSE 0],
           Release(me, list)
    PROVE  NoMissedWakeup'
<1> USE SemaAssumption, MaxValueAssumption
<1> DEFINE v == Give(list, value)
<1>0. /\ TypeOK
      /\ value \in [Semas -> 0 .. MaxValue]
      /\ why \in [Tasks -> [Semas -> Nat]]
      /\ taskState \in [Tasks -> TaskStates]
  BY DEF Inv, TypeOK, TaskTypeOK
<1>1. v \in [Semas -> 0 .. MaxValue]
  BY <1>0 DEF Release, Overflows, Give
<1>2. v[s] = value[s] + 1 /\ \A x \in Semas : x # s => v[x] = value[x]
  BY <1>0 DEF Give
<1>3. DOMAIN waiters = 1 .. Len(waiters) /\ QueueSet(waiters) = InState("BLOCKED")
  BY <1>0 DEF Inv, TypeOK, TaskTypeOK, QueueIsBlocked
<1>4. CASE Servable(v) = {}
  <2>1. value' = v /\ UNCHANGED taskVars
    BY <1>4 DEF Release
  <2>2. \A t \in InState("BLOCKED") : ~Available(why[t], v)
    BY <1>3, <1>4 DEF Servable, QueueSet
  <2> QED
    BY <2>1, <2>2 DEF NoMissedWakeup, taskVars, InState
<1>5. CASE Servable(v) # {}
  <2> DEFINE u == FirstServable(v)
  <2>1. /\ value' = Take(why[u], v)
        /\ taskState' = [taskState EXCEPT ![u] = "RUNNING"]
        /\ UNCHANGED why
    BY <1>5 DEF Release, Unblock
  <2> HIDE DEF v
  <2>2. u \in Tasks /\ u \in QueueSet(waiters) /\ Available(why[u], v)
    BY <1>0, <1>5, FirstServableFound DEF QueueSet
  <2> HIDE DEF u
  <2>3. ~Available(why[u], value)
    BY <1>3, <2>2 DEF NoMissedWakeup
  <2>4. why[u] \in [Semas -> Nat]
    BY <1>0, <2>2
  <2>5. why[u][s] >= 1
    BY <1>0, <1>2, <2>2, <2>3, <2>4 DEF Available
  <2>6. \A x \in Semas : value'[x] <= value[x]
    BY <1>0, <1>1, <1>2, <2>1, <2>4, <2>5 DEF Take
  <2>7. value' \in [Semas -> 0 .. MaxValue]
    BY <1>1, <2>1, <2>2, <2>4, TakeType
  <2>8. ASSUME NEW t \in Tasks, taskState'[t] = "BLOCKED"
        PROVE  ~Available(why[t], value')
    <3>1. t \in InState("BLOCKED")
      BY <1>0, <2>1, <2>2, <2>8 DEF InState
    <3>2. ~Available(why[t], value) /\ why[t] \in [Semas -> Nat]
      BY <1>0, <2>8, <3>1 DEF NoMissedWakeup
    <3> QED
      BY <1>0, <2>6, <2>7, <3>2 DEF Available
  <2> QED
    BY <2>1, <2>8 DEF NoMissedWakeup, InState
<1> QED
  BY <1>4, <1>5

\* A step that only takes from the values leaves everyone unservable.
LEMMA TakingKeepsBlocked ==
    ASSUME Inv, NoMissedWakeup,
           value' \in [Semas -> 0 .. MaxValue],
           \A x \in Semas : value'[x] <= value[x],
           \A t \in Tasks : taskState'[t] = "BLOCKED" =>
               \/ taskState[t] = "BLOCKED" /\ why'[t] = why[t]
               \/ ~Available(why'[t], value')
    PROVE  NoMissedWakeup'
<1> USE SemaAssumption, MaxValueAssumption
<1>1. /\ value \in [Semas -> 0 .. MaxValue]
      /\ why \in [Tasks -> [Semas -> Nat]]
  BY DEF Inv, TypeOK, TaskTypeOK
<1>2. ASSUME NEW t \in Tasks, taskState'[t] = "BLOCKED"
      PROVE  ~Available(why'[t], value')
  <2>1. CASE ~Available(why'[t], value')
    BY <2>1
  <2>2. CASE taskState[t] = "BLOCKED" /\ why'[t] = why[t]
    <3>1. ~Available(why[t], value) /\ why[t] \in [Semas -> Nat]
      BY <1>1, <2>2 DEF NoMissedWakeup, InState
    <3> QED
      BY <1>1, <2>2, <3>1 DEF Available
  <2> QED
    BY <1>2, <2>1, <2>2
<1> QED
  BY <1>2 DEF NoMissedWakeup, InState

LEMMA NoMissedWakeupNext ==
    ASSUME SingleReleases, Inv, NoMissedWakeup, [Next]_vars
    PROVE  NoMissedWakeup'
<1> USE SemaAssumption, MaxValueAssumption
<1>0. /\ TypeOK
      /\ taskState \in [Tasks -> TaskStates]
      /\ value \in [Semas -> 0 .. MaxValue]
      /\ why \in [Tasks -> [Semas -> Nat]]
  BY DEF Inv, TypeOK, TaskTypeOK
<1>t. ASSUME NEW list \in [Semas -> Nat], Available(list, value)
      PROVE  /\ Take(list, value) \in [Semas -> 0 .. MaxValue]
             /\ \A x \in Semas : Take(list, value)[x] <= value[x]
  <2>1. \A x \in Semas : Take(list, value)[x] <= value[x]
    BY <1>0 DEF Take
  <2> QED
    BY <1>0, <1>t, <2>1, TakeType
<1>u. \A x \in Semas : value[x] <= value[x]
  BY <1>0
<1>1. ASSUME NEW t \in Tasks, NEW list \in RequestLists, Request(t, list)
      PROVE  NoMissedWakeup'
  <2>0. list \in [Semas -> Nat]
    OBVIOUS
  <2>1. CASE Available(list, value)
    BY <1>0, <1>1, <1>t, <2>0, <2>1, TakingKeepsBlocked DEF Request, taskVars
  <2>2. CASE ~Available(list, value)
    <3>1. /\ taskState' = [taskState EXCEPT ![t] = "BLOCKED"]
          /\ why' = [why EXCEPT ![t] = list]
          /\ UNCHANGED value
      BY <1>1, <2>2 DEF Request, Block
    <3>2. \A u \in Tasks : taskState'[u] = "BLOCKED" =>
               \/ taskState[u] = "BLOCKED" /\ why'[u] = why[u]
               \/ ~Available(why'[u], value')
      BY <1>0, <2>2, <3>1
    <3> QED
      BY <1>0, <1>u, <3>1, <3>2, TakingKeepsBlocked
  <2> QED
    BY <2>1, <2>2
<1>2. ASSUME NEW t \in Tasks, NEW list \in RequestLists, Dotry(t, list)
      PROVE  NoMissedWakeup'
  <2>1. list \in [Semas -> Nat]
    OBVIOUS
  <2>2. CASE Available(list, value)
    BY <1>0, <1>2, <1>t, <2>1, <2>2, TakingKeepsBlocked DEF Dotry, taskVars
  <2>3. CASE ~Available(list, value)
    BY <1>0, <1>2, <1>u, <2>1, <2>3, TakingKeepsBlocked DEF Dotry, taskVars
  <2> QED
    BY <2>2, <2>3
<1>3. ASSUME NEW t \in Tasks, NEW list \in ReleaseLists, ReleaseOverflow(t, list)
      PROVE  NoMissedWakeup'
  \* The only increment of a single release has thrown: nothing has changed.
  <2>1. PICK s \in Semas : list = [x \in Semas |-> IF x = s THEN 1 ELSE 0]
    BY DEF SingleReleases
  <2>2. PICK v \in [Semas -> 0 .. MaxValue] : PartialRelease(list, value, v) /\ value' = v
    BY <1>3 DEF ReleaseOverflow
  <2>3. \A x \in Semas : x # s => v[x] = value[x]
    BY <1>0, <2>1, <2>2 DEF PartialRelease
  <2>4. v[s] = value[s]
    <3>1. PICK x \in Semas : v[x] < value[x] + list[x]
      BY <2>2 DEF PartialRelease
    <3>2. x = s
      BY <1>0, <2>1, <2>3, <3>1
    <3>3. v[s] \in value[s] .. value[s] + 1
      BY <2>1, <2>2 DEF PartialRelease
    <3>4. value[s] \in Int /\ list[s] = 1
      BY <1>0, <2>1
    <3> QED
      BY <3>1, <3>2, <3>3, <3>4
  <2>5. UNCHANGED taskVars /\ \A x \in Semas : value'[x] <= value[x]
    BY <1>0, <1>3, <2>2, <2>3, <2>4 DEF ReleaseOverflow
  <2> QED
    BY <2>2, <2>5, TakingKeepsBlocked DEF taskVars
<1>4. ASSUME NEW t \in Tasks, NEW list \in ReleaseLists, Release(t, list)
      PROVE  NoMissedWakeup'
  <2>1. PICK s \in Semas : list = [x \in Semas |-> IF x = s THEN 1 ELSE 0]
    BY DEF SingleReleases
  <2>2. list \in [Semas -> Nat]
    OBVIOUS
  <2> QED
    BY <1>4, <2>1, <2>2, ReleaseServesAll
<1>5. ASSUME NEW me \in Tasks, NEW t \in Tasks, Suspend(me, t)
      PROVE  NoMissedWakeup'
  BY <1>0, <1>5, <1>u, TakingKeepsBlocked DEF Suspend, SuspendBlocked
<1>6. ASSUME NEW t \in Tasks, NEW p \in Prios, ContinueSuspended(t, p)
      PROVE  NoMissedWakeup'
  <2>0. why[t] \in [Semas -> Nat] /\ UNCHANGED why
    BY <1>0, <1>6 DEF ContinueSuspended, ContinueServed, ContinueQueued
  <2>1. CASE Available(why[t], value)
    BY <1>0, <1>6, <1>t, <2>0, <2>1, TakingKeepsBlocked DEF ContinueSuspended, ContinueServed
  <2>2. CASE ~Available(why[t], value)
    <3>1. taskState' = [taskState EXCEPT ![t] = "BLOCKED"] /\ UNCHANGED value
      BY <1>6, <2>2 DEF ContinueSuspended, ContinueQueued
    <3> QED
      BY <1>0, <1>u, <2>0, <2>2, <3>1, TakingKeepsBlocked
  <2> QED
    BY <2>1, <2>2
<1>7. CASE TaskOperation /\ UNCHANGED value
  <2>1. \A t \in Tasks : taskState'[t] = "BLOCKED" =>
             taskState[t] = "BLOCKED" /\ why'[t] = why[t]
    BY <1>0, <1>7 DEF TaskOperation, TerminateBlocked, ContinueBlocked,
       ContinueRunning, Activate, TerminateMySelf
  <2> QED
    BY <1>0, <1>7, <1>u, <2>1, TakingKeepsBlocked
<1>8. CASE UNCHANGED vars
  BY <1>8 DEF vars, taskVars, NoMissedWakeup, InState
<1> QED
  BY <1>1, <1>2, <1>3, <1>4, <1>5, <1>6, <1>7, <1>8 DEF Next

\* When every RELEASE names one semaphore, no task is left waiting for
\* resources that are there.  With longer lists this is false: release() stops
\* its scan at the first task it unblocks.
THEOREM SemaphoreNoMissedWakeup ==
    ASSUME SingleReleases
    PROVE  Spec => []NoMissedWakeup
<1>1. Init => NoMissedWakeup
  BY DEF Init, TaskInit, NoMissedWakeup, InState
<1>2. Inv /\ NoMissedWakeup /\ [Next]_vars => Inv' /\ NoMissedWakeup'
  BY InvNext, NoMissedWakeupNext
<1> QED
  BY <1>1, <1>2, InitInv, PTL DEF Spec

-----------------------------------------------------------------------------
\* When every RELEASE names one semaphore, resources go to the waiting tasks in
\* the order of their priorities, and among equals in the order of the queue.
THEOREM SemaphoreGrantsByPriority ==
    ASSUME SingleReleases
    PROVE  Spec => GrantsByPriority
<1> DEFINE A == \A t \in Tasks : \A u \in InState("BLOCKED") :
                  /\ taskState[t] \in {"BLOCKED", "SUSPENDED_BLOCKED"}
                  /\ taskState'[t] = "RUNNING"
                  /\ taskState'[u] = "BLOCKED"
                  /\ Before(u, t)
                  => ~Available(why[u], Give(why[t], value'))
<1>1. ASSUME Inv, NoMissedWakeup, Next PROVE A
  <2> USE SemaAssumption, MaxValueAssumption
  <2> SUFFICES ASSUME NEW t \in Tasks, NEW u \in InState("BLOCKED"),
                      taskState[t] \in {"BLOCKED", "SUSPENDED_BLOCKED"},
                      taskState'[t] = "RUNNING",
                      taskState'[u] = "BLOCKED",
                      Before(u, t)
               PROVE  ~Available(why[u], Give(why[t], value'))
    OBVIOUS
  <2>0. /\ TypeOK
        /\ taskState \in [Tasks -> TaskStates]
        /\ currentPrio \in [Tasks -> Prios]
        /\ value \in [Semas -> 0 .. MaxValue]
        /\ why \in [Tasks -> [Semas -> Nat]]
        /\ why[t] \in [Semas -> Nat]
    BY <1>1 DEF Inv, TypeOK, TaskTypeOK
  <2>1. \/ \E me \in Tasks, list \in ReleaseLists : Release(me, list)
        \/ \E p \in Prios : ContinueSuspended(t, p)
    BY <1>1, <2>0 DEF Next, Request, Dotry, ReleaseOverflow, Suspend, SuspendBlocked,
       ContinueSuspended, ContinueServed, ContinueQueued, TaskOperation,
       TerminateBlocked, ContinueBlocked, ContinueRunning, Activate,
       TerminateMySelf, Block, Unblock, taskVars
  <2>2. CASE \E p \in Prios : ContinueSuspended(t, p)
    <3>1. value' = Take(why[t], value)
      BY <2>0, <2>2 DEF ContinueSuspended, ContinueQueued
    <3>2. Give(why[t], value') = value
      BY <2>0, <3>1, GiveTake
    <3> QED
      BY <1>1, <3>2 DEF NoMissedWakeup
  <2>3. ASSUME NEW me \in Tasks, NEW list \in ReleaseLists, Release(me, list)
        PROVE  ~Available(why[u], Give(why[t], value'))
    <3> DEFINE v == Give(list, value)
    <3>1. list \in [Semas -> Nat] /\ v \in [Semas -> 0 .. MaxValue]
      BY <2>0, <2>3 DEF Release, Overflows, Give
    <3>2. /\ Servable(v) # {}
          /\ t = FirstServable(v)
          /\ value' = Take(why[t], v)
          /\ UNCHANGED currentPrio
      BY <2>0, <2>3 DEF Release, Unblock, taskVars
    <3> HIDE DEF v
    <3>3. Give(why[t], value') = v
      BY <2>0, <3>1, <3>2, GiveTake
    <3>4. PICK i \in DOMAIN waiters :
              /\ t = waiters[i]
              /\ \A j \in DOMAIN waiters : j < i => ~Available(why[waiters[j]], v)
      BY <2>0, <3>2, FirstServableFound
    <3>5. DOMAIN waiters = 1 .. Len(waiters) /\ Len(waiters) \in Nat
      BY <2>0 DEF TypeOK, TaskTypeOK
    <3>6. /\ Distinct(waiters)
          /\ u \in QueueSet(waiters)
          /\ SortedBy(waiters, currentPrio)
      BY <1>1 DEF Inv, QueueIsBlocked, QueueSorted
    <3>7. PICK k \in DOMAIN waiters : u = waiters[k]
      BY <3>6 DEF QueueSet
    <3>8. k < i
      <4>1. CASE currentPrio[u] < currentPrio'[t]
        <5>1. currentPrio[u] \in Int /\ currentPrio[t] \in Int
          BY <2>0, PrioAssumption DEF InState
        <5>2. i < k => currentPrio[t] <= currentPrio[u]
          BY <3>4, <3>6, <3>7 DEF SortedBy
        <5>3. i # k
          BY <3>2, <3>4, <3>7, <4>1, <5>1
        <5>4. ~ (i < k)
          BY <3>2, <4>1, <5>1, <5>2
        <5> QED
          BY <3>5, <5>3, <5>4
      <4>2. CASE \E a, b \in DOMAIN waiters : a < b /\ waiters[a] = u /\ waiters[b] = t
        <5>1. PICK a \in DOMAIN waiters, b \in DOMAIN waiters :
                  a < b /\ waiters[a] = u /\ waiters[b] = t
          BY <4>2
        <5>2. a = k /\ b = i
          BY <3>4, <3>6, <3>7, <5>1 DEF Distinct
        <5> QED
          BY <5>1, <5>2
      <4> QED
        BY <4>1, <4>2 DEF Before
    <3> QED
      BY <3>3, <3>4, <3>7, <3>8
  <2> QED
    BY <2>1, <2>2, <2>3
<1>2. Inv /\ NoMissedWakeup /\ [Next]_vars => [A]_vars
  BY <1>1
<1>3. Init => NoMissedWakeup
  BY DEF Init, TaskInit, NoMissedWakeup, InState
<1>4. Inv /\ NoMissedWakeup /\ [Next]_vars => Inv' /\ NoMissedWakeup'
  BY InvNext, NoMissedWakeupNext
<1>5. Spec => [][A]_vars
  <2> HIDE DEF A
  <2> QED
    BY <1>2, <1>3, <1>4, InitInv, PTL DEF Spec
<1> QED
  BY <1>5 DEF GrantsByPriority
-----------------------------------------------------------------------------
(* The use of a semaphore for mutual exclusion.                            *)

\* The value is what the holders leave over.
HolderOK ==
    \/ value[m] = 1 /\ \A t \in Tasks : ~Critical(t)
    \/ value[m] = 0 /\ \E h \in Tasks : \A t \in Tasks : Critical(t) <=> t = h

\* A task that waits, also a suspended one, waits for m, and one that was
\* terminated has left its critical section: whoever is made RUNNING later is
\* counted as a holder exactly if it took m.
MutexInv ==
    /\ Inv
    /\ asked \subseteq Tasks
    /\ \A t \in Tasks :
         taskState[t] \in {"BLOCKED", "SUSPENDED_BLOCKED"} => t \in asked /\ why[t] = One
    /\ \A t \in Tasks : taskState[t] = "TERMINATED" => t \notin asked
    /\ HolderOK

\* Every step of the program is one of the semaphore's.
LEMMA MutexIsSemaphore ==
    ASSUME MutexAssumption, [MutexNext]_mutexVars
    PROVE  [Next]_vars
<1>1. ASSUME NEW t \in Tasks, Ask(t) PROVE Next
  BY <1>1 DEF Ask, MutexAssumption, Next
<1>2. ASSUME NEW t \in Tasks, Leave(t) PROVE Next
  BY <1>2 DEF Leave, MutexAssumption, Next
<1>3. ASSUME NEW t \in Disturbed, Disturb(t) PROVE Next
  BY <1>3 DEF Disturb, MutexAssumption, Next, TaskOperation
<1>4. CASE UNCHANGED mutexVars
  BY <1>4 DEF mutexVars
<1> QED
  BY <1>1, <1>2, <1>3, <1>4 DEF MutexNext

\* What the lists of one semaphore do to its value.
LEMMA OneProperties ==
    ASSUME MutexAssumption, NEW v \in [Semas -> 0 .. MaxValue]
    PROVE  /\ m \in Semas /\ v[m] \in Nat /\ MaxValue >= 1
           /\ Available(One, v) <=> v[m] >= 1
           /\ Take(One, v)[m] = v[m] - 1
           /\ Give(One, v)[m] = v[m] + 1
  BY SemaAssumption, MaxValueAssumption
  DEF MutexAssumption, Available, Take, Give, One

LEMMA MutexInvNext ==
    ASSUME MutexAssumption, MutexInv, [MutexNext]_mutexVars
    PROVE  MutexInv'
<1> USE DEF TaskStates
<1>0. Inv /\ Inv' /\ TaskInv
  BY MutexIsSemaphore, InvNext, InvParts DEF MutexInv
<1>1. /\ value \in [Semas -> 0 .. MaxValue]
      /\ taskState \in [Tasks -> TaskStates]
      /\ why \in [Tasks -> [Semas -> Nat]]
      /\ HolderOK
  BY <1>0, InvParts DEF MutexInv, TaskInv
<1>2. /\ m \in Semas /\ value[m] \in Nat
      /\ Available(One, value) <=> value[m] >= 1
      /\ Take(One, value)[m] = value[m] - 1
      /\ Give(One, value)[m] = value[m] + 1
  BY <1>1, OneProperties
<1>3. ASSUME NEW t \in Tasks, Ask(t)
      PROVE  MutexInv'
  <2>1. /\ t \notin asked /\ taskState[t] = "RUNNING"
        /\ asked' = asked \cup {t}
    BY <1>3 DEF Ask, Request
  <2>2. CASE value' = Take(One, value) /\ Available(One, value) /\ UNCHANGED taskVars
    BY <1>0, <1>1, <1>2, <2>1, <2>2 DEF MutexInv, HolderOK, Critical, taskVars
  <2>3. CASE Block(t, One) /\ UNCHANGED value
    BY <1>0, <1>1, <2>1, <2>3 DEF MutexInv, HolderOK, Critical, Block
  <2> QED
    BY <1>3, <2>2, <2>3 DEF Ask, Request
<1>4. ASSUME NEW t \in Tasks, Leave(t)
      PROVE  MutexInv'
  <2> DEFINE v == Give(One, value)
  <2>1. Critical(t) /\ Release(t, One) /\ asked' = asked \ {t}
    BY <1>4 DEF Leave
  <2>2. value[m] = 0 /\ \A x \in Tasks : Critical(x) <=> x = t
    BY <1>1, <2>1 DEF HolderOK
  <2>3. CASE Servable(v) = {}
    <3>1. value' = v /\ UNCHANGED taskVars
      BY <2>1, <2>3 DEF Release
    <3> QED
      BY <1>0, <1>1, <1>2, <2>1, <2>2, <3>1 DEF MutexInv, HolderOK, Critical, taskVars
  <2>4. CASE Servable(v) # {}
    <3> DEFINE u == FirstServable(v)
    <3>1. value' = Take(why[u], v) /\ Unblock(u)
      BY <2>1, <2>4 DEF Release
    <3>2. u \in Tasks /\ u \in QueueSet(waiters)
      BY <1>0, <2>4, FirstServableFound DEF Inv, QueueSet
    <3>3. taskState[u] = "BLOCKED"
      BY <1>0, <3>2 DEF TaskInv, QueueIsBlocked, InState
    <3> HIDE DEF u
    <3>4. u \in asked /\ why[u] = One /\ u # t
      BY <2>1, <3>2, <3>3 DEF MutexInv, Critical
    <3>5. value'[m] = 0
      BY <1>2, <2>2, <3>1, <3>4, MaxValueAssumption DEF Take, One, Give
    <3>6. taskState' = [taskState EXCEPT ![u] = "RUNNING"] /\ UNCHANGED why
      BY <3>1 DEF Unblock
    <3>7. \A x \in Tasks : Critical(x)' <=> x = u
      BY <1>1, <2>1, <2>2, <3>2, <3>4, <3>6 DEF Critical
    <3> QED
      BY <1>0, <1>1, <2>1, <3>2, <3>4, <3>5, <3>6, <3>7 DEF MutexInv, HolderOK, Critical
  <2> QED
    BY <2>3, <2>4
<1>5. ASSUME NEW t \in Tasks, Disturb(t)
      PROVE  MutexInv'
  <2>1. CASE UNCHANGED asked /\ \E me \in Tasks : Suspend(me, t)
    BY <1>0, <1>1, <2>1 DEF Suspend, SuspendBlocked, MutexInv, HolderOK, Critical
  <2>2. ASSUME NEW p \in Prios, UNCHANGED asked, ContinueSuspended(t, p)
        PROVE  MutexInv'
    <3>1. taskState[t] = "SUSPENDED_BLOCKED" /\ t \in asked /\ why[t] = One
      BY <2>2 DEF ContinueSuspended, ContinueServed, ContinueQueued, MutexInv
    <3>2. CASE value' = Take(One, value) /\ Available(One, value) /\ ContinueServed(t, p)
      BY <1>0, <1>1, <1>2, <2>2, <3>1, <3>2
      DEF ContinueServed, MutexInv, HolderOK, Critical
    <3>3. CASE UNCHANGED value /\ ContinueQueued(t, p)
      BY <1>0, <1>1, <2>2, <3>1, <3>3 DEF ContinueQueued, MutexInv, HolderOK, Critical
    <3> QED
      BY <2>2, <3>1, <3>2, <3>3 DEF ContinueSuspended
  <2>3. CASE UNCHANGED <<asked, value>> /\ \E p \in Prios : ContinueBlocked(t, p)
    BY <1>0, <1>1, <2>3 DEF ContinueBlocked, MutexInv, HolderOK, Critical
  <2>4. CASE UNCHANGED <<asked, value>> /\ \E p \in Prios : Activate(t, p)
    BY <1>0, <1>1, <2>4 DEF Activate, MutexInv, HolderOK, Critical
  <2>5. CASE /\ asked' = asked \ {t} /\ UNCHANGED value
             /\ \E me \in Tasks : TerminateBlocked(me, t)
    BY <1>0, <1>1, <2>5 DEF TerminateBlocked, MutexInv, HolderOK, Critical
  <2> QED
    BY <1>5, <2>1, <2>2, <2>3, <2>4, <2>5 DEF Disturb
<1>6. CASE UNCHANGED mutexVars
  BY <1>0, <1>6 DEF mutexVars, vars, taskVars, MutexInv, HolderOK, Critical
<1> QED
  BY <1>3, <1>4, <1>5, <1>6 DEF MutexNext, MutexAssumption

\* REQUEST and RELEASE of a semaphore that is preset to one exclude each other for
\* any number of tasks, although release() passes the resource on without the value
\* ever becoming one, and whatever is done to tasks while they wait: it is neither
\* lost with a suspended or terminated task nor given to two.
THEOREM MutexOneHolder ==
    ASSUME MutexAssumption
    PROVE  MutexSpec => []OneHolder
<1>1. ASSUME MutexInit PROVE MutexInv
  <2>1. Inv
    BY <1>1, InitInv DEF MutexInit
  <2>2. value[m] = 1
    BY <1>1 DEF MutexInit, Init, MutexAssumption, One
  <2> QED
    BY <1>1, <2>1, <2>2
    DEF MutexInit, Init, TaskInit, MutexInv, HolderOK, Critical
<1>2. MutexInv /\ [MutexNext]_mutexVars => MutexInv'
  BY MutexInvNext
<1>3. ASSUME MutexInv PROVE OneHolder
  <2>1. HolderOK
    BY <1>3 DEF MutexInv
  <2>2. CASE value[m] = 1 /\ \A t \in Tasks : ~Critical(t)
    <3>1. {t \in Tasks : Critical(t)} = {}
      BY <2>2
    <3> QED
      BY <2>2, <3>1, FS_EmptySet DEF OneHolder
  <2>3. CASE value[m] = 0 /\ \E h \in Tasks : \A t \in Tasks : Critical(t) <=> t = h
    <3>1. PICK h \in Tasks : {t \in Tasks : Critical(t)} = {h}
      BY <2>3
    <3> QED
      BY <2>3, <3>1, FS_Singleton DEF OneHolder
  <2> QED
    BY <2>1, <2>2, <2>3 DEF HolderOK
<1> QED
  BY <1>1, <1>2, <1>3, PTL DEF MutexSpec
=============================================================================
