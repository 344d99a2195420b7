----------------------------- MODULE BoltProofs -----------------------------
(***************************************************************************)
(* Proofs about module Bolt, for any number of tasks, bolts, priorities    *)
(* and lists, in programs that suspend no task that is blocked with ENTER, *)
(* and about the use of a bolt in module BoltUsers.                        *)
(*                                                                         *)
(* The inductive invariant is Inv.  CountMatchesState needs, besides the   *)
(* types, that a task in state SUSPENDED_BLOCKED waits with RESERVE:       *)
(* addToWaitQueue() does not count an ENTER.                               *)
(***************************************************************************)
EXTENDS BoltUsers, PriorityQueueProofs, FiniteSetTheorems

-----------------------------------------------------------------------------
(* The tasks: every operation of module TaskBlocking keeps the wait queue  *)
(* equal to the set of blocked tasks and sorted by the current priorities. *)

\* The order needs the agreement (insert() must not meet the task it inserts), and
\* both need the types.
TaskInv ==
    /\ taskState \in [Tasks -> TaskStates]
    /\ currentPrio \in [Tasks -> Prios]
    /\ waiters \in Seq(Tasks)
    /\ QueueIsBlocked
    /\ QueueSorted

LEMMA TaskInvQueue ==
    TaskInv <=> /\ taskState \in [Tasks -> TaskStates]
                /\ currentPrio \in [Tasks -> Prios]
                /\ QueueOf(waiters, Tasks, InState("BLOCKED"), currentPrio)
  BY DEF TaskInv, QueueOf, QueueIsBlocked, QueueSorted

\* TaskInvQueue after a step, which leaves the types and the queue to be shown.
LEMMA TaskInvNext ==
    ASSUME taskState' \in [Tasks -> TaskStates], currentPrio' \in [Tasks -> Prios],
           QueueOf(waiters', Tasks, InState("BLOCKED")', currentPrio')
    PROVE  TaskInv'
  BY DEF TaskInv, QueueOf, QueueIsBlocked, QueueSorted

LEMMA TaskInitInv ==
    ASSUME NEW noWhy, TaskInit(noWhy)
    PROVE  TaskInv
<1>1. QueueIsBlocked /\ QueueSorted
  BY DEF TaskInit, QueueIsBlocked, QueueSorted, Distinct, SortedBy, QueueSet, InState
<1> QED
  BY <1>1, PrioAssumption DEF TaskInit, TaskInv, TaskStates

\* A step that blocks t: Block() and ContinueQueued().
LEMMA Enqueued ==
    ASSUME TaskInv, NEW t \in Tasks, taskState[t] # "BLOCKED",
           currentPrio' \in [Tasks -> Prios],
           \A u \in Tasks : u # t => currentPrio'[u] = currentPrio[u],
           waiters' = Insert(waiters, t, currentPrio'),
           taskState' = [taskState EXCEPT ![t] = "BLOCKED"]
    PROVE  TaskInv'
<1>1. /\ taskState \in [Tasks -> TaskStates]
      /\ QueueOf(waiters, Tasks, InState("BLOCKED"), currentPrio)
  BY TaskInvQueue
<1>2. t \notin InState("BLOCKED") /\ InState("BLOCKED")' = InState("BLOCKED") \cup {t}
  BY <1>1 DEF InState
<1>3. /\ currentPrio' \in [Tasks -> Int]
      /\ \A u \in InState("BLOCKED") : currentPrio'[u] = currentPrio[u]
  BY <1>2, PrioAssumption DEF InState
<1>4. QueueOf(waiters', Tasks, InState("BLOCKED")', currentPrio')
  BY <1>1, <1>2, <1>3, QueueOfInsert
<1> QED
  BY <1>1, <1>4, TaskInvNext DEF TaskStates

\* A step that ends the waiting of t: a scan, SUSPEND or TERMINATE.
LEMMA Dequeued ==
    ASSUME TaskInv, NEW t \in Tasks, NEW s \in TaskStates, s # "BLOCKED",
           UNCHANGED currentPrio, waiters' = Remove(waiters, t),
           taskState' = [taskState EXCEPT ![t] = s]
    PROVE  TaskInv'
<1>1. /\ taskState \in [Tasks -> TaskStates] /\ currentPrio' \in [Tasks -> Prios]
      /\ QueueOf(waiters, Tasks, InState("BLOCKED"), currentPrio)
  BY TaskInvQueue
<1>2. InState("BLOCKED")' = InState("BLOCKED") \ {t}
  BY <1>1 DEF InState
<1>3. QueueOf(waiters', Tasks, InState("BLOCKED")', currentPrio')
  BY <1>1, <1>2, QueueOfRemove
<1> QED
  BY <1>1, <1>3, TaskInvNext

\* A step that neither queues nor unqueues anyone.
LEMMA QueueUnchanged ==
    ASSUME TaskInv, UNCHANGED waiters, InState("BLOCKED")' = InState("BLOCKED"),
           taskState' \in [Tasks -> TaskStates], currentPrio' \in [Tasks -> Prios],
           \A u \in InState("BLOCKED") : currentPrio'[u] = currentPrio[u]
    PROVE  TaskInv'
<1>1. QueueOf(waiters, Tasks, InState("BLOCKED"), currentPrio)
  BY TaskInvQueue
<1>2. QueueOf(waiters', Tasks, InState("BLOCKED")', currentPrio')
  BY <1>1, QueueOfSame
<1> QED
  BY <1>2, TaskInvNext

LEMMA BlockInv ==
    ASSUME TaskInv, NEW t \in Tasks, NEW request, taskState[t] = "RUNNING",
           Block(t, request)
    PROVE  TaskInv'
  BY Enqueued DEF Block, TaskInv

LEMMA UnblockInv ==
    ASSUME TaskInv, NEW t \in Tasks, Unblock(t)
    PROVE  TaskInv'
  BY Dequeued DEF Unblock, TaskStates

LEMMA SuspendBlockedInv ==
    ASSUME TaskInv, NEW me \in Tasks, NEW t \in Tasks, SuspendBlocked(me, t)
    PROVE  TaskInv'
  BY Dequeued DEF SuspendBlocked, TaskStates

LEMMA ContinueServedInv ==
    ASSUME TaskInv, NEW t \in Tasks, NEW p \in Prios, ContinueServed(t, p)
    PROVE  TaskInv'
  BY QueueUnchanged DEF ContinueServed, WithPrio, InState, TaskInv, TaskStates

LEMMA ContinueQueuedInv ==
    ASSUME TaskInv, NEW t \in Tasks, NEW p \in Prios, ContinueQueued(t, p)
    PROVE  TaskInv'
  BY Enqueued DEF ContinueQueued, WithPrio, TaskInv

\* The operations that leave the synchronisation object alone.
LEMMA TaskOperationInv ==
    ASSUME TaskInv, TaskOperation
    PROVE  TaskInv'
<1>1. ASSUME NEW me \in Tasks, NEW t \in Tasks, TerminateBlocked(me, t)
      PROVE  TaskInv'
  BY <1>1, Dequeued DEF TerminateBlocked, TaskStates
<1>2. ASSUME NEW t \in Tasks, NEW p \in Prios, ContinueBlocked(t, p)
      PROVE  TaskInv'
  <2>1. /\ currentPrio' \in [Tasks -> Prios] /\ currentPrio' \in [Tasks -> Int]
        /\ \A u \in InState("BLOCKED") \ {t} : currentPrio'[u] = currentPrio[u]
        /\ t \in InState("BLOCKED") /\ UNCHANGED taskState
        /\ waiters' = UpdateWaitQueue(t, currentPrio')
    BY <1>2, PrioAssumption DEF ContinueBlocked, WithPrio, TaskInv, InState
  <2>2. /\ taskState \in [Tasks -> TaskStates]
        /\ QueueOf(waiters, Tasks, InState("BLOCKED"), currentPrio)
    BY TaskInvQueue
  <2>3. waiters' = Insert(Remove(waiters, t), t, currentPrio')
    BY <2>1, <2>2 DEF UpdateWaitQueue, QueueOf
  <2>4. QueueOf(waiters', Tasks, InState("BLOCKED"), currentPrio')
    BY <2>1, <2>2, <2>3, QueueOfResort
  <2>5. InState("BLOCKED")' = InState("BLOCKED")
    BY <2>1 DEF InState
  <2> QED
    BY <2>1, <2>2, <2>4, <2>5, TaskInvNext
<1>3. ASSUME NEW t \in Tasks, NEW p \in Prios, ContinueRunning(t, p)
      PROVE  TaskInv'
  BY <1>3, QueueUnchanged DEF ContinueRunning, WithPrio, InState, TaskInv
<1>4. ASSUME NEW t \in Tasks, NEW p \in Prios, Activate(t, p)
      PROVE  TaskInv'
  BY <1>4, QueueUnchanged DEF Activate, InState, TaskInv, TaskStates
<1>5. ASSUME NEW t \in Tasks, TerminateMySelf(t)
      PROVE  TaskInv'
  BY <1>5, QueueUnchanged DEF TerminateMySelf, InState, TaskInv, TaskStates
<1> QED
  BY <1>1, <1>2, <1>3, <1>4, <1>5 DEF TaskOperation

\* A step that does not touch the tasks.
LEMMA TasksUntouched ==
    ASSUME TaskInv, UNCHANGED taskVars
    PROVE  TaskInv'
  BY DEF TaskInv, taskVars, QueueIsBlocked, QueueSorted, InState

-----------------------------------------------------------------------------
\* SUSPEND hits no task that is blocked with ENTER.
EntersNotSuspended == SuspendedOps \subseteq {"RESERVE"}

\* The states st and the counts agree.
BoltOK(st, count) ==
    /\ st \in [Bolts -> BoltStates]
    /\ count \in [Bolts -> 0 .. MaxEnters]
    /\ \A b \in Bolts : st[b] = "ENTERED" <=> count[b] > 0

WhyOK ==
    /\ why \in [Tasks -> Reasons]
    /\ \A t \in InState("SUSPENDED_BLOCKED") : why[t].op = "RESERVE"

Inv == TaskInv /\ BoltOK(state, nbrOfEnterOperations) /\ WhyOK

-----------------------------------------------------------------------------
\* The loop of enter(), also when it stops at a full counter.
LEMMA EnterBoltsOK ==
    ASSUME NEW st, NEW count, BoltOK(st, count),
           NEW list \in [Bolts -> Nat], EnterBolts(list, st, count)
    PROVE  BoltOK(state, nbrOfEnterOperations)'
<1> USE BoltAssumption
<1>1. ASSUME NEW part \in [Bolts -> Nat], EnterAll(part, st, count),
             \A b \in Bolts : count[b] + part[b] <= MaxEnters,
             \A b \in Bolts : part[b] <= list[b]
      PROVE  BoltOK(state, nbrOfEnterOperations)'
  <2>1. state' \in [Bolts -> BoltStates]
    BY <1>1 DEF BoltOK, EnterAll, SetState, BoltStates
  <2>2. nbrOfEnterOperations' \in [Bolts -> 0 .. MaxEnters]
    BY <1>1 DEF BoltOK, EnterAll
  <2>3. ASSUME NEW b \in Bolts
        PROVE  state'[b] = "ENTERED" <=> nbrOfEnterOperations'[b] > 0
    BY <1>1 DEF BoltOK, EnterAll, SetState
  <2> QED
    BY <2>1, <2>2, <2>3 DEF BoltOK
<1>2. CASE EnterOverflows(list, count)
  <2>1. PICK part \in Parts(list) :
            /\ \A b \in Bolts : count[b] + part[b] <= MaxEnters
            /\ EnterAll(part, st, count)
    BY <1>2 DEF EnterBolts, EnterPart
  <2>2. part \in [Bolts -> Nat] /\ \A b \in Bolts : part[b] <= list[b]
    BY <2>1 DEF Parts
  <2> QED
    BY <1>1, <2>1, <2>2
<1>3. CASE ~EnterOverflows(list, count)
  <2>1. EnterAll(list, st, count)
    BY <1>3 DEF EnterBolts
  <2>2. \A b \in Bolts : count[b] + list[b] <= MaxEnters
    BY <1>3 DEF EnterOverflows, BoltOK
  <2> QED
    BY <1>1, <2>1, <2>2
<1> QED
  BY <1>2, <1>3

\* setState(RESERVED) for a list of free bolts.
LEMMA ReserveBoltsOK ==
    ASSUME NEW st, NEW count, BoltOK(st, count),
           NEW list \in [Bolts -> Nat], ~Check("RESERVE", list, st)
    PROVE  BoltOK(SetState(list, "RESERVED", st), count)
  BY BoltAssumption DEF BoltOK, SetState, BoltStates, Check

\* The loop of leaveOrFree(), as far as it came.
LEMMA AfterOK ==
    ASSUME BoltOK(state, nbrOfEnterOperations),
           NEW oldState \in {"ENTERED", "RESERVED"}, NEW part \in [Bolts -> Nat],
           \A b \in Bolts : part[b] <= StepsToFree(b, oldState)
    PROVE  BoltOK(StateAfter(part, oldState), CountAfter(part, oldState))
<1> USE BoltAssumption
<1> DEFINE n == nbrOfEnterOperations
<1>1. \A x \in 0 .. MaxEnters : x % (MaxEnters + 1) = x
  OBVIOUS
<1>2. StateAfter(part, oldState) \in [Bolts -> BoltStates]
  BY DEF StateAfter, BoltOK, BoltStates
<1>3. CASE oldState = "RESERVED"
  <2>1. CountAfter(part, oldState) = n
    BY <1>3 DEF CountAfter
  <2>2. ASSUME NEW b \in Bolts
        PROVE  StateAfter(part, oldState)[b] = "ENTERED" <=> n[b] > 0
    BY <1>3 DEF StateAfter, StepsToFree, BoltOK, BoltStates
  <2> QED
    BY <1>2, <2>1, <2>2 DEF BoltOK
<1>4. CASE oldState = "ENTERED"
  <2>1. ASSUME NEW b \in Bolts
        PROVE  n[b] - part[b] \in 0 .. MaxEnters
    <3>1. part[b] <= StepsToFree(b, oldState)
      OBVIOUS
    <3>2. n[b] \in 0 .. MaxEnters /\ part[b] \in Nat /\ (state[b] = "ENTERED" <=> n[b] > 0)
      BY DEF BoltOK
    <3>3. StepsToFree(b, oldState) = IF state[b] = "ENTERED" THEN n[b] ELSE 0
      BY <1>4, <3>2 DEF StepsToFree
    <3> QED
      BY <3>1, <3>2, <3>3
  <2>2. CountAfter(part, oldState) = [b \in Bolts |-> n[b] - part[b]]
    BY <1>1, <1>4, <2>1 DEF CountAfter
  <2>3. CountAfter(part, oldState) \in [Bolts -> 0 .. MaxEnters]
    BY <2>1, <2>2
  <2>4. ASSUME NEW b \in Bolts
        PROVE  StateAfter(part, oldState)[b] = "ENTERED"
                  <=> CountAfter(part, oldState)[b] > 0
    <3>1. n[b] \in 0 .. MaxEnters /\ part[b] \in Nat /\ (state[b] = "ENTERED" <=> n[b] > 0)
      BY DEF BoltOK
    <3>2. StepsToFree(b, oldState) = IF state[b] = "ENTERED" THEN n[b] ELSE 0
      BY <1>4, <3>1 DEF StepsToFree
    <3>3. part[b] <= StepsToFree(b, oldState)
      OBVIOUS
    <3>4. CountAfter(part, oldState)[b] = n[b] - part[b]
      BY <2>2
    <3>5. StateAfter(part, oldState)[b] =
            IF part[b] > 0 /\ part[b] = StepsToFree(b, oldState) THEN "FREE" ELSE state[b]
      BY DEF StateAfter
    <3> QED
      BY <3>1, <3>2, <3>3, <3>4, <3>5
  <2> QED
    BY <1>2, <2>3, <2>4 DEF BoltOK
<1> QED
  BY <1>3, <1>4

-----------------------------------------------------------------------------
\* What a pass over the queue finds is a task that waits with that operation and
\* need not block any more.
LEMMA FirstServableFound ==
    ASSUME TaskInv, NEW op, NEW st, FirstServable(op, st) # NoTask
    PROVE  LET t == FirstServable(op, st) IN
           /\ t \in Tasks
           /\ taskState[t] = "BLOCKED"
           /\ why[t].op = op
           /\ ~Check(op, why[t].list, st)
<1> DEFINE S == Servable(op, st)
<1>1. waiters \in Seq(Tasks) /\ DOMAIN waiters = 1 .. Len(waiters) /\ Len(waiters) \in Nat
  BY DEF TaskInv
<1>2. S \in SUBSET Nat /\ S # {}
  BY <1>1 DEF Servable, Waiting, FirstServable
<1>3. \E i \in S : \A j \in S : i <= j
  <2> HIDE DEF S
  <2> QED
    BY <1>2, LeastNatural
<1> DEFINE i == CHOOSE i \in S : \A j \in S : i <= j
<1>4. i \in S
  BY <1>3
<1>5. FirstServable(op, st) = waiters[i]
  BY <1>2 DEF FirstServable
<1> HIDE DEF i
<1>6. /\ i \in DOMAIN waiters
      /\ why[waiters[i]].op = op
      /\ ~Check(op, why[waiters[i]].list, st)
  BY <1>4 DEF Servable, Waiting
<1>7. waiters[i] \in InState("BLOCKED")
  BY <1>6 DEF TaskInv, QueueIsBlocked, QueueSet
<1> QED
  BY <1>5, <1>6, <1>7 DEF InState

\* The tasks that leaveOrFree() unblocks leave the queue.
LEMMA UnblockFoundInv ==
    ASSUME TaskInv, NEW r, NEW e, UnblockFound(r, e)
    PROVE  TaskInv'
<1> DEFINE q == Remove(waiters, r)
<1>1. /\ waiters \in Seq(Tasks) /\ Distinct(waiters)
      /\ QueueSet(waiters) = InState("BLOCKED")
      /\ SortedBy(waiters, currentPrio)
      /\ taskState \in [Tasks -> TaskStates]
      /\ currentPrio \in [Tasks -> Prios]
  BY DEF TaskInv, QueueIsBlocked, QueueSorted
<1>2. /\ waiters' = Remove(q, e)
      /\ taskState' = [t \in Tasks |-> IF t \in {r, e} THEN "RUNNING" ELSE taskState[t]]
      /\ UNCHANGED currentPrio
  BY DEF UnblockFound
<1>3. /\ q \in Seq(Tasks) /\ Distinct(q)
      /\ QueueSet(q) = QueueSet(waiters) \ {r}
      /\ SortedBy(q, currentPrio)
  BY <1>1, RemoveProperties
<1> HIDE DEF q
<1>4. /\ waiters' \in Seq(Tasks) /\ Distinct(waiters')
      /\ QueueSet(waiters') = QueueSet(q) \ {e}
      /\ SortedBy(waiters', currentPrio)
  BY <1>2, <1>3, RemoveProperties
<1>5. InState("BLOCKED")' = InState("BLOCKED") \ {r, e}
  BY <1>2 DEF InState
<1>6. QueueIsBlocked' /\ QueueSorted'
  BY <1>1, <1>2, <1>3, <1>4, <1>5 DEF QueueIsBlocked, QueueSorted
<1>7. taskState' \in [Tasks -> TaskStates]
  BY <1>1, <1>2 DEF TaskStates
<1> QED
  BY <1>1, <1>2, <1>4, <1>6, <1>7 DEF TaskInv

\* Both passes keep the invariant.
LEMMA PassesInv ==
    ASSUME Inv, NEW st, NEW count, BoltOK(st, count), Passes(st, count)
    PROVE  Inv'
<1> DEFINE r == Pass1(st)
           afterPass1 == IF r = NoTask THEN st ELSE SetState(why[r].list, "RESERVED", st)
           e == Pass2(ReserveIsWaiting(st), afterPass1)
<1>0. TaskInv /\ WhyOK
  BY DEF Inv
<1>1. r # NoTask => r \in Tasks /\ ~Check("RESERVE", why[r].list, st)
  BY <1>0, FirstServableFound DEF Pass1
<1>2. e # NoTask => e \in Tasks
  BY <1>0, FirstServableFound DEF Pass2
<1>3. \A t \in Tasks : why[t].list \in [Bolts -> Nat]
  BY <1>0 DEF WhyOK, Reasons
<1>4. BoltOK(afterPass1, count)
  BY <1>1, <1>3, ReserveBoltsOK
<1>5. IF e = NoTask
      THEN /\ state' = afterPass1
           /\ nbrOfEnterOperations' = count
           /\ UnblockFound(r, NoTask)
      ELSE /\ EnterBolts(why[e].list, afterPass1, count)
           /\ UnblockFound(r, IF EnterOverflows(why[e].list, count) THEN NoTask ELSE e)
  BY DEF Passes
<1> HIDE DEF r, e, afterPass1
<1>6. BoltOK(state, nbrOfEnterOperations)'
  <2>1. CASE e = NoTask
    BY <1>4, <1>5, <2>1
  <2>2. CASE e # NoTask
    BY <1>2, <1>3, <1>4, <1>5, <2>2, EnterBoltsOK
  <2> QED
    BY <2>1, <2>2
<1>7. PICK x : UnblockFound(r, x)
  BY <1>5
<1>8. TaskInv'
  BY <1>0, <1>7, UnblockFoundInv
<1>9. WhyOK'
  BY <1>0, <1>7 DEF UnblockFound, WhyOK, InState
<1> QED
  BY <1>6, <1>8, <1>9 DEF Inv

-----------------------------------------------------------------------------
LEMMA InitInv == Init => Inv
<1> SUFFICES ASSUME Init PROVE Inv
  OBVIOUS
<1>1. TaskInv
  BY TaskInitInv DEF Init
<1>2. BoltOK(state, nbrOfEnterOperations)
  BY BoltAssumption DEF Init, BoltOK, BoltStates
<1>3. WhyOK
  BY DEF Init, TaskInit, WhyOK, Reasons, InState
<1> QED
  BY <1>1, <1>2, <1>3 DEF Inv

\* A step that does not touch the bolts.
LEMMA BoltsUntouched ==
    ASSUME Inv, UNCHANGED boltVars
    PROVE  BoltOK(state, nbrOfEnterOperations)'
  BY DEF Inv, boltVars, BoltOK

LEMMA LeaveOrFreeInv ==
    ASSUME Inv, NEW me \in Tasks, NEW oldState \in {"ENTERED", "RESERVED"},
           NEW list \in [Bolts -> Nat],
           LeaveOrFree(me, oldState, list) \/ WrongState(me, oldState, list)
    PROVE  Inv'
<1>1. BoltOK(state, nbrOfEnterOperations)
  BY DEF Inv
<1>2. CASE LeaveOrFree(me, oldState, list)
  BY <1>1, <1>2, AfterOK, PassesInv DEF LeaveOrFree
<1>3. CASE WrongState(me, oldState, list)
  <2>1. PICK part \in Parts(list) :
            /\ \A b \in Bolts : part[b] <= StepsToFree(b, oldState)
            /\ state' = StateAfter(part, oldState)
            /\ nbrOfEnterOperations' = CountAfter(part, oldState)
    BY <1>3 DEF WrongState
  <2>2. part \in [Bolts -> Nat]
    BY BoltAssumption DEF Parts
  <2>3. BoltOK(StateAfter(part, oldState), CountAfter(part, oldState))
    BY <1>1, <2>1, <2>2, AfterOK
  <2>4. BoltOK(state, nbrOfEnterOperations)'
    BY <2>1, <2>3
  <2>5. UNCHANGED taskVars
    BY <1>3 DEF WrongState
  <2>6. TaskInv' /\ WhyOK'
    BY <2>5, TasksUntouched DEF Inv, WhyOK, taskVars, InState
  <2> QED
    BY <2>4, <2>6 DEF Inv
<1> QED
  BY <1>2, <1>3

LEMMA EnterInv ==
    ASSUME Inv, NEW me \in Tasks, NEW list \in [Bolts -> Nat], Enter(me, list)
    PROVE  Inv'
<1>0. TaskInv /\ WhyOK /\ BoltOK(state, nbrOfEnterOperations)
  BY DEF Inv
<1>1. CASE Check("ENTER", list, state)
  <2>1. /\ taskState[me] = "RUNNING"
        /\ Block(me, [op |-> "ENTER", list |-> list])
        /\ UNCHANGED boltVars
    BY <1>1 DEF Enter
  <2>2. TaskInv'
    BY <1>0, <2>1, BlockInv
  <2>3. WhyOK'
    BY <1>0, <2>1 DEF Block, WhyOK, Reasons, InState, TaskInv
  <2> QED
    BY <2>1, <2>2, <2>3, BoltsUntouched DEF Inv
<1>2. CASE ~Check("ENTER", list, state)
  <2>1. EnterBolts(list, state, nbrOfEnterOperations) /\ UNCHANGED taskVars
    BY <1>2 DEF Enter
  <2>2. BoltOK(state, nbrOfEnterOperations)'
    BY <1>0, <2>1, EnterBoltsOK
  <2>3. TaskInv' /\ WhyOK'
    BY <1>0, <2>1, TasksUntouched DEF WhyOK, taskVars, InState
  <2> QED
    BY <2>2, <2>3 DEF Inv
<1> QED
  BY <1>1, <1>2

LEMMA ReserveInv ==
    ASSUME Inv, NEW me \in Tasks, NEW list \in [Bolts -> Nat], Reserve(me, list)
    PROVE  Inv'
<1>0. TaskInv /\ WhyOK /\ BoltOK(state, nbrOfEnterOperations)
  BY DEF Inv
<1>1. CASE Duplicates(list)
  <2>1. UNCHANGED <<boltVars, taskVars>>
    BY <1>1 DEF Reserve, vars
  <2>2. TaskInv' /\ WhyOK'
    BY <1>0, <2>1, TasksUntouched DEF WhyOK, taskVars, InState
  <2> QED
    BY <2>1, <2>2, BoltsUntouched DEF Inv
<1>2. CASE ~Duplicates(list) /\ Check("RESERVE", list, state)
  <2>1. /\ taskState[me] = "RUNNING"
        /\ Block(me, [op |-> "RESERVE", list |-> list])
        /\ UNCHANGED boltVars
    BY <1>2 DEF Reserve
  <2>2. TaskInv'
    BY <1>0, <2>1, BlockInv
  <2>3. WhyOK'
    BY <1>0, <2>1 DEF Block, WhyOK, Reasons, InState, TaskInv
  <2> QED
    BY <2>1, <2>2, <2>3, BoltsUntouched DEF Inv
<1>3. CASE ~Duplicates(list) /\ ~Check("RESERVE", list, state)
  <2>1. /\ state' = SetState(list, "RESERVED", state)
        /\ UNCHANGED nbrOfEnterOperations
        /\ UNCHANGED taskVars
    BY <1>3 DEF Reserve
  <2>2. BoltOK(state, nbrOfEnterOperations)'
    BY <1>0, <1>3, <2>1, ReserveBoltsOK
  <2>3. TaskInv' /\ WhyOK'
    BY <1>0, <2>1, TasksUntouched DEF WhyOK, taskVars, InState
  <2> QED
    BY <2>2, <2>3 DEF Inv
<1> QED
  BY <1>1, <1>2, <1>3

\* The only place that needs EntersNotSuspended.
LEMMA SuspendInv ==
    ASSUME Inv, EntersNotSuspended, NEW me \in Tasks, NEW t \in Tasks, Suspend(me, t)
    PROVE  Inv'
<1>1. /\ why[t].op = "RESERVE"
      /\ SuspendBlocked(me, t)
      /\ UNCHANGED boltVars
  BY DEF Suspend, EntersNotSuspended
<1>2. TaskInv'
  BY <1>1, SuspendBlockedInv DEF Inv
<1>3. WhyOK'
  BY <1>1 DEF Inv, SuspendBlocked, WhyOK, InState, TaskInv
<1> QED
  BY <1>1, <1>2, <1>3, BoltsUntouched DEF Inv

LEMMA ContinueSuspendedInv ==
    ASSUME Inv, NEW t \in Tasks, NEW p \in Prios, ContinueSuspended(t, p)
    PROVE  Inv'
<1>0. TaskInv /\ WhyOK /\ BoltOK(state, nbrOfEnterOperations)
  BY DEF Inv
<1>1. why[t].list \in [Bolts -> Nat]
  BY <1>0 DEF WhyOK, Reasons
<1>2. why[t].op = "RESERVE"
  BY <1>0 DEF ContinueSuspended, ContinueServed, ContinueQueued, WhyOK, InState
<1>3. CASE ~Check("RESERVE", why[t].list, state)
  <2>1. /\ state' = SetState(why[t].list, "RESERVED", state)
        /\ UNCHANGED nbrOfEnterOperations
        /\ ContinueServed(t, p)
    BY <1>2, <1>3 DEF ContinueSuspended
  <2>2. BoltOK(state, nbrOfEnterOperations)'
    BY <1>0, <1>1, <1>3, <2>1, ReserveBoltsOK
  <2>3. TaskInv'
    BY <1>0, <2>1, ContinueServedInv
  <2>4. WhyOK'
    BY <1>0, <2>1 DEF ContinueServed, WhyOK, InState, TaskInv
  <2> QED
    BY <2>2, <2>3, <2>4 DEF Inv
<1>4. CASE Check("RESERVE", why[t].list, state)
  <2>1. ContinueQueued(t, p) /\ UNCHANGED boltVars
    BY <1>2, <1>4 DEF ContinueSuspended
  <2>2. TaskInv'
    BY <1>0, <2>1, ContinueQueuedInv
  <2>3. WhyOK'
    BY <1>0, <2>1 DEF ContinueQueued, WhyOK, InState, TaskInv
  <2> QED
    BY <2>1, <2>2, <2>3, BoltsUntouched DEF Inv
<1> QED
  BY <1>3, <1>4

LEMMA TaskOperationKeeps ==
    ASSUME Inv, TaskOperation, UNCHANGED boltVars
    PROVE  Inv'
<1>1. TaskInv'
  BY TaskOperationInv DEF Inv
<1>2. WhyOK'
  <2>1. UNCHANGED why /\ InState("SUSPENDED_BLOCKED")' \subseteq InState("SUSPENDED_BLOCKED")
    BY DEF TaskOperation, TerminateBlocked, ContinueBlocked, ContinueRunning, Activate,
           TerminateMySelf, InState, Inv, TaskInv
  <2> QED
    BY <2>1 DEF Inv, WhyOK
<1> QED
  BY <1>1, <1>2, BoltsUntouched DEF Inv

LEMMA InvNext == EntersNotSuspended /\ Inv /\ [Next]_vars => Inv'
<1> SUFFICES ASSUME EntersNotSuspended, Inv, [Next]_vars PROVE Inv'
  OBVIOUS
<1>1. ASSUME NEW t \in Tasks, NEW list \in EnterLists, Enter(t, list)
      PROVE  Inv'
  BY <1>1, EnterInv, BoltAssumption
<1>2. ASSUME NEW t \in Tasks, NEW list \in LeaveLists, Leave(t, list)
      PROVE  Inv'
  BY <1>2, LeaveOrFreeInv, BoltAssumption DEF Leave
<1>3. ASSUME NEW t \in Tasks, NEW list \in ReserveLists, Reserve(t, list)
      PROVE  Inv'
  BY <1>3, ReserveInv, BoltAssumption
<1>4. ASSUME NEW t \in Tasks, NEW list \in FreeLists, Free(t, list)
      PROVE  Inv'
  BY <1>4, LeaveOrFreeInv, BoltAssumption DEF Free
<1>5. ASSUME NEW me \in Tasks, NEW t \in Tasks, Suspend(me, t)
      PROVE  Inv'
  BY <1>5, SuspendInv
<1>6. ASSUME NEW t \in Tasks, NEW p \in Prios, ContinueSuspended(t, p)
      PROVE  Inv'
  BY <1>6, ContinueSuspendedInv
<1>7. CASE TaskOperation /\ UNCHANGED boltVars
  BY <1>7, TaskOperationKeeps
<1>8. CASE UNCHANGED vars
  <2>1. TaskInv' /\ WhyOK'
    BY <1>8, TasksUntouched DEF Inv, vars, WhyOK, taskVars, InState
  <2> QED
    BY <1>8, <2>1, BoltsUntouched DEF Inv, vars
<1> QED
  BY <1>1, <1>2, <1>3, <1>4, <1>5, <1>6, <1>7, <1>8 DEF Next

\* However the lists of ENTER, LEAVE, RESERVE and FREE overlap, repeat bolts or
\* stop half way, and however waiting tasks are terminated, continued and, with
\* RESERVE, suspended: the queue holds exactly the blocked tasks in the order of
\* their priorities, and a bolt is entered exactly as long as its count, which
\* does not leave its 32 bits, is positive.
THEOREM BoltInvariant ==
    ASSUME EntersNotSuspended
    PROVE  Spec => [](TypeOK /\ QueueIsBlocked /\ QueueSorted /\ CountMatchesState)
<1>1. Inv => TypeOK /\ QueueIsBlocked /\ QueueSorted /\ CountMatchesState
  BY DEF Inv, TaskInv, BoltOK, WhyOK, TypeOK, TaskTypeOK, CountMatchesState
<1>2. Inv /\ [Next]_vars => Inv'
  BY InvNext
<1> QED
  BY <1>1, <1>2, InitInv, PTL DEF Spec
-----------------------------------------------------------------------------
(* What becomes of tasks that wait with RESERVE.                           *)

\* Where a bolt was taken it still is.
StaysTaken(st, new) ==
    /\ st \in [Bolts -> BoltStates] /\ new \in [Bolts -> BoltStates]
    /\ \A x \in Bolts : st[x] # "FREE" => new[x] # "FREE"

\* Only a step that frees a bolt can make a waiting RESERVE possible.
LEMMA ReserveStillWaits ==
    ASSUME NEW list, NEW st, NEW new, StaysTaken(st, new), Check("RESERVE", list, st)
    PROVE  Check("RESERVE", list, new)
  BY DEF StaysTaken, Check, BoltStates

LEMMA NoneFreed ==
    ASSUME NoMissedReserve, StaysTaken(state, state'),
           \A t \in InState("BLOCKED")' :
               \/ t \in InState("BLOCKED") /\ why'[t] = why[t]
               \/ why'[t].op # "RESERVE"
               \/ Check("RESERVE", why'[t].list, state')
    PROVE  NoMissedReserve'
<1> SUFFICES ASSUME NEW t \in InState("BLOCKED")', why'[t].op = "RESERVE",
                    t \in InState("BLOCKED"), why'[t] = why[t]
             PROVE  Check("RESERVE", why[t].list, state')
  BY DEF NoMissedReserve
<1>1. Check("RESERVE", why[t].list, state)
  BY DEF NoMissedReserve
<1> QED
  BY <1>1, ReserveStillWaits

\* setState() with anything but FREE.
LEMMA SetStateTakes ==
    ASSUME NEW st \in [Bolts -> BoltStates], NEW list, NEW new \in BoltStates, new # "FREE"
    PROVE  StaysTaken(st, SetState(list, new, st))
  BY DEF StaysTaken, SetState

LEMMA EnterBoltsTakes ==
    ASSUME NEW st \in [Bolts -> BoltStates], NEW count, NEW list, EnterBolts(list, st, count)
    PROVE  StaysTaken(st, state')
<1>1. PICK part : EnterAll(part, st, count)
  BY DEF EnterBolts, EnterPart
<1> QED
  BY <1>1, SetStateTakes DEF EnterAll, BoltStates

\* The loop over a list of one bolt frees at most this one.
LEMMA OneFreed ==
    ASSUME NEW list, NEW oldState, ~Several(list)
    PROVE  \A x, y \in Bolts :
               /\ state[x] # "FREE" /\ StateAfter(list, oldState)[x] = "FREE"
               /\ state[y] # "FREE" /\ StateAfter(list, oldState)[y] = "FREE"
               => x = y
  BY DEF Several, StateAfter

\* Both passes, after at most one bolt was freed: if that makes a RESERVE possible,
\* one that is served takes this bolt, and the others have to wait for it again.
LEMMA PassesServeReserve ==
    ASSUME Inv, NoMissedReserve, NEW st, NEW count, BoltOK(st, count), Passes(st, count),
           \A x, y \in Bolts : /\ state[x] # "FREE" /\ st[x] = "FREE"
                               /\ state[y] # "FREE" /\ st[y] = "FREE"
                               => x = y
    PROVE  NoMissedReserve'
<1> DEFINE r == Pass1(st)
           afterPass1 == IF r = NoTask THEN st ELSE SetState(why[r].list, "RESERVED", st)
           e == Pass2(ReserveIsWaiting(st), afterPass1)
<1>0. /\ TaskInv /\ st \in [Bolts -> BoltStates] /\ state \in [Bolts -> BoltStates]
      /\ taskState \in [Tasks -> TaskStates]
  BY DEF Inv, BoltOK, TaskInv
<1>1. r # NoTask => /\ r \in Tasks /\ taskState[r] = "BLOCKED"
                    /\ why[r].op = "RESERVE" /\ ~Check("RESERVE", why[r].list, st)
  BY <1>0, FirstServableFound DEF Pass1
<1>2. IF e = NoTask
      THEN /\ state' = afterPass1
           /\ nbrOfEnterOperations' = count
           /\ UnblockFound(r, NoTask)
      ELSE /\ EnterBolts(why[e].list, afterPass1, count)
           /\ UnblockFound(r, IF EnterOverflows(why[e].list, count) THEN NoTask ELSE e)
  BY DEF Passes
<1>3. r = NoTask => \A t \in InState("BLOCKED") :
                        why[t].op = "RESERVE" => Check("RESERVE", why[t].list, st)
  <2> SUFFICES ASSUME r = NoTask, NEW t \in InState("BLOCKED"), why[t].op = "RESERVE",
                      ~Check("RESERVE", why[t].list, st)
               PROVE  FALSE
    OBVIOUS
  <2>1. PICK i \in DOMAIN waiters : waiters[i] = t
    BY <1>0 DEF TaskInv, QueueIsBlocked, QueueSet
  <2>2. i \in Servable("RESERVE", st)
    BY <2>1 DEF Servable, Waiting
  <2>3. r = waiters[CHOOSE j \in Servable("RESERVE", st) :
                        \A k \in Servable("RESERVE", st) : j <= k]
    BY <2>2 DEF Pass1, FirstServable
  <2>4. \E j \in Servable("RESERVE", st) : \A k \in Servable("RESERVE", st) : j <= k
    <3>1. Servable("RESERVE", st) \in SUBSET Nat
      BY <1>0 DEF Servable, Waiting, TaskInv
    <3> QED
      BY <2>2, <3>1, LeastNatural
  <2>5. PICK j \in DOMAIN waiters : r = waiters[j]
    BY <2>3, <2>4 DEF Servable, Waiting
  <2> QED
    BY <1>0, <2>5, BoltAssumption DEF TaskInv
<1>4. afterPass1 \in [Bolts -> BoltStates] /\ StaysTaken(st, afterPass1)
  BY <1>0, SetStateTakes DEF StaysTaken, SetState, BoltStates
<1> HIDE DEF r, e
<1>5. StaysTaken(afterPass1, state')
  <2>1. CASE e = NoTask
    BY <1>2, <1>4, <2>1 DEF StaysTaken
  <2>2. CASE e # NoTask
    <3> HIDE DEF afterPass1
    <3> QED
      BY <1>2, <1>4, <2>2, EnterBoltsTakes
  <2> QED
    BY <2>1, <2>2
<1>6. PICK f : UnblockFound(r, f)
  BY <1>2
<1>7. ASSUME NEW t \in InState("BLOCKED")', why'[t].op = "RESERVE"
      PROVE  Check("RESERVE", why'[t].list, state')
  <2>1. t \in InState("BLOCKED") /\ t # r /\ why'[t] = why[t]
    BY <1>6, <1>7 DEF UnblockFound, InState
  <2>2. Check("RESERVE", why[t].list, state)
    BY <1>7, <2>1 DEF NoMissedReserve
  <2>3. Check("RESERVE", why[t].list, afterPass1)
    <3>1. CASE Check("RESERVE", why[t].list, st)
      <4> HIDE DEF afterPass1
      <4> QED
        BY <1>4, <3>1, ReserveStillWaits
    <3>2. CASE ~Check("RESERVE", why[t].list, st)
      <4>1. r # NoTask
        BY <1>3, <1>7, <2>1, <3>2
      <4>2. PICK x \in Bolts : why[t].list[x] > 0 /\ state[x] # "FREE" /\ st[x] = "FREE"
        BY <1>0, <2>2, <3>2 DEF Check, BoltStates
      <4>3. Check("RESERVE", why[r].list, state)
        BY <1>1, <4>1 DEF NoMissedReserve, InState
      <4>4. PICK y \in Bolts : why[r].list[y] > 0 /\ state[y] # "FREE" /\ st[y] = "FREE"
        BY <1>0, <1>1, <4>1, <4>3 DEF Check, BoltStates
      <4>5. x = y
        BY <4>2, <4>4
      <4>6. afterPass1[x] = "RESERVED"
        BY <4>1, <4>4, <4>5 DEF SetState
      <4> QED
        BY <4>2, <4>6 DEF Check
    <3> QED
      BY <3>1, <3>2
  <2> HIDE DEF afterPass1
  <2>4. Check("RESERVE", why[t].list, state')
    BY <1>5, <2>3, ReserveStillWaits
  <2> QED
    BY <2>1, <2>4
<1> QED
  BY <1>7 DEF NoMissedReserve

LEMMA NoMissedReserveNext ==
    ASSUME Inv, NoMissedReserve, [Next]_vars,
           ~ \E me \in Tasks, oldState \in {"ENTERED", "RESERVED"},
                list \in LeaveLists \cup FreeLists :
                \/ WrongState(me, oldState, list)
                \/ Several(list) /\ LeaveOrFree(me, oldState, list)
    PROVE  NoMissedReserve'
<1>0. /\ state \in [Bolts -> BoltStates] /\ taskState \in [Tasks -> TaskStates]
      /\ why \in [Tasks -> Reasons]
  BY DEF Inv, BoltOK, TaskInv, WhyOK
<1>1. StaysTaken(state, state)
  BY <1>0 DEF StaysTaken
<1>2. ASSUME NEW t \in Tasks, NEW list \in EnterLists, Enter(t, list)
      PROVE  NoMissedReserve'
  <2>1. CASE Block(t, [op |-> "ENTER", list |-> list]) /\ UNCHANGED boltVars
    BY <1>0, <1>1, <2>1, NoneFreed DEF Block, boltVars, InState
  <2>2. CASE EnterBolts(list, state, nbrOfEnterOperations) /\ UNCHANGED taskVars
    <3>1. StaysTaken(state, state')
      BY <1>0, <2>2, EnterBoltsTakes
    <3> QED
      BY <2>2, <3>1, NoneFreed DEF taskVars, InState
  <2> QED
    BY <1>2, <2>1, <2>2 DEF Enter
<1>3. ASSUME NEW t \in Tasks, NEW list \in ReserveLists, Reserve(t, list)
      PROVE  NoMissedReserve'
  <2>1. CASE UNCHANGED vars
    BY <1>1, <2>1, NoneFreed DEF vars, boltVars, taskVars, InState
  <2>2. CASE /\ Check("RESERVE", list, state)
             /\ Block(t, [op |-> "RESERVE", list |-> list]) /\ UNCHANGED boltVars
    BY <1>0, <1>1, <2>2, NoneFreed DEF Block, boltVars, InState
  <2>3. CASE state' = SetState(list, "RESERVED", state) /\ UNCHANGED taskVars
    <3>1. StaysTaken(state, state')
      BY <1>0, <2>3, SetStateTakes DEF BoltStates
    <3> QED
      BY <2>3, <3>1, NoneFreed DEF taskVars, InState
  <2> QED
    BY <1>3, <2>1, <2>2, <2>3 DEF Reserve
<1>4. ASSUME NEW t \in Tasks, NEW oldState \in {"ENTERED", "RESERVED"},
             NEW list \in LeaveLists \cup FreeLists,
             LeaveOrFree(t, oldState, list)
      PROVE  NoMissedReserve'
  <2> DEFINE st == StateAfter(list, oldState)
             count == CountAfter(list, oldState)
  <2>1. ~Several(list)
    BY <1>4
  <2>2. BoltOK(st, count)
    BY <1>4, AfterOK, BoltAssumption DEF LeaveOrFree, Inv
  <2>3. Passes(st, count)
    BY <1>4 DEF LeaveOrFree
  <2>4. \A x, y \in Bolts : /\ state[x] # "FREE" /\ st[x] = "FREE"
                            /\ state[y] # "FREE" /\ st[y] = "FREE"
                            => x = y
    BY <2>1, OneFreed
  <2> HIDE DEF st, count
  <2> QED
    BY <2>2, <2>3, <2>4, PassesServeReserve
<1>5. ASSUME NEW t \in Tasks, NEW list \in LeaveLists, Leave(t, list)
      PROVE  NoMissedReserve'
  BY <1>4, <1>5 DEF Leave
<1>6. ASSUME NEW t \in Tasks, NEW list \in FreeLists, Free(t, list)
      PROVE  NoMissedReserve'
  BY <1>4, <1>6 DEF Free
<1>7. ASSUME NEW me \in Tasks, NEW t \in Tasks, Suspend(me, t)
      PROVE  NoMissedReserve'
  BY <1>0, <1>1, <1>7, NoneFreed DEF Suspend, SuspendBlocked, boltVars, InState
<1>8. ASSUME NEW t \in Tasks, NEW p \in Prios, ContinueSuspended(t, p)
      PROVE  NoMissedReserve'
  <2>1. CASE /\ state' = SetState(why[t].list, IF why[t].op = "ENTER" THEN "ENTERED"
                                                ELSE "RESERVED", state)
             /\ ContinueServed(t, p)
    <3>1. StaysTaken(state, state')
      BY <1>0, <2>1, SetStateTakes DEF BoltStates
    <3> QED
      BY <1>0, <2>1, <3>1, NoneFreed DEF ContinueServed, InState
  <2>2. CASE /\ Check(why[t].op, why[t].list, state)
             /\ ContinueQueued(t, p) /\ UNCHANGED boltVars
    BY <1>0, <1>1, <2>2, NoneFreed DEF ContinueQueued, boltVars, InState
  <2> QED
    BY <1>8, <2>1, <2>2 DEF ContinueSuspended
<1>9. CASE TaskOperation /\ UNCHANGED boltVars
  <2>1. UNCHANGED why /\ InState("BLOCKED")' \subseteq InState("BLOCKED")
    BY <1>0, <1>9 DEF TaskOperation, TerminateBlocked, ContinueBlocked, ContinueRunning,
           Activate, TerminateMySelf, InState
  <2> QED
    BY <1>1, <1>9, <2>1, NoneFreed DEF boltVars
<1>10. CASE UNCHANGED vars
  BY <1>1, <1>10, NoneFreed DEF vars, boltVars, taskVars, InState
<1> QED
  BY <1>2, <1>3, <1>5, <1>6, <1>7, <1>8, <1>9, <1>10 DEF Next

\* A LEAVE or FREE of one bolt that makes a waiting RESERVE possible serves one, and
\* leaves none behind that is possible; nothing else makes one possible, for any number
\* of bolts, lists and tasks.
THEOREM BoltReserveServed ==
    ASSUME EntersNotSuspended
    PROVE  Spec => ReserveServed
<1>1. Inv /\ [Next]_vars => Inv'
  BY InvNext
<1>2. Inv /\ [Next]_vars =>
        [NoMissedReserve =>
          \/ NoMissedReserve'
          \/ \E me \in Tasks, oldState \in {"ENTERED", "RESERVED"},
                list \in LeaveLists \cup FreeLists :
                \/ WrongState(me, oldState, list)
                \/ Several(list) /\ LeaveOrFree(me, oldState, list)]_vars
  BY NoMissedReserveNext
<1> QED
  BY <1>1, <1>2, InitInv, PTL DEF Spec, ReserveServed

-----------------------------------------------------------------------------
(* The use of a bolt for shared and exclusive access.                      *)

Readers == {t \in Tasks : Uses(t, "ENTER")}
Writers == {t \in Tasks : Uses(t, "RESERVE")}

\* As in the use of a semaphore, what a task waits for is what it will have.
AskedOK ==
    /\ asked \in [Tasks -> {"none", "ENTER", "RESERVE"}]
    /\ \A t \in Tasks : taskState[t] \in {"BLOCKED", "SUSPENDED_BLOCKED"} =>
                            why[t].op = asked[t] /\ why[t].list = One
    /\ \A t \in Tasks : taskState[t] = "TERMINATED" => asked[t] = "none"

\* The count is the number of readers, so that the last LEAVE is the one that frees the
\* bolt.
UseOK ==
    /\ nbrOfEnterOperations[bolt] = Cardinality(Readers)
    /\ state[bolt] = "RESERVED" => \E w \in Tasks : Writers = {w}
    /\ state[bolt] # "RESERVED" => Writers = {}
    /\ FreeOnlyIfNobodyWaits

UsersInv == Inv /\ AskedOK /\ UseOK

\* Every step of the program is one of the bolt's.
LEMMA UsersAreBoltUsers ==
    ASSUME UsersAssumption, [UsersNext]_usersVars
    PROVE  [Next]_vars
<1>1. ASSUME NEW t \in Tasks, NEW op \in {"ENTER", "RESERVE"}, Begin(t, op) PROVE Next
  BY <1>1 DEF Begin, UsersAssumption, Next
<1>2. ASSUME NEW t \in Tasks, End(t) PROVE Next
  BY <1>2 DEF End, UsersAssumption, Next
<1>3. ASSUME NEW t \in Tasks, Disturb(t) PROVE Next
  BY <1>3 DEF Disturb, Next, TaskOperation
<1>4. CASE UNCHANGED usersVars
  BY <1>4 DEF usersVars
<1> QED
  BY <1>1, <1>2, <1>3, <1>4 DEF UsersNext

\* What the operations on a list of one bolt look at.
LEMMA OneProperties ==
    ASSUME UsersAssumption
    PROVE  /\ bolt \in Bolts /\ One \in [Bolts -> Nat]
           /\ ~Duplicates(One)
           /\ \A op, st : Check(op, One, st) <=>
                 st[bolt] = "RESERVED" \/ (st[bolt] = "ENTERED" /\ op = "RESERVE")
           /\ \A new, st : SetState(One, new, st)[bolt] = new
           /\ \A count : EnterOverflows(One, count) <=> count[bolt] + 1 > MaxEnters
  BY DEF UsersAssumption, One, Duplicates, Check, SetState, EnterOverflows

\* A task that does not read is room for one more ENTER.
LEMMA RoomForOne ==
    ASSUME UsersAssumption, UsersInv, NEW t \in Tasks, t \notin Readers
    PROVE  nbrOfEnterOperations[bolt] + 1 <= MaxEnters
<1>1. IsFiniteSet(Tasks) /\ Cardinality(Tasks) <= MaxEnters /\ Readers \subseteq Tasks \ {t}
  BY DEF UsersAssumption, Readers
<1>2. IsFiniteSet(Tasks \ {t}) /\ Cardinality(Tasks \ {t}) = Cardinality(Tasks) - 1
  BY <1>1, FS_RemoveElement
<1>3. Cardinality(Readers) <= Cardinality(Tasks \ {t})
  BY <1>1, <1>2, FS_Subset
<1>4. Cardinality(Tasks) \in Nat /\ Cardinality(Readers) \in Nat
  BY <1>1, FS_CardinalityType, FS_Subset
<1> QED
  BY <1>1, <1>2, <1>3, <1>4, BoltAssumption DEF UsersInv, UseOK

\* An ENTER of the bolt that is not reserved.
LEMMA EnterOne ==
    ASSUME UsersAssumption, NEW st, NEW count, count[bolt] + 1 <= MaxEnters,
           count[bolt] \in Nat, EnterBolts(One, st, count)
    PROVE  state'[bolt] = "ENTERED" /\ nbrOfEnterOperations'[bolt] = count[bolt] + 1
<1>1. ~EnterOverflows(One, count)
  BY OneProperties, BoltAssumption
<1>2. EnterAll(One, st, count)
  BY <1>1 DEF EnterBolts
<1> QED
  BY <1>2, OneProperties DEF EnterAll, One

\* What both passes may do when the tasks wait for one bolt: nothing, in particular if
\* nobody waits; or let one RESERVE or one ENTER have it.
LEMMA PassesOfOne ==
    ASSUME UsersAssumption, UsersInv, NEW st, NEW count, BoltOK(st, count),
           count[bolt] <= nbrOfEnterOperations[bolt], Passes(st, count)
    PROVE  /\ UNCHANGED why
           /\ \/ /\ state'[bolt] = st[bolt] /\ nbrOfEnterOperations'[bolt] = count[bolt]
                 /\ UNCHANGED taskState
                 /\ st[bolt] = "FREE" => InState("BLOCKED") = {}
              \/ \E r \in InState("BLOCKED") :
                 /\ asked[r] = "RESERVE" /\ st[bolt] = "FREE"
                 /\ state'[bolt] = "RESERVED" /\ nbrOfEnterOperations'[bolt] = count[bolt]
                 /\ taskState' = [taskState EXCEPT ![r] = "RUNNING"]
              \/ \E e \in InState("BLOCKED") :
                 /\ asked[e] = "ENTER" /\ st[bolt] # "RESERVED"
                 /\ state'[bolt] = "ENTERED" /\ nbrOfEnterOperations'[bolt] = count[bolt] + 1
                 /\ taskState' = [taskState EXCEPT ![e] = "RUNNING"]
<1> DEFINE r == Pass1(st)
           afterPass1 == IF r = NoTask THEN st ELSE SetState(why[r].list, "RESERVED", st)
           e == Pass2(ReserveIsWaiting(st), afterPass1)
<1>0. /\ TaskInv /\ taskState \in [Tasks -> TaskStates]
      /\ bolt \in Bolts /\ st[bolt] \in BoltStates
      /\ count[bolt] \in Nat /\ nbrOfEnterOperations[bolt] \in Nat
      /\ NoTask \notin Tasks
  BY OneProperties, BoltAssumption DEF UsersInv, Inv, TaskInv, BoltOK
<1>1. \A t \in InState("BLOCKED") : /\ t \in Tasks /\ why[t].list = One
                                    /\ why[t].op = asked[t]
  BY DEF UsersInv, AskedOK, InState
<1>2. r # NoTask => /\ r \in InState("BLOCKED") /\ asked[r] = "RESERVE"
                    /\ ~Check("RESERVE", One, st)
  BY <1>0, <1>1, FirstServableFound DEF Pass1, InState
<1>3. e # NoTask => /\ e \in InState("BLOCKED") /\ asked[e] = "ENTER"
                    /\ ~Check("ENTER", One, afterPass1)
  BY <1>0, <1>1, FirstServableFound DEF Pass2, InState
<1>4. IF e = NoTask
      THEN /\ state' = afterPass1
           /\ nbrOfEnterOperations' = count
           /\ UnblockFound(r, NoTask)
      ELSE /\ EnterBolts(why[e].list, afterPass1, count)
           /\ UnblockFound(r, IF EnterOverflows(why[e].list, count) THEN NoTask ELSE e)
  BY DEF Passes
\* Of a free bolt nobody is left waiting unserved.
<1>5. ASSUME st[bolt] = "FREE", r = NoTask, e = NoTask
      PROVE  InState("BLOCKED") = {}
  <2> SUFFICES ASSUME NEW t \in InState("BLOCKED") PROVE FALSE
    OBVIOUS
  <2>1. PICK i \in DOMAIN waiters : waiters[i] = t
    BY <1>0 DEF TaskInv, QueueIsBlocked, QueueSet
  <2>2. \A op : Servable(op, st) = Waiting(op)
    <3>1. \A j \in DOMAIN waiters : waiters[j] \in InState("BLOCKED")
      BY <1>0 DEF TaskInv, QueueIsBlocked, QueueSet
    <3> QED
      BY <1>1, <1>5, <3>1, OneProperties DEF Servable, Waiting
  <2>3. ASSUME NEW op, Servable(op, st) # {}
        PROVE  FirstServable(op, st) # NoTask
    <3>1. Servable(op, st) \in SUBSET Nat
      BY <1>0 DEF Servable, Waiting, TaskInv
    <3>2. \E j \in Servable(op, st) : \A k \in Servable(op, st) : j <= k
      BY <2>3, <3>1, LeastNatural
    <3>3. PICK j \in DOMAIN waiters : FirstServable(op, st) = waiters[j]
      BY <2>3, <3>2 DEF FirstServable, Servable, Waiting
    <3> QED
      BY <1>0, <3>3 DEF TaskInv
  <2>4. Waiting("RESERVE") = {}
    BY <1>5, <2>2, <2>3 DEF Pass1
  <2>5. Waiting("ENTER") = {}
    BY <1>5, <2>2, <2>3, <2>4 DEF Pass2, ReserveIsWaiting
  <2>6. why[t].op \in {"ENTER", "RESERVE"}
    BY <1>1 DEF UsersInv, Inv, WhyOK, Reasons
  <2> QED
    BY <2>1, <2>4, <2>5, <2>6 DEF Waiting
<1> HIDE DEF r, e
<1>6. CASE r = NoTask /\ e = NoTask
  <2>1. taskState' = taskState /\ UNCHANGED why
    BY <1>0, <1>4, <1>6 DEF UnblockFound
  <2> QED
    BY <1>4, <1>5, <1>6, <2>1
<1>7. CASE r # NoTask
  <2>1. afterPass1[bolt] = "RESERVED"
    BY <1>1, <1>2, <1>7, OneProperties
  <2>2. e = NoTask
    <3> HIDE DEF afterPass1
    <3> QED
      BY <1>3, <2>1, OneProperties
  <2>3. st[bolt] = "FREE"
    BY <1>0, <1>2, <1>7, OneProperties DEF BoltStates
  <2>4. UNCHANGED why /\ taskState' = [taskState EXCEPT ![r] = "RUNNING"]
    BY <1>0, <1>4, <2>2 DEF UnblockFound
  <2> QED
    BY <1>2, <1>4, <1>7, <2>1, <2>2, <2>3, <2>4
<1>8. CASE r = NoTask /\ e # NoTask
  <2>1. e \in InState("BLOCKED") /\ asked[e] = "ENTER" /\ st[bolt] # "RESERVED"
    BY <1>3, <1>8, OneProperties
  <2>2. count[bolt] + 1 <= MaxEnters
    <3>1. e \in Tasks /\ e \notin Readers
      BY <2>1 DEF Readers, Uses, InState
    <3> QED
      BY <1>0, <3>1, RoomForOne, BoltAssumption
  <2>3. EnterBolts(One, st, count) /\ ~EnterOverflows(One, count)
    BY <1>0, <1>1, <1>4, <1>8, <2>1, <2>2, OneProperties, BoltAssumption
  <2>4. UNCHANGED why /\ taskState' = [taskState EXCEPT ![e] = "RUNNING"]
    BY <1>0, <1>1, <1>4, <1>8, <2>1, <2>3 DEF UnblockFound
  <2> QED
    BY <1>0, <2>1, <2>2, <2>3, <2>4, EnterOne
<1> QED
  BY <1>6, <1>7, <1>8

\* Adding a reader and taking one away.
LEMMA OneMoreOrLess ==
    ASSUME UsersAssumption, NEW S \in SUBSET Tasks, NEW t
    PROVE  /\ Cardinality(S) \in Nat
           /\ t \notin S => Cardinality(S \cup {t}) = Cardinality(S) + 1
           /\ t \in S => Cardinality(S \ {t}) = Cardinality(S) - 1
<1>1. IsFiniteSet(S)
  BY FS_Subset DEF UsersAssumption
<1> QED
  BY <1>1, FS_CardinalityType, FS_AddElement, FS_RemoveElement

\* A step that changes neither the bolt nor who uses it, and that makes no task wait for
\* it while it is free.
LEMMA UseKept ==
    ASSUME UseOK, UNCHANGED boltVars, Readers' = Readers, Writers' = Writers,
           state[bolt] = "FREE" => InState("BLOCKED")' \subseteq InState("BLOCKED")
    PROVE  UseOK'
  BY DEF UseOK, boltVars, FreeOnlyIfNobodyWaits

LEMMA BeginUse ==
    ASSUME UsersAssumption, EntersNotSuspended, UsersInv,
           NEW t \in Tasks, NEW op \in {"ENTER", "RESERVE"}, Begin(t, op)
    PROVE  AskedOK' /\ UseOK'
<1>0. /\ taskState \in [Tasks -> TaskStates] /\ why \in [Tasks -> Reasons]
      /\ BoltOK(state, nbrOfEnterOperations) /\ AskedOK /\ UseOK
      /\ bolt \in Bolts /\ state[bolt] \in BoltStates /\ nbrOfEnterOperations[bolt] \in Nat
  BY OneProperties, BoltAssumption DEF UsersInv, Inv, TaskInv, WhyOK, BoltOK
<1>1. /\ asked[t] = "none" /\ asked' = [asked EXCEPT ![t] = op]
      /\ taskState[t] = "RUNNING" /\ t \notin Readers
  BY DEF Begin, Enter, Reserve, Readers, Uses
<1>2. CASE /\ state[bolt] # "FREE" /\ UNCHANGED boltVars
           /\ Block(t, [op |-> op, list |-> One])
  <2>1. /\ taskState' = [taskState EXCEPT ![t] = "BLOCKED"]
        /\ why' = [why EXCEPT ![t] = [op |-> op, list |-> One]]
    BY <1>2 DEF Block
  <2>2. Readers' = Readers /\ Writers' = Writers
    BY <1>0, <1>1, <2>1 DEF Readers, Writers, Uses, AskedOK
  <2>3. AskedOK'
    BY <1>0, <1>1, <2>1 DEF AskedOK, TaskStates
  <2> QED
    BY <1>0, <1>2, <2>2, <2>3, UseKept
<1>3. ASSUME UNCHANGED taskVars PROVE AskedOK'
  BY <1>0, <1>1, <1>3 DEF AskedOK, taskVars
<1>4. CASE /\ op = "ENTER" /\ state[bolt] # "RESERVED" /\ UNCHANGED taskVars
           /\ EnterBolts(One, state, nbrOfEnterOperations)
  <2>1. /\ state'[bolt] = "ENTERED"
        /\ nbrOfEnterOperations'[bolt] = nbrOfEnterOperations[bolt] + 1
    BY <1>0, <1>1, <1>4, RoomForOne, EnterOne
  <2>2. Readers' = Readers \cup {t} /\ Writers' = Writers
    BY <1>0, <1>1, <1>4 DEF Readers, Writers, Uses, AskedOK, taskVars
  <2>3. Cardinality(Readers') = Cardinality(Readers) + 1
    BY <1>1, <2>2, OneMoreOrLess DEF Readers
  <2> QED
    BY <1>0, <1>3, <1>4, <2>1, <2>2, <2>3 DEF UseOK, FreeOnlyIfNobodyWaits
<1>5. CASE /\ op = "RESERVE" /\ state[bolt] = "FREE" /\ UNCHANGED <<nbrOfEnterOperations, taskVars>>
           /\ state' = SetState(One, "RESERVED", state)
  <2>1. state'[bolt] = "RESERVED"
    BY <1>5, OneProperties
  <2>2. Readers' = Readers
    BY <1>0, <1>1, <1>5 DEF Readers, Uses, AskedOK, taskVars
  <2>3. Writers' = {t}
    BY <1>0, <1>1, <1>5 DEF Writers, Uses, AskedOK, UseOK, taskVars
  <2> QED
    BY <1>0, <1>3, <1>5, <2>1, <2>2, <2>3 DEF UseOK, FreeOnlyIfNobodyWaits
<1>6. CASE op = "ENTER"
  BY <1>2, <1>4, <1>6, OneProperties DEF Begin, Enter
<1>7. CASE op = "RESERVE"
  BY <1>0, <1>2, <1>5, <1>7, OneProperties DEF Begin, Reserve, BoltStates
<1> QED
  BY <1>6, <1>7

\* What LEAVE and FREE of the bolt leave to those who wait.
LEMMA HandOn ==
    ASSUME UsersAssumption, EntersNotSuspended, UsersInv, NEW t \in Tasks,
           NEW st, NEW count, BoltOK(st, count), Passes(st, count),
           count[bolt] <= nbrOfEnterOperations[bolt],
           asked' = [asked EXCEPT ![t] = "none"], taskState[t] = "RUNNING",
           count[bolt] = Cardinality(Readers \ {t}), Writers \ {t} = {},
           st[bolt] # "RESERVED"
    PROVE  AskedOK' /\ UseOK'
<1>0. /\ taskState \in [Tasks -> TaskStates] /\ AskedOK
      /\ bolt \in Bolts /\ st[bolt] \in BoltStates /\ count[bolt] \in Nat
  BY OneProperties, BoltAssumption DEF UsersInv, Inv, TaskInv, BoltOK
<1>1. CASE /\ state'[bolt] = st[bolt] /\ nbrOfEnterOperations'[bolt] = count[bolt]
           /\ UNCHANGED <<taskState, why>>
           /\ st[bolt] = "FREE" => InState("BLOCKED") = {}
  <2>1. Readers' = Readers \ {t} /\ Writers' = {}
    BY <1>0, <1>1 DEF Readers, Writers, Uses, AskedOK
  <2>2. AskedOK'
    BY <1>0, <1>1 DEF AskedOK
  <2> QED
    BY <1>1, <2>1, <2>2 DEF UseOK, FreeOnlyIfNobodyWaits, InState
<1>2. ASSUME NEW u \in InState("BLOCKED"), UNCHANGED why,
             taskState' = [taskState EXCEPT ![u] = "RUNNING"]
      PROVE  /\ u \in Tasks /\ u # t /\ u \notin Readers /\ AskedOK'
             /\ asked[u] = "ENTER" => Readers' = (Readers \ {t}) \cup {u} /\ Writers' = {}
             /\ asked[u] = "RESERVE" => Readers' = Readers \ {t} /\ Writers' = {u}
  <2>1. u \in Tasks /\ taskState[u] = "BLOCKED" /\ u # t
    BY <1>2 DEF InState
  <2>2. AskedOK'
    BY <1>0, <1>2, <2>1 DEF AskedOK
  <2> QED
    BY <1>0, <1>2, <2>1, <2>2 DEF Readers, Writers, Uses, AskedOK
<1>3. ASSUME NEW r \in InState("BLOCKED"), UNCHANGED why,
             asked[r] = "RESERVE" /\ st[bolt] = "FREE",
             state'[bolt] = "RESERVED" /\ nbrOfEnterOperations'[bolt] = count[bolt],
             taskState' = [taskState EXCEPT ![r] = "RUNNING"]
      PROVE  AskedOK' /\ UseOK'
  BY <1>2, <1>3 DEF UseOK, FreeOnlyIfNobodyWaits
<1>4. ASSUME NEW e \in InState("BLOCKED"), UNCHANGED why,
             asked[e] = "ENTER" /\ st[bolt] # "RESERVED",
             state'[bolt] = "ENTERED" /\ nbrOfEnterOperations'[bolt] = count[bolt] + 1,
             taskState' = [taskState EXCEPT ![e] = "RUNNING"]
      PROVE  AskedOK' /\ UseOK'
  <2>1. /\ e \in Tasks /\ e \notin Readers \ {t} /\ AskedOK'
        /\ Readers' = (Readers \ {t}) \cup {e} /\ Writers' = {}
    BY <1>2, <1>4
  <2>2. Cardinality(Readers') = count[bolt] + 1
    BY <2>1, OneMoreOrLess DEF Readers
  <2> QED
    BY <1>4, <2>1, <2>2 DEF UseOK, FreeOnlyIfNobodyWaits
<1> QED
  BY <1>1, <1>3, <1>4, PassesOfOne

LEMMA EndUse ==
    ASSUME UsersAssumption, EntersNotSuspended, UsersInv, NEW t \in Tasks, End(t)
    PROVE  AskedOK' /\ UseOK'
<1> DEFINE n == nbrOfEnterOperations[bolt]
<1>0. /\ BoltOK(state, nbrOfEnterOperations) /\ UseOK
      /\ bolt \in Bolts /\ state[bolt] \in BoltStates /\ n \in 0 .. MaxEnters
      /\ state[bolt] = "ENTERED" <=> n > 0
  BY OneProperties, BoltAssumption DEF UsersInv, Inv, BoltOK
<1>1. asked' = [asked EXCEPT ![t] = "none"] /\ taskState[t] = "RUNNING"
  BY DEF End, Uses
<1>2. ASSUME NEW oldState \in {"ENTERED", "RESERVED"}, StepsToFree(bolt, oldState) >= 1,
             StepsToFree(bolt, oldState) \in Nat
      PROVE  ~WrongState(t, oldState, One)
  BY <1>2 DEF WrongState, UsersAssumption, One, Parts
<1>3. ASSUME NEW oldState \in {"ENTERED", "RESERVED"}, LeaveOrFree(t, oldState, One)
      PROVE  /\ BoltOK(StateAfter(One, oldState), CountAfter(One, oldState))
             /\ Passes(StateAfter(One, oldState), CountAfter(One, oldState))
             /\ StateAfter(One, oldState)[bolt] =
                   IF StepsToFree(bolt, oldState) = 1 THEN "FREE" ELSE state[bolt]
  <2>1. One \in [Bolts -> Nat] /\ One[bolt] = 1
    BY OneProperties DEF One
  <2>2. BoltOK(StateAfter(One, oldState), CountAfter(One, oldState))
    BY <1>0, <1>3, <2>1, AfterOK DEF LeaveOrFree
  <2> QED
    BY <1>0, <1>3, <2>1, <2>2 DEF LeaveOrFree, StateAfter
<1>4. CASE Uses(t, "ENTER") /\ Leave(t, One)
  <2>1. t \in Readers /\ t \notin Writers /\ n = Cardinality(Readers)
    BY <1>0, <1>4 DEF Readers, Writers, Uses, UseOK
  <2>2. Cardinality(Readers) \in Nat /\ Cardinality(Readers \ {t}) = n - 1
    BY <2>1, OneMoreOrLess DEF Readers
  <2>3. Cardinality(Readers \ {t}) \in Nat
    BY OneMoreOrLess DEF Readers
  <2>4. n > 0 /\ state[bolt] = "ENTERED"
    BY <1>0, <2>1, <2>2, <2>3
  <2>5. StepsToFree(bolt, "ENTERED") = n
    BY <1>0, <2>4 DEF StepsToFree
  <2>6. LeaveOrFree(t, "ENTERED", One)
    BY <1>0, <1>2, <1>4, <2>4, <2>5 DEF Leave
  <2>7. CountAfter(One, "ENTERED")[bolt] = n - 1
    <3>1. CountAfter(One, "ENTERED")[bolt] = (n - 1) % (MaxEnters + 1)
      BY <1>0 DEF CountAfter, One
    <3> QED
      BY <1>0, <2>4, <3>1, BoltAssumption
  <2>8. StateAfter(One, "ENTERED")[bolt] # "RESERVED"
    BY <1>3, <2>4, <2>6
  <2>9. Writers \ {t} = {}
    BY <1>0, <2>4 DEF UseOK
  <2> DEFINE st == StateAfter(One, "ENTERED")
             count == CountAfter(One, "ENTERED")
  <2>10. BoltOK(st, count) /\ Passes(st, count)
    BY <1>3, <2>6
  <2>11. count[bolt] <= n /\ count[bolt] = Cardinality(Readers \ {t})
    BY <1>0, <2>2, <2>7
  <2> HIDE DEF st, count
  <2> QED
    BY <1>1, <2>8, <2>9, <2>10, <2>11, HandOn DEF st
<1>5. CASE Uses(t, "RESERVE") /\ Free(t, One)
  <2>1. t \in Writers /\ t \notin Readers
    BY <1>5 DEF Readers, Writers, Uses
  <2>2. state[bolt] = "RESERVED" /\ Writers \ {t} = {}
    BY <1>0, <2>1 DEF UseOK
  <2>3. StepsToFree(bolt, "RESERVED") = 1
    BY <2>2 DEF StepsToFree
  <2>4. LeaveOrFree(t, "RESERVED", One)
    BY <1>2, <1>5, <2>3 DEF Free
  <2>5. CountAfter(One, "RESERVED") = nbrOfEnterOperations
    BY DEF CountAfter
  <2>6. Readers \ {t} = Readers
    BY <2>1
  <2> DEFINE st == StateAfter(One, "RESERVED")
  <2>7. BoltOK(st, nbrOfEnterOperations) /\ Passes(st, nbrOfEnterOperations)
    BY <1>3, <2>4, <2>5
  <2>8. st[bolt] = "FREE"
    BY <1>3, <2>3, <2>4
  <2>9. n <= n /\ n = Cardinality(Readers \ {t})
    BY <1>0, <2>6 DEF UseOK
  <2> HIDE DEF st
  <2> QED
    BY <1>1, <2>2, <2>7, <2>8, <2>9, HandOn
<1> QED
  BY <1>4, <1>5 DEF End

LEMMA DisturbUse ==
    ASSUME UsersAssumption, EntersNotSuspended, UsersInv, NEW t \in Tasks, Disturb(t)
    PROVE  AskedOK' /\ UseOK'
<1>0. /\ taskState \in [Tasks -> TaskStates] /\ why \in [Tasks -> Reasons]
      /\ AskedOK /\ UseOK /\ WhyOK
      /\ bolt \in Bolts /\ state[bolt] \in BoltStates
  BY OneProperties DEF UsersInv, Inv, TaskInv, WhyOK, BoltOK
<1>1. ASSUME NEW me \in Tasks, Suspend(me, t), UNCHANGED asked
      PROVE  AskedOK' /\ UseOK'
  <2>1. /\ taskState[t] = "BLOCKED" /\ UNCHANGED <<boltVars, why>>
        /\ taskState' = [taskState EXCEPT ![t] = "SUSPENDED_BLOCKED"]
    BY <1>1 DEF Suspend, SuspendBlocked
  <2>2. AskedOK'
    BY <1>0, <1>1, <2>1 DEF AskedOK
  <2>3. Readers' = Readers /\ Writers' = Writers /\ InState("BLOCKED")' \subseteq InState("BLOCKED")
    BY <1>0, <1>1, <2>1 DEF Readers, Writers, Uses, InState
  <2> QED
    BY <1>0, <2>1, <2>2, <2>3, UseKept
<1>2. ASSUME NEW p \in Prios, ContinueSuspended(t, p), UNCHANGED asked
      PROVE  AskedOK' /\ UseOK'
  <2>1. taskState[t] = "SUSPENDED_BLOCKED" /\ UNCHANGED why
    BY <1>2 DEF ContinueSuspended, ContinueServed, ContinueQueued
  <2>2. why[t].op = "RESERVE" /\ why[t].list = One /\ asked[t] = "RESERVE"
    BY <1>0, <2>1 DEF AskedOK, WhyOK, InState
  <2>3. CASE /\ ~Check("RESERVE", One, state)
             /\ state' = SetState(One, "RESERVED", state)
             /\ ContinueServed(t, p) /\ UNCHANGED nbrOfEnterOperations
    <3>1. state[bolt] = "FREE" /\ state'[bolt] = "RESERVED"
      BY <1>0, <2>3, OneProperties DEF BoltStates
    <3>2. taskState' = [taskState EXCEPT ![t] = "RUNNING"]
      BY <2>3 DEF ContinueServed
    <3>3. AskedOK'
      BY <1>0, <1>2, <2>1, <3>2 DEF AskedOK
    <3>4. Readers' = Readers
      BY <1>0, <1>2, <2>1, <2>2, <3>2 DEF Readers, Uses
    <3>5. Writers' = {t}
      BY <1>0, <1>2, <2>1, <2>2, <3>1, <3>2 DEF Writers, Uses, UseOK
    <3> QED
      BY <1>0, <2>3, <3>1, <3>3, <3>4, <3>5 DEF UseOK, FreeOnlyIfNobodyWaits
  <2>4. CASE Check("RESERVE", One, state) /\ ContinueQueued(t, p) /\ UNCHANGED boltVars
    <3>1. state[bolt] # "FREE"
      BY <2>4, OneProperties
    <3>2. taskState' = [taskState EXCEPT ![t] = "BLOCKED"]
      BY <2>4 DEF ContinueQueued
    <3>3. AskedOK'
      BY <1>0, <1>2, <2>1, <3>2 DEF AskedOK
    <3>4. Readers' = Readers /\ Writers' = Writers
      BY <1>0, <1>2, <2>1, <3>2 DEF Readers, Writers, Uses
    <3> QED
      BY <1>0, <2>4, <3>1, <3>3, <3>4, UseKept
  <2> QED
    BY <1>2, <2>2, <2>3, <2>4 DEF ContinueSuspended
<1>3. ASSUME NEW p \in Prios, ContinueBlocked(t, p), UNCHANGED <<boltVars, asked>>
      PROVE  AskedOK' /\ UseOK'
  BY <1>0, <1>3, UseKept DEF ContinueBlocked, AskedOK, Readers, Writers, Uses, InState
<1>4. ASSUME NEW p \in Prios, Activate(t, p), UNCHANGED <<boltVars, asked>>
      PROVE  AskedOK' /\ UseOK'
  <2>1. /\ taskState[t] = "TERMINATED" /\ asked[t] = "none" /\ UNCHANGED why
        /\ taskState' = [taskState EXCEPT ![t] = "RUNNING"]
    BY <1>0, <1>4 DEF Activate, AskedOK
  <2>2. AskedOK'
    BY <1>0, <1>4, <2>1 DEF AskedOK
  <2>3. Readers' = Readers /\ Writers' = Writers /\ InState("BLOCKED")' = InState("BLOCKED")
    BY <1>0, <1>4, <2>1 DEF Readers, Writers, Uses, InState
  <2> QED
    BY <1>0, <1>4, <2>2, <2>3, UseKept
<1>5. ASSUME NEW me \in Tasks, TerminateBlocked(me, t), UNCHANGED boltVars,
             asked' = [asked EXCEPT ![t] = "none"]
      PROVE  AskedOK' /\ UseOK'
  <2>1. /\ taskState[t] = "BLOCKED" /\ UNCHANGED why
        /\ taskState' = [taskState EXCEPT ![t] = "TERMINATED"]
    BY <1>5 DEF TerminateBlocked
  <2>2. AskedOK'
    BY <1>0, <1>5, <2>1 DEF AskedOK
  <2>3. Readers' = Readers /\ Writers' = Writers /\ InState("BLOCKED")' \subseteq InState("BLOCKED")
    BY <1>0, <1>5, <2>1 DEF Readers, Writers, Uses, InState, AskedOK
  <2> QED
    BY <1>0, <1>5, <2>2, <2>3, UseKept
<1> QED
  BY <1>1, <1>2, <1>3, <1>4, <1>5 DEF Disturb

LEMMA UsersInvNext ==
    ASSUME UsersAssumption, EntersNotSuspended, UsersInv, [UsersNext]_usersVars
    PROVE  UsersInv'
<1>1. Inv'
  BY UsersAreBoltUsers, InvNext DEF UsersInv
<1>2. CASE UNCHANGED usersVars
  BY <1>1, <1>2 DEF usersVars, vars, boltVars, taskVars, UsersInv, AskedOK, UseOK,
                    Readers, Writers, Uses, FreeOnlyIfNobodyWaits, InState
<1> QED
  BY <1>1, <1>2, BeginUse, EndUse, DisturbUse DEF UsersNext, UsersInv

LEMMA UsersInvariant ==
    ASSUME UsersAssumption, EntersNotSuspended
    PROVE  UsersSpec => []UsersInv
<1>1. ASSUME UsersInit PROVE UsersInv
  <2>1. Inv
    BY <1>1, InitInv DEF UsersInit
  <2>2. /\ taskState = [t \in Tasks |-> "RUNNING"] /\ asked = [t \in Tasks |-> "none"]
        /\ state[bolt] = "FREE" /\ nbrOfEnterOperations[bolt] = 0
    BY <1>1, OneProperties DEF UsersInit, Init, TaskInit
  <2>3. Readers = {} /\ Writers = {} /\ InState("BLOCKED") = {}
    BY <2>2 DEF Readers, Writers, Uses, InState
  <2>4. AskedOK
    BY <2>2 DEF AskedOK
  <2> QED
    BY <2>1, <2>2, <2>3, <2>4, FS_EmptySet DEF UsersInv, UseOK, FreeOnlyIfNobodyWaits
<1>2. UsersInv /\ [UsersNext]_usersVars => UsersInv'
  BY UsersInvNext
<1> QED
  BY <1>1, <1>2, PTL DEF UsersSpec

\* ENTER and LEAVE, RESERVE and FREE of a bolt give shared and exclusive access for any
\* number of tasks, as long as none that is blocked with ENTER is suspended: such a reader
\* is not counted when it goes on (Bolt::addToWaitQueue), and a writer is let in beside it.
THEOREM BoltSharedOrExclusive ==
    ASSUME UsersAssumption, EntersNotSuspended
    PROVE  UsersSpec => []WriterAlone
<1>1. ASSUME UsersInv PROVE WriterAlone
  <2>1. ASSUME NEW t \in Tasks, NEW u \in Tasks, t # u, Uses(t, "RESERVE")
        PROVE  ~Uses(u, "ENTER") /\ ~Uses(u, "RESERVE")
    <3>1. state[bolt] = "RESERVED" /\ Writers = {t}
      BY <1>1, <2>1 DEF UsersInv, UseOK, Writers
    <3>2. nbrOfEnterOperations[bolt] = 0
      BY <1>1, <3>1, OneProperties, BoltAssumption DEF UsersInv, Inv, BoltOK
    <3>3. Readers = {}
      <4>1. IsFiniteSet(Readers)
        BY FS_Subset DEF UsersAssumption, Readers
      <4> QED
        BY <1>1, <3>2, <4>1, FS_EmptySet DEF UsersInv, UseOK
    <3> QED
      BY <2>1, <3>1, <3>3 DEF Readers, Writers
  <2> QED
    BY <2>1 DEF WriterAlone
<1> QED
  BY <1>1, UsersInvariant, PTL

\* LEAVE and FREE hand a bolt on (Bolt::leaveOrFree): none that is free has a task waiting
\* for it, although one pass over the queue serves a RESERVE and another one an ENTER, as
\* long as the tasks that are suspended while they are blocked are blocked with RESERVE.
THEOREM BoltHandedOn ==
    ASSUME UsersAssumption, EntersNotSuspended
    PROVE  UsersSpec => []FreeOnlyIfNobodyWaits
<1>1. UsersInv => FreeOnlyIfNobodyWaits
  BY DEF UsersInv, UseOK
<1> QED
  BY <1>1, UsersInvariant, PTL
=============================================================================
