----------------------------- MODULE Semaphore -----------------------------
(***************************************************************************)
(* runtime/common/Semaphore.cc: PEARL semaphores with simultaneous         *)
(* locking.  REQUEST, RELEASE and TRY take a list of semaphores; all       *)
(* blocked tasks of all semaphores stand in the one queue `waiters'.       *)
(*                                                                         *)
(* A list is a bag: [Semas -> Nat] gives how often a semaphore occurs in   *)
(* it; SemaphoreBags says what the loops over a list do.                   *)
(***************************************************************************)
EXTENDS TaskBlocking, SemaphoreBags

CONSTANTS
    Preset,         \* the PRESET values of the semaphores
    RequestLists,   \* the lists the program uses with REQUEST and TRY
    ReleaseLists    \* the lists the program uses with RELEASE

ASSUME SemaAssumption ==
    /\ Preset \in [Semas -> 0 .. MaxValue]
    /\ RequestLists \subseteq [Semas -> Nat]
    /\ ReleaseLists \subseteq [Semas -> Nat]

VARIABLE value      \* Semaphore::value

vars == <<value, taskVars>>

Init ==
    /\ value = Preset
    /\ TaskInit([s \in Semas |-> 0])

-----------------------------------------------------------------------------
\* The queue positions whose request can be satisfied from v.
Servable(v) == {i \in DOMAIN waiters : Available(why[waiters[i]], v)}

\* Faulty variant: the scan takes the last task that can be served.
LastServable(v) ==
    waiters[CHOOSE i \in Servable(v) : \A j \in Servable(v) : i >= j]

\* The scan of release(): it starts at the head and goes on while tasks stay
\* blocked.  remove() clears the link of the task it unblocks, so the
\* following getNext() ends the loop: at most one task is unblocked.
FirstServable(v) ==
    waiters[CHOOSE i \in Servable(v) : \A j \in Servable(v) : i <= j]

Request(me, list) ==
    /\ taskState[me] = "RUNNING"
    /\ \/ /\ Available(list, value)
          /\ value' = Take(list, value)
          /\ UNCHANGED taskVars
       \/ /\ ~Available(list, value)
          /\ Block(me, list)
          /\ UNCHANGED value

Dotry(me, list) ==
    /\ taskState[me] = "RUNNING"
    /\ value' = IF Available(list, value) THEN Take(list, value) ELSE value
    /\ UNCHANGED taskVars

\* Some increment throws SemaOverflowSignal: the earlier ones stay, the queue
\* is not looked at.
ReleaseOverflow(me, list) ==
    /\ taskState[me] = "RUNNING"
    /\ Overflows(list, value)
    /\ \E v \in [Semas -> 0 .. MaxValue] : PartialRelease(list, value, v) /\ value' = v
    /\ UNCHANGED taskVars

\* Faulty variant: the unblocked task does not take what it waited for.
ReleaseUntaken(me, list) ==
    /\ taskState[me] = "RUNNING"
    /\ ~Overflows(list, value)
    /\ LET v == Give(list, value) IN
       /\ value' = v
       /\ IF Servable(v) = {} THEN UNCHANGED taskVars ELSE Unblock(FirstServable(v))

Release(me, list) ==
    /\ taskState[me] = "RUNNING"
    /\ ~Overflows(list, value)
    /\ LET v == Give(list, value) IN
       IF Servable(v) = {}
       THEN value' = v /\ UNCHANGED taskVars
       ELSE /\ value' = Take(why[FirstServable(v)], v)
            /\ Unblock(FirstServable(v))

-----------------------------------------------------------------------------
\* suspend() of a task that is blocked with reason REQUEST.
Suspend(me, t) == SuspendBlocked(me, t) /\ UNCHANGED value

\* Faulty variant: the continued task is queued again without a new try.
ContinueSuspendedUntried(t, p) == ContinueQueued(t, p) /\ UNCHANGED value

\* continueFromOtherTask() in state SUSPENDED_BLOCKED, with addToWaitQueue().
ContinueSuspended(t, p) ==
    \/ /\ Available(why[t], value)
       /\ value' = Take(why[t], value)
       /\ ContinueServed(t, p)
    \/ /\ ~Available(why[t], value)
       /\ ContinueQueued(t, p)
       /\ UNCHANGED value

Next ==
    \/ \E t \in Tasks :
        \/ \E list \in RequestLists : Request(t, list) \/ Dotry(t, list)
        \/ \E list \in ReleaseLists : Release(t, list) \/ ReleaseOverflow(t, list)
        \/ \E me \in Tasks : Suspend(me, t)
        \/ \E p \in Prios : ContinueSuspended(t, p)
    \/ TaskOperation /\ UNCHANGED value

Spec == Init /\ [][Next]_vars

-----------------------------------------------------------------------------
\* Types: in particular the values stay within the 32 bits of the counter,
\* although decrement() and the reverting increment() do not check.
TypeOK ==
    /\ value \in [Semas -> 0 .. MaxValue]
    /\ TaskTypeOK([Semas -> Nat])

\* No task waits for resources that are all there.
NoMissedWakeup == \A t \in InState("BLOCKED") : ~Available(why[t], value)

\* u is to be served before t: it has the better priority, or the same one and
\* stands in front of t.
Before(u, t) ==
    \/ currentPrio[u] < currentPrio'[t]
    \/ /\ currentPrio[u] = currentPrio'[t]
       /\ \E i, j \in DOMAIN waiters : i < j /\ waiters[i] = u /\ waiters[j] = t

\* A task that stops waiting, by a RELEASE or when it is continued, overtakes no
\* waiting task that could have been served from the same values.
GrantsByPriority ==
    [][\A t \in Tasks : \A u \in InState("BLOCKED") :
          /\ taskState[t] \in {"BLOCKED", "SUSPENDED_BLOCKED"}
          /\ taskState'[t] = "RUNNING"
          /\ taskState'[u] = "BLOCKED"
          /\ Before(u, t)
          => ~Available(why[u], Give(why[t], value'))]_vars
=============================================================================
