-------------------------------- MODULE Bolt --------------------------------
(***************************************************************************)
(* runtime/common/Bolt.cc: PEARL bolts.  ENTER and LEAVE are the shared    *)
(* use of a resource, RESERVE and FREE the exclusive one.  Each takes a    *)
(* list of bolts; all blocked tasks stand in the one queue `waiters'.      *)
(*                                                                         *)
(* A list is a bag, [Bolts -> Nat].  The loops over a list stop with a     *)
(* signal in the middle of it; which elements came before depends on the   *)
(* order the program wrote them in and is left open here.                  *)
(***************************************************************************)
EXTENDS TaskBlocking

CONSTANTS
    Bolts,
    MaxEnters,      \* UINT32_MAX
    EnterLists, LeaveLists, ReserveLists, FreeLists,
                    \* the lists the program uses with each operation
    SuspendedOps,   \* SUSPEND may hit tasks that are blocked with one of these
    NoTask

ASSUME BoltAssumption ==
    /\ MaxEnters \in Nat \ {0}
    /\ EnterLists \subseteq [Bolts -> Nat]
    /\ LeaveLists \subseteq [Bolts -> Nat]
    /\ ReserveLists \subseteq [Bolts -> Nat]
    /\ FreeLists \subseteq [Bolts -> Nat]
    /\ SuspendedOps \subseteq {"ENTER", "RESERVE"}
    /\ NoTask \notin Tasks

VARIABLES
    state,                  \* Bolt::state
    nbrOfEnterOperations    \* Bolt::nbrOfEnterOperations

boltVars == <<state, nbrOfEnterOperations>>
vars == <<boltVars, taskVars>>

BoltStates == {"FREE", "ENTERED", "RESERVED"}

\* blockParams.why: the operation and its list.
Reasons == [op : {"ENTER", "RESERVE"}, list : [Bolts -> Nat]]

Init ==
    /\ state = [b \in Bolts |-> "FREE"]
    /\ nbrOfEnterOperations = [b \in Bolts |-> 0]
    /\ TaskInit([op |-> "ENTER", list |-> [b \in Bolts |-> 0]])

-----------------------------------------------------------------------------
\* Faulty variant: shared use does not keep a RESERVE out.
CheckReservedOnly(op, list, st) == \E b \in Bolts : list[b] > 0 /\ st[b] = "RESERVED"

\* check(): the operation would block.
Check(op, list, st) ==
    \E b \in Bolts :
        /\ list[b] > 0
        /\ st[b] = "RESERVED" \/ (st[b] = "ENTERED" /\ op = "RESERVE")

\* A list with a bolt that occurs twice.
Duplicates(list) == \E b \in Bolts : list[b] > 1

SetState(list, new, st) == [b \in Bolts |-> IF list[b] > 0 THEN new ELSE st[b]]

\* The parts of a list that a loop over it may have worked off.
Parts(list) == {part \in [Bolts -> 0 .. MaxEnters + 1] : \A b \in Bolts : part[b] <= list[b]}

\* incrementEnter() meets UINT32_MAX.
EnterOverflows(list, count) == \E b \in Bolts : count[b] + list[b] > MaxEnters

\* setState(ENTERED) and incrementEnter() for all of a list.
EnterAll(list, st, count) ==
    /\ state' = SetState(list, "ENTERED", st)
    /\ nbrOfEnterOperations' = [b \in Bolts |-> count[b] + list[b]]

\* incrementEnter() throws at a bolt that has been entered UINT32_MAX times.
EnterPart(list, st, count) ==
    \E part \in Parts(list) :
        /\ \A b \in Bolts : count[b] + part[b] <= MaxEnters
        /\ \E b \in Bolts : part[b] < list[b] /\ count[b] + part[b] = MaxEnters
        /\ EnterAll(part, st, count)

EnterBolts(list, st, count) ==
    IF EnterOverflows(list, count) THEN EnterPart(list, st, count)
                                   ELSE EnterAll(list, st, count)

Enter(me, list) ==
    /\ taskState[me] = "RUNNING"
    /\ \/ /\ Check("ENTER", list, state)
          /\ Block(me, [op |-> "ENTER", list |-> list])
          /\ UNCHANGED boltVars
       \/ /\ ~Check("ENTER", list, state)
          /\ EnterBolts(list, state, nbrOfEnterOperations)
          /\ UNCHANGED taskVars

\* A list with duplicates induces BoltReserveDuplicateSignal.
Reserve(me, list) ==
    /\ taskState[me] = "RUNNING"
    /\ \/ /\ Duplicates(list)
          /\ UNCHANGED vars
       \/ /\ ~Duplicates(list)
          /\ Check("RESERVE", list, state)
          /\ Block(me, [op |-> "RESERVE", list |-> list])
          /\ UNCHANGED boltVars
       \/ /\ ~Duplicates(list)
          /\ ~Check("RESERVE", list, state)
          /\ state' = SetState(list, "RESERVED", state)
          /\ UNCHANGED <<nbrOfEnterOperations, taskVars>>

-----------------------------------------------------------------------------
\* Faulty variant: the last but one LEAVE already frees the bolt.
StepsToFreeEarly(b, oldState) ==
    IF state[b] # oldState THEN 0
    ELSE IF oldState = "RESERVED" \/ nbrOfEnterOperations[b] < 2 THEN 1
    ELSE nbrOfEnterOperations[b] - 1

\* How often leaveOrFree() can work off b before it is free and the next time
\* induces BoltStateSignal.  A count of zero wraps around.
StepsToFree(b, oldState) ==
    IF state[b] # oldState THEN 0
    ELSE IF oldState = "RESERVED" THEN 1
    ELSE IF nbrOfEnterOperations[b] = 0 THEN MaxEnters + 1
    ELSE nbrOfEnterOperations[b]

\* The bolts after part has been worked off.
StateAfter(part, oldState) ==
    [b \in Bolts |-> IF part[b] > 0 /\ part[b] = StepsToFree(b, oldState)
                     THEN "FREE" ELSE state[b]]

CountAfter(part, oldState) ==
    IF oldState = "ENTERED"
    THEN [b \in Bolts |-> (nbrOfEnterOperations[b] - part[b]) % (MaxEnters + 1)]
    ELSE nbrOfEnterOperations

\* leaveOrFree() meets a bolt in the wrong state: what it has done so far stays,
\* the queue is not looked at.
WrongState(me, oldState, list) ==
    /\ taskState[me] = "RUNNING"
    /\ \E part \in Parts(list) :
        /\ \A b \in Bolts : part[b] <= StepsToFree(b, oldState)
        /\ \E b \in Bolts : part[b] = StepsToFree(b, oldState) /\ part[b] < list[b]
        /\ state' = StateAfter(part, oldState)
        /\ nbrOfEnterOperations' = CountAfter(part, oldState)
    /\ UNCHANGED taskVars

\* The queue positions of the tasks blocked with op.
Waiting(op) == {i \in DOMAIN waiters : why[waiters[i]].op = op}

\* Those that need not block any more.
Servable(op, st) == {i \in Waiting(op) : ~Check(op, why[waiters[i]].list, st)}

\* The task that a pass over the queue unblocks.  remove() clears the link of that
\* task, so the following getNext() ends the loop: it is the only one.
FirstServable(op, st) ==
    IF Servable(op, st) = {}
    THEN NoTask
    ELSE waiters[CHOOSE i \in Servable(op, st) : \A j \in Servable(op, st) : i <= j]

\* Faulty variant: also an ENTER that waits sets it.
ReserveIsWaitingAny(st) == waiters # <<>> /\ Servable("RESERVE", st) = {}

\* reserveIsWaiting after pass 1: it came by a RESERVE that still has to wait.
ReserveIsWaiting(st) ==
    \E j \in Waiting("RESERVE") : \A i \in Servable("RESERVE", st) : j < i

\* Faulty variant: pass 2 serves an ENTER before pass 1 looks for a RESERVE.
Pass1OnlyIfNoEnter(st) ==
    IF Waiting("ENTER") = {} THEN FirstServable("RESERVE", st) ELSE NoTask

\* Pass 1 looks for a task that waits with RESERVE.
Pass1(st) == FirstServable("RESERVE", st)

\* Pass 2 looks for a task that waits with ENTER; st are the states after pass 1.
Pass2(reserveIsWaiting, st) ==
    IF reserveIsWaiting THEN NoTask ELSE FirstServable("ENTER", st)

\* The tasks found leave the queue and run.
UnblockFound(r, e) ==
    /\ waiters' = Remove(Remove(waiters, r), e)
    /\ taskState' = [t \in Tasks |-> IF t \in {r, e} THEN "RUNNING" ELSE taskState[t]]
    /\ UNCHANGED <<currentPrio, why>>

\* Both passes, from the bolts as the loop over the list has left them.  If
\* incrementEnter() throws in pass 2 the task it is for stays blocked.
Passes(st, count) ==
    LET r == Pass1(st)
        afterPass1 == IF r = NoTask THEN st ELSE SetState(why[r].list, "RESERVED", st)
        e == Pass2(ReserveIsWaiting(st), afterPass1)
    IN  IF e = NoTask
        THEN /\ state' = afterPass1
             /\ nbrOfEnterOperations' = count
             /\ UnblockFound(r, NoTask)
        ELSE /\ EnterBolts(why[e].list, afterPass1, count)
             /\ UnblockFound(r, IF EnterOverflows(why[e].list, count) THEN NoTask ELSE e)

LeaveOrFree(me, oldState, list) ==
    /\ taskState[me] = "RUNNING"
    /\ \A b \in Bolts : list[b] <= StepsToFree(b, oldState)
    /\ Passes(StateAfter(list, oldState), CountAfter(list, oldState))

Leave(me, list) == LeaveOrFree(me, "ENTERED", list) \/ WrongState(me, "ENTERED", list)

Free(me, list) == LeaveOrFree(me, "RESERVED", list) \/ WrongState(me, "RESERVED", list)

-----------------------------------------------------------------------------
\* suspend() of a task that is blocked with reason ENTER or RESERVE.
Suspend(me, t) ==
    /\ why[t].op \in SuspendedOps
    /\ SuspendBlocked(me, t)
    /\ UNCHANGED boltVars

\* continueFromOtherTask() in state SUSPENDED_BLOCKED, with addToWaitQueue(): a
\* served ENTER sets the state but does not count.
ContinueSuspended(t, p) ==
    \/ /\ ~Check(why[t].op, why[t].list, state)
       /\ state' = SetState(why[t].list,
                            IF why[t].op = "ENTER" THEN "ENTERED" ELSE "RESERVED", state)
       /\ ContinueServed(t, p)
       /\ UNCHANGED nbrOfEnterOperations
    \/ /\ Check(why[t].op, why[t].list, state)
       /\ ContinueQueued(t, p)
       /\ UNCHANGED boltVars

Next ==
    \/ \E t \in Tasks :
        \/ \E list \in EnterLists : Enter(t, list)
        \/ \E list \in LeaveLists : Leave(t, list)
        \/ \E list \in ReserveLists : Reserve(t, list)
        \/ \E list \in FreeLists : Free(t, list)
        \/ \E me \in Tasks : Suspend(me, t)
        \/ \E p \in Prios : ContinueSuspended(t, p)
    \/ TaskOperation /\ UNCHANGED boltVars

Spec == Init /\ [][Next]_vars

-----------------------------------------------------------------------------
\* Types: in particular the number of ENTERs stays within 32 bits, although
\* decrementEnter() and incrementEnter() in a list work without a check of the
\* whole list.
TypeOK ==
    /\ state \in [Bolts -> BoltStates]
    /\ nbrOfEnterOperations \in [Bolts -> 0 .. MaxEnters]
    /\ TaskTypeOK(Reasons)

\* A bolt is in state ENTERED exactly as long as there are ENTERs without LEAVE,
\* also when lists with duplicates or bolts in wrong states stop an operation
\* half way.
CountMatchesState ==
    \A b \in Bolts : state[b] = "ENTERED" <=> nbrOfEnterOperations[b] > 0

\* No task waits with RESERVE for bolts that are all free.
NoMissedReserve ==
    \A t \in InState("BLOCKED") :
        why[t].op = "RESERVE" => Check("RESERVE", why[t].list, state)

\* A list with several bolts.
Several(list) == \E a, b \in Bolts : a # b /\ list[a] > 0 /\ list[b] > 0

\* A LEAVE or FREE serves a RESERVE that it makes possible.  Excepted are those
\* that stop half way at a bolt in the wrong state, and those of several bolts,
\* which may make more than one RESERVE possible and serve only the first.
ReserveServed ==
    [][NoMissedReserve =>
          \/ NoMissedReserve'
          \/ \E me \in Tasks, oldState \in {"ENTERED", "RESERVED"},
                list \in LeaveLists \cup FreeLists :
                \/ WrongState(me, oldState, list)
                \/ Several(list) /\ LeaveOrFree(me, oldState, list)]_vars
=============================================================================
