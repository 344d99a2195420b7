----------------------------- MODULE BoltUsers -----------------------------
(***************************************************************************)
(* The usual use of a PEARL bolt: tasks that read the shared data do so    *)
(* between ENTER and LEAVE, those that change them between RESERVE and     *)
(* FREE.  While they are blocked, tasks are suspended, continued and       *)
(* terminated.                                                             *)
(***************************************************************************)
EXTENDS Bolt, FiniteSets

CONSTANT bolt

VARIABLE asked      \* the operation a task has begun and not yet ended, or "none"

usersVars == <<vars, asked>>

One == [x \in Bolts |-> 1]

\* What is assumed of the program: there is one bolt, always named alone, and not
\* more tasks than ENTERs can be counted.
UsersAssumption ==
    /\ Bolts = {bolt}
    /\ One \in EnterLists \cap LeaveLists \cap ReserveLists \cap FreeLists
    /\ IsFiniteSet(Tasks) /\ Cardinality(Tasks) <= MaxEnters

\* The operation has returned: the task uses the data.
Uses(t, op) == asked[t] = op /\ taskState[t] = "RUNNING"

UsersInit == Init /\ asked = [t \in Tasks |-> "none"]

Begin(t, op) ==
    /\ asked[t] = "none"
    /\ IF op = "ENTER" THEN Enter(t, One) ELSE Reserve(t, One)
    /\ asked' = [asked EXCEPT ![t] = op]

End(t) ==
    /\ \/ Uses(t, "ENTER") /\ Leave(t, One)
       \/ Uses(t, "RESERVE") /\ Free(t, One)
    /\ asked' = [asked EXCEPT ![t] = "none"]

\* What happens to a task while it is blocked.
Disturb(t) ==
    \/ /\ \/ \E me \in Tasks : Suspend(me, t)
          \/ \E p \in Prios : ContinueSuspended(t, p)
          \/ \E p \in Prios : ContinueBlocked(t, p) /\ UNCHANGED boltVars
          \/ \E p \in Prios : Activate(t, p) /\ UNCHANGED boltVars
       /\ UNCHANGED asked
    \/ /\ \E me \in Tasks : TerminateBlocked(me, t)
       /\ asked' = [asked EXCEPT ![t] = "none"]
       /\ UNCHANGED boltVars

UsersNext ==
    \E t \in Tasks : (\E op \in {"ENTER", "RESERVE"} : Begin(t, op)) \/ End(t) \/ Disturb(t)

UsersSpec == UsersInit /\ [][UsersNext]_usersVars

-----------------------------------------------------------------------------
\* A task that changes the data is alone with them.
WriterAlone ==
    \A t, u \in Tasks :
        t # u /\ Uses(t, "RESERVE") => ~Uses(u, "ENTER") /\ ~Uses(u, "RESERVE")

\* Nobody waits for a bolt that is free: whatever happens to the waiting tasks,
\* the last LEAVE or the FREE hands the bolt on.
FreeOnlyIfNobodyWaits == state[bolt] = "FREE" => InState("BLOCKED") = {}
=============================================================================
