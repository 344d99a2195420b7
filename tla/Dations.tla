------------------------------ MODULE Dations ------------------------------
(***************************************************************************)
(* The i/o statements of several tasks on one user dation                  *)
(* (runtime/common/UserDation.cc), and SUSPEND, CONTINUE and TERMINATE of  *)
(* a task that waits for the dation or is in the system call of its driver *)
(* (runtime/common/TaskCommon.cc, runtime/linux/Task.cc).                  *)
(*                                                                         *)
(* Three things work together: mutexUserDation, the semaphore mutexTasks,  *)
(* and the signal SIG_CANCEL_IO.  Who suspends or terminates a task in i/o *)
(* keeps mutexTasks and sends the signal until the task has seen the       *)
(* request; the task unlocks mutexTasks for it.  The signal ends a system  *)
(* call, but also the waiting for mutexTasks (CSema::request takes EINTR   *)
(* for success), so that the task passes without the lock.                 *)
(*                                                                         *)
(* A step goes from one waiting to the next; a region under mutexTasks is  *)
(* one step.  Left out: OPEN and CLOSE, the records of TFU dations (their  *)
(* last record is written in endSequence), changes of priority, i/o on     *)
(* devices that SIG_CANCEL_IO does not reach.                              *)
(***************************************************************************)
EXTENDS PriorityQueue, FiniteSets

CONSTANTS
    Users,              \* the tasks with i/o statements
    Controllers,        \* the tasks that suspend, continue, ... the users
    None,               \* no task
    Controlled,         \* the users they do that to
    Prio,               \* the priorities of the users
    WithRst,            \* the users whose i/o statements have an RST variable
    TerminateAnywhere   \* whether TERMINATE finds a suspended task at any place

ASSUME DationsAssumption ==
    /\ None \notin Users
    /\ Controlled \subseteq Users
    /\ Prio \in [Users -> Nat]
    /\ WithRst \subseteq Users
    /\ TerminateAnywhere \in BOOLEAN

VARIABLES
    mutexTasks,         \* the value of the semaphore
    mutexUserDation,    \* the user that has locked it, or None
    isBusy, waitQueue, rstVoidPointer,
    tcb,                \* the task control blocks of the users
    user,               \* where their threads are
    controller          \* where the controllers are

dationVars == <<mutexUserDation, isBusy, waitQueue, rstVoidPointer>>
vars == <<mutexTasks, dationVars, tcb, user, controller>>

TCB == [taskState : {"TERMINATED", "RUNNING", "SUSPENDED", "SUSPENDED_BLOCKED", "BLOCKED"},
        reason : {"IO", "IOWAITQUEUE"},
        asyncTerminateRequested : BOOLEAN, asyncSuspendRequested : BOOLEAN,
        suspendWaiters : Nat, continueWaiters : Nat, terminateWaiters : Nat,
        suspendDone : Nat, continueDone : Nat, terminateDone : Nat,
        semaBlock : Nat, pipeResume : Seq({"c", "t"})]

\* at: "body", "begun" and "finished" are before a scheduleCallback(), "begin",
\* "waked" and "ending" before a mutexTasks and with mutexUserDation locked.
\* return: where suspendMySelf() returns to; "cancel" is into the driver.
\* unwinding: endSequence() is called because of TerminateRequestSignal.
User == [at : {"none", "body", "stmt", "begin", "queued", "woken", "waked", "begun", "io",
               "ended", "ending", "finished", "end", "suspended"},
         return : {"stmt", "io", "body", "end", "cancel"}, unwinding : BOOLEAN]

\* acks: how many acknowledgements the controller waits for.
Controller == [at : {"idle", "cancelSuspend", "cancelTerminate", "suspending",
                     "suspendingIO", "continuing", "terminating"},
               on : Users \cup {None}, acks : 0 .. 2]

Idle == [at |-> "idle", on |-> None, acks |-> 0]

Started == [at |-> "body", return |-> "stmt", unwinding |-> FALSE]

\* All users run, nobody does i/o.
Init ==
    /\ mutexTasks = 1
    /\ mutexUserDation = None
    /\ isBusy = FALSE
    /\ waitQueue = <<>>
    /\ rstVoidPointer = None
    /\ tcb = [t \in Users |->
         [taskState |-> "RUNNING", reason |-> "IO",
          asyncTerminateRequested |-> FALSE, asyncSuspendRequested |-> FALSE,
          suspendWaiters |-> 0, continueWaiters |-> 0, terminateWaiters |-> 0,
          suspendDone |-> 0, continueDone |-> 0, terminateDone |-> 0,
          semaBlock |-> 0, pipeResume |-> <<>>]]
    /\ user = [t \in Users |-> Started]
    /\ controller = [b \in Controllers |-> Idle]

-----------------------------------------------------------------------------
At(t, place) == user[t].at = place

GoTo(t, place) == user' = [user EXCEPT ![t].at = place]

\* Some controller sends SIG_CANCEL_IO to the thread of t.
Cancelled(t) ==
    \E b \in Controllers : /\ controller[b].on = t
                           /\ controller[b].at \in {"cancelSuspend", "cancelTerminate"}

\* Faulty variant: the interrupted waiting is begun again (SA_RESTART).
RegionUninterrupted(t) == mutexTasks > 0 /\ mutexTasks' = mutexTasks

\* A region of t between mutexLock() and mutexUnlock(): with the lock, or, where the
\* signal has ended the waiting, without it; then the unlock is the controller's.
Region(t) ==
    \/ mutexTasks > 0 /\ mutexTasks' = mutexTasks
    \/ mutexTasks = 0 /\ Cancelled(t) /\ mutexTasks' = 1

Acknowledged(r) ==
    [r EXCEPT !.suspendDone = @ + r.suspendWaiters, !.suspendWaiters = 0]

\* suspendMySelf() until it reads from its pipe.
Suspended(r) == [Acknowledged(r) EXCEPT !.taskState = "SUSPENDED",
                                        !.asyncSuspendRequested = FALSE]

Waiting(t, return) == [user[t] EXCEPT !.at = "suspended", !.return = return]

\* terminateMySelf()
Exit(t, r) ==
    /\ tcb' = [tcb EXCEPT ![t] = [Acknowledged(r) EXCEPT
                 !.terminateDone = @ + r.terminateWaiters, !.terminateWaiters = 0,
                 !.taskState = "TERMINATED"]]
    /\ user' = [user EXCEPT ![t] = [Started EXCEPT !.at = "none"]]

\* TerminateRequestSignal: in an i/o statement it leads to endSequence(), elsewhere to
\* the end of the body.
Thrown(t) == [user[t] EXCEPT !.at = IF @ \in {"begun", "io", "suspended"} THEN "ended" ELSE "end",
                             !.return = "stmt", !.unwinding = TRUE]

InIO(r) == r.taskState = "BLOCKED" /\ r.reason = "IO"

\* Faulty variant: a task in i/o is terminated like any other.
CallbackTerminates(t, next) ==
    LET r == [tcb[t] EXCEPT !.asyncTerminateRequested = FALSE] IN
    /\ Region(t)
    /\ \/ /\ tcb[t].asyncTerminateRequested
          /\ Exit(t, r)
       \/ /\ ~tcb[t].asyncTerminateRequested
          /\ tcb' = [tcb EXCEPT ![t] = IF r.asyncSuspendRequested THEN Suspended(r) ELSE r]
          /\ user' = [user EXCEPT ![t] = IF r.asyncSuspendRequested THEN Waiting(t, next)
                                         ELSE [@ EXCEPT !.at = next]]
    /\ UNCHANGED <<dationVars, controller>>

\* scheduleCallback()
Callback(t, next) ==
    LET r == [tcb[t] EXCEPT !.asyncTerminateRequested = FALSE] IN
    /\ Region(t)
    /\ \/ /\ tcb[t].asyncTerminateRequested /\ InIO(r)
          /\ tcb' = [tcb EXCEPT ![t] = r]
          /\ user' = [user EXCEPT ![t] = Thrown(t)]
       \/ /\ tcb[t].asyncTerminateRequested /\ ~InIO(r)
          /\ Exit(t, r)
       \/ /\ ~tcb[t].asyncTerminateRequested /\ r.asyncSuspendRequested
          /\ tcb' = [tcb EXCEPT ![t] = Suspended(r)]
          /\ user' = [user EXCEPT ![t] = Waiting(t, next)]
       \/ /\ ~tcb[t].asyncTerminateRequested /\ ~r.asyncSuspendRequested
          /\ GoTo(t, next)
          /\ UNCHANGED tcb
    /\ UNCHANGED <<dationVars, controller>>

SetLocation(t) == At(t, "body") /\ Callback(t, "stmt")
AfterBegin(t) == At(t, "begun") /\ Callback(t, "io")
AfterEnd(t) == At(t, "finished") /\ Callback(t, IF user[t].unwinding THEN "end" ELSE "body")

EndOfBody(t) ==
    /\ At(t, "stmt")
    /\ GoTo(t, "end")
    /\ UNCHANGED <<mutexTasks, dationVars, tcb, controller>>

Terminate(t) ==
    /\ At(t, "end") /\ Region(t)
    /\ Exit(t, tcb[t])
    /\ UNCHANGED <<dationVars, controller>>

\* suspendMySelf() reads from the pipe and locks mutexTasks.  After a 'c' it is for
\* the continuing task to unlock it; treatCancelIO() does so itself if it finds that
\* the task is to be terminated.
Resume(t) ==
    LET r == [tcb[t] EXCEPT !.pipeResume = Tail(@)]
        c == [r EXCEPT !.taskState = IF @ = "SUSPENDED" THEN "RUNNING" ELSE "BLOCKED",
                       !.continueDone = @ + r.continueWaiters, !.continueWaiters = 0]
        terminate == user[t].return = "cancel" /\ r.asyncTerminateRequested
    IN
    /\ At(t, "suspended") /\ mutexTasks > 0 /\ tcb[t].pipeResume # <<>>
    /\ \/ /\ Head(tcb[t].pipeResume) = "t"
          /\ Exit(t, r)
          /\ UNCHANGED mutexTasks
       \/ /\ Head(tcb[t].pipeResume) = "c" /\ ~terminate
          /\ tcb' = [tcb EXCEPT ![t] = c]
          /\ user' = [user EXCEPT ![t].return = "stmt",
                 ![t].at = IF user[t].return = "cancel" THEN "io" ELSE user[t].return]
          /\ mutexTasks' = mutexTasks - 1
       \/ /\ Head(tcb[t].pipeResume) = "c" /\ terminate
          /\ tcb' = [tcb EXCEPT ![t] = [c EXCEPT !.asyncTerminateRequested = FALSE]]
          /\ user' = [user EXCEPT ![t] = Thrown(t)]
          /\ UNCHANGED mutexTasks
    /\ UNCHANGED <<dationVars, controller>>

-----------------------------------------------------------------------------
\* beginSequence()
Begin(t) ==
    /\ At(t, "stmt") /\ mutexUserDation = None
    /\ mutexUserDation' = t
    /\ GoTo(t, "begin")
    /\ UNCHANGED <<mutexTasks, isBusy, waitQueue, rstVoidPointer, tcb, controller>>

\* enterIO(), and waiting in the queue if another one uses the dation.
BeginLocked(t) ==
    /\ At(t, "begin") /\ Region(t)
    /\ isBusy' = TRUE
    /\ waitQueue' = IF isBusy THEN Insert(waitQueue, t, Prio) ELSE waitQueue
    /\ tcb' = [tcb EXCEPT ![t].taskState = "BLOCKED",
                          ![t].reason = IF isBusy THEN "IOWAITQUEUE" ELSE "IO"]
    /\ GoTo(t, IF isBusy THEN "queued" ELSE "begun")
    /\ rstVoidPointer' = None
    /\ mutexUserDation' = None
    /\ UNCHANGED controller

WakeUp(t) ==
    /\ At(t, "queued") /\ tcb[t].semaBlock > 0
    /\ tcb' = [tcb EXCEPT ![t].semaBlock = @ - 1]
    /\ GoTo(t, "woken")
    /\ UNCHANGED <<mutexTasks, dationVars, controller>>

LockAgain(t) ==
    /\ At(t, "woken") /\ mutexUserDation = None
    /\ mutexUserDation' = t
    /\ GoTo(t, "waked")
    /\ UNCHANGED <<mutexTasks, isBusy, waitQueue, rstVoidPointer, tcb, controller>>

BeginHook(t) ==
    /\ At(t, "waked") /\ Region(t)
    /\ mutexUserDation' = None
    /\ GoTo(t, "begun")
    /\ UNCHANGED <<isBusy, waitQueue, rstVoidPointer, tcb, controller>>

\* The format element RST.
Rst(t) ==
    /\ At(t, "io") /\ t \in WithRst
    /\ rstVoidPointer' = t
    /\ UNCHANGED <<mutexTasks, mutexUserDation, isBusy, waitQueue, tcb, user, controller>>

\* The system call, and with it the statement, comes to its end or fails.
Transferred(t) ==
    /\ At(t, "io")
    /\ GoTo(t, "ended")
    /\ UNCHANGED <<mutexTasks, dationVars, tcb, controller>>

\* treatCancelIO() after the signal has ended the system call.  The lock is that of the
\* controller.
TreatCancelIO(t) ==
    /\ At(t, "io") /\ Cancelled(t)
    /\ \/ /\ tcb[t].asyncSuspendRequested
          /\ tcb' = [tcb EXCEPT ![t] = Suspended(@)]
          /\ user' = [user EXCEPT ![t] = Waiting(t, "cancel")]
       \/ /\ ~tcb[t].asyncSuspendRequested /\ tcb[t].asyncTerminateRequested
          /\ tcb' = [tcb EXCEPT ![t].asyncTerminateRequested = FALSE]
          /\ user' = [user EXCEPT ![t] = Thrown(t)]
    /\ mutexTasks' = mutexTasks + 1
    /\ UNCHANGED <<dationVars, controller>>

\* endSequence()
End(t) ==
    /\ At(t, "ended") /\ mutexUserDation = None
    /\ mutexUserDation' = t
    /\ GoTo(t, "ending")
    /\ UNCHANGED <<mutexTasks, isBusy, waitQueue, rstVoidPointer, tcb, controller>>

\* The dation passes to the first in the queue.
PassOn ==
    /\ isBusy' = (waitQueue # <<>>)
    /\ waitQueue' = IF waitQueue = <<>> THEN waitQueue ELSE Tail(waitQueue)

Unblocked(r) == [r EXCEPT !.reason = "IO", !.semaBlock = @ + 1]

EndLocked(t) ==
    LET left == [tcb EXCEPT ![t].taskState = "RUNNING"] IN
    /\ At(t, "ending") /\ Region(t)
    /\ PassOn
    /\ tcb' = IF waitQueue = <<>> THEN left ELSE [left EXCEPT ![Head(waitQueue)] = Unblocked(@)]
    /\ mutexUserDation' = None
    /\ GoTo(t, "finished")
    /\ UNCHANGED <<rstVoidPointer, controller>>

-----------------------------------------------------------------------------
\* A controller executes a statement on t.
Executes(b, t) == controller[b].at = "idle" /\ mutexTasks > 0 /\ t \in Controlled

WaitFor(b, place, t, acks) ==
    controller' = [controller EXCEPT ![b] = [at |-> place, on |-> t, acks |-> acks]]

Activate(b, t) ==
    /\ Executes(b, t)
    /\ tcb[t].taskState = "TERMINATED"
    /\ tcb' = [tcb EXCEPT ![t] = [@ EXCEPT
                 !.asyncTerminateRequested = FALSE, !.asyncSuspendRequested = FALSE,
                 !.suspendWaiters = 0, !.continueWaiters = 0, !.terminateWaiters = 0,
                 !.taskState = "RUNNING"]]
    /\ user' = [user EXCEPT ![t] = Started]
    /\ UNCHANGED <<mutexTasks, dationVars, controller>>

SuspendRunning(b, t) ==
    /\ Executes(b, t)
    /\ tcb[t].taskState = "RUNNING"
    /\ tcb' = [tcb EXCEPT ![t].asyncSuspendRequested = TRUE, ![t].suspendWaiters = @ + 1]
    /\ WaitFor(b, "suspending", t, 1)
    /\ UNCHANGED <<mutexTasks, dationVars, user>>

\* Faulty variant: the suspended task keeps its place in the queue.
SuspendQueuedInPlace(b, t) ==
    /\ Executes(b, t)
    /\ tcb[t].taskState = "BLOCKED" /\ tcb[t].reason = "IOWAITQUEUE"
    /\ tcb' = [tcb EXCEPT ![t].taskState = "SUSPENDED_BLOCKED"]
    /\ UNCHANGED <<mutexTasks, dationVars, user, controller>>

SuspendQueued(b, t) ==
    /\ Executes(b, t)
    /\ tcb[t].taskState = "BLOCKED" /\ tcb[t].reason = "IOWAITQUEUE"
    /\ waitQueue' = Remove(waitQueue, t)
    /\ tcb' = [tcb EXCEPT ![t].taskState = "SUSPENDED_BLOCKED"]
    /\ UNCHANGED <<mutexTasks, mutexUserDation, isBusy, rstVoidPointer, user, controller>>

\* suspendIO(): suspend() counts as a waiter, too.
SuspendInIO(b, t) ==
    /\ Executes(b, t)
    /\ InIO(tcb[t])
    /\ tcb' = [tcb EXCEPT ![t].asyncSuspendRequested = TRUE, ![t].suspendWaiters = @ + 2]
    /\ mutexTasks' = mutexTasks - 1
    /\ WaitFor(b, "cancelSuspend", t, 2)
    /\ UNCHANGED <<dationVars, user>>

\* continueSuspended()
ContinueSuspended(b, t) ==
    /\ Executes(b, t)
    /\ \/ tcb[t].taskState = "SUSPENDED"
       \/ tcb[t].taskState = "SUSPENDED_BLOCKED" /\ tcb[t].reason = "IO"
    /\ tcb' = [tcb EXCEPT ![t].continueWaiters = @ + 1, ![t].pipeResume = Append(@, "c")]
    /\ WaitFor(b, "continuing", t, 1)
    /\ UNCHANGED <<mutexTasks, dationVars, user>>

\* Faulty variant: a task that was queued goes on when it is continued.
RestartBusy(b, t) ==
    /\ Executes(b, t)
    /\ tcb[t].taskState = "SUSPENDED_BLOCKED" /\ tcb[t].reason = "IOWAITQUEUE"
    /\ isBusy' = TRUE
    /\ tcb' = [tcb EXCEPT ![t] = Unblocked([@ EXCEPT !.taskState = "BLOCKED"])]
    /\ UNCHANGED <<mutexTasks, mutexUserDation, waitQueue, rstVoidPointer, user, controller>>

\* restart(): the task takes the dation, or is queued again.
Restart(b, t) ==
    /\ Executes(b, t)
    /\ tcb[t].taskState = "SUSPENDED_BLOCKED" /\ tcb[t].reason = "IOWAITQUEUE"
    /\ isBusy' = TRUE
    /\ waitQueue' = IF isBusy THEN Insert(waitQueue, t, Prio) ELSE waitQueue
    /\ tcb' = [tcb EXCEPT ![t] = LET r == [@ EXCEPT !.taskState = "BLOCKED"]
                                 IN  IF isBusy THEN r ELSE Unblocked(r)]
    /\ UNCHANGED <<mutexTasks, mutexUserDation, rstVoidPointer, user, controller>>

\* CONTINUE of a queued task.
Requeue(b, t) ==
    /\ Executes(b, t)
    /\ tcb[t].taskState = "BLOCKED" /\ tcb[t].reason = "IOWAITQUEUE"
    /\ waitQueue' = Insert(Remove(waitQueue, t), t, Prio)
    /\ UNCHANGED <<mutexTasks, mutexUserDation, isBusy, rstVoidPointer, tcb, user, controller>>

AskTermination(r, waiters) ==
    [r EXCEPT !.asyncTerminateRequested = TRUE, !.terminateWaiters = @ + waiters]

TerminateRunning(b, t) ==
    /\ Executes(b, t)
    /\ tcb[t].taskState = "RUNNING"
    /\ tcb' = [tcb EXCEPT ![t] = AskTermination(@, 1)]
    /\ WaitFor(b, "terminating", t, 1)
    /\ UNCHANGED <<mutexTasks, dationVars, user>>

TerminateQueued(b, t) ==
    /\ Executes(b, t)
    /\ tcb[t].taskState = "BLOCKED" /\ tcb[t].reason = "IOWAITQUEUE"
    /\ waitQueue' = Remove(waitQueue, t)
    /\ tcb' = [tcb EXCEPT ![t] = [AskTermination(tcb[t], 1) EXCEPT !.semaBlock = @ + 1]]
    /\ WaitFor(b, "terminating", t, 1)
    /\ UNCHANGED <<mutexTasks, mutexUserDation, isBusy, rstVoidPointer, user>>

\* terminateIO()
TerminateInIO(b, t) ==
    /\ Executes(b, t)
    /\ InIO(tcb[t])
    /\ tcb' = [tcb EXCEPT ![t] = AskTermination(@, 1)]
    /\ mutexTasks' = mutexTasks - 1
    /\ WaitFor(b, "cancelTerminate", t, 1)
    /\ UNCHANGED <<dationVars, user>>

\* The state of a suspended task tells where it is: outside of i/o, or in the system call.
Orderly(t) == IF tcb[t].taskState = "SUSPENDED" THEN user[t].return \in {"stmt", "body", "end"}
                                                ELSE user[t].return = "cancel"

\* terminateSuspended() writes a 't', terminateSuspendedIO() a 'c'.  (Not made: TERMINATE
\* of a task suspended in the queue, which induces InternalTaskSignal.)
TerminateSuspended(b, t) ==
    /\ Executes(b, t)
    /\ TerminateAnywhere \/ Orderly(t)
    /\ \/ /\ tcb[t].taskState = "SUSPENDED"
          /\ tcb' = [tcb EXCEPT ![t] = [AskTermination(tcb[t], 2) EXCEPT !.pipeResume = Append(@, "t")]]
          /\ WaitFor(b, "terminating", t, 2)
       \/ /\ tcb[t].taskState = "SUSPENDED_BLOCKED" /\ tcb[t].reason = "IO"
          /\ tcb' = [tcb EXCEPT ![t] = [AskTermination(tcb[t], 1) EXCEPT !.pipeResume = Append(@, "c")]]
          /\ WaitFor(b, "terminating", t, 1)
    /\ UNCHANGED <<mutexTasks, dationVars, user>>

-----------------------------------------------------------------------------
\* The loop that sends SIG_CANCEL_IO ends.
Cancelling(b) ==
    LET r == tcb[controller[b].on] IN
    /\ controller[b].on # None
    /\ \/ /\ controller[b].at = "cancelSuspend" /\ ~r.asyncSuspendRequested
          /\ controller' = [controller EXCEPT ![b].at = "suspendingIO"]
       \/ /\ controller[b].at = "cancelTerminate" /\ ~r.asyncTerminateRequested
          /\ controller' = [controller EXCEPT ![b].at = "terminating"]
    /\ UNCHANGED <<mutexTasks, dationVars, tcb, user>>

\* b waits at place, and there are acknowledgements enough.
Done(b, place, acks) == controller[b].at = place /\ acks >= controller[b].acks

Return(b) ==
    /\ controller' = [controller EXCEPT ![b] = Idle]
    /\ UNCHANGED <<dationVars, user>>

\* suspendRunning() locks mutexTasks again.
SuspendDone(b) ==
    LET t == controller[b].on IN
    /\ controller[b].on # None /\ Done(b, "suspending", tcb[t].suspendDone)
    /\ mutexTasks > 0
    /\ tcb' = [tcb EXCEPT ![t].suspendDone = @ - controller[b].acks]
    /\ Return(b)
    /\ UNCHANGED mutexTasks

\* Faulty variant: suspend() unlocks mutexTasks as in the other cases.
SuspendIODoneUnlocking(b) ==
    LET t == controller[b].on IN
    /\ controller[b].on # None /\ Done(b, "suspendingIO", tcb[t].suspendDone)
    /\ tcb' = [tcb EXCEPT ![t].suspendDone = @ - controller[b].acks,
                          ![t].taskState = "SUSPENDED_BLOCKED"]
    /\ mutexTasks' = mutexTasks + 1
    /\ Return(b)

\* The assignment to taskState is made without mutexTasks.
SuspendIODone(b) ==
    LET t == controller[b].on IN
    /\ controller[b].on # None /\ Done(b, "suspendingIO", tcb[t].suspendDone)
    /\ tcb' = [tcb EXCEPT ![t].suspendDone = @ - controller[b].acks,
                          ![t].taskState = "SUSPENDED_BLOCKED"]
    /\ Return(b)
    /\ UNCHANGED mutexTasks

\* The continued task has locked mutexTasks for the controller.
ContinueDone(b) ==
    LET t == controller[b].on IN
    /\ controller[b].on # None /\ Done(b, "continuing", tcb[t].continueDone)
    /\ tcb' = [tcb EXCEPT ![t].continueDone = @ - controller[b].acks]
    /\ mutexTasks' = mutexTasks + 1
    /\ Return(b)

\* The assignment to taskState is made without mutexTasks.
TerminateDone(b) ==
    LET t == controller[b].on IN
    /\ controller[b].on # None /\ Done(b, "terminating", tcb[t].terminateDone)
    /\ tcb' = [tcb EXCEPT ![t].terminateDone = @ - controller[b].acks,
                          ![t].taskState = "TERMINATED"]
    /\ Return(b)
    /\ UNCHANGED mutexTasks

-----------------------------------------------------------------------------
\* The steps of a user's thread inside the run-time system.
RuntimeStep(t) ==
    \/ SetLocation(t) \/ AfterBegin(t) \/ AfterEnd(t) \/ Terminate(t) \/ Resume(t)
    \/ BeginLocked(t) \/ WakeUp(t) \/ LockAgain(t) \/ BeginHook(t)
    \/ TreatCancelIO(t) \/ End(t) \/ EndLocked(t)

\* The body of a task goes on, to an i/o statement or to its end.
BodyStep(t) == Begin(t) \/ EndOfBody(t)

ControllerStep(b) ==
    Cancelling(b) \/ SuspendDone(b) \/ SuspendIODone(b) \/ ContinueDone(b) \/ TerminateDone(b)

Statement(b, t) ==
    \/ Activate(b, t)
    \/ SuspendRunning(b, t) \/ SuspendQueued(b, t) \/ SuspendInIO(b, t)
    \/ ContinueSuspended(b, t) \/ Restart(b, t) \/ Requeue(b, t)
    \/ TerminateRunning(b, t) \/ TerminateQueued(b, t) \/ TerminateInIO(b, t)
    \/ TerminateSuspended(b, t)

Next ==
    \/ \E t \in Users :
         RuntimeStep(t) \/ BodyStep(t) \/ Rst(t) \/ Transferred(t)
    \/ \E b \in Controllers : ControllerStep(b) \/ \E t \in Users : Statement(b, t)

Spec == Init /\ [][Next]_vars

\* Every thread is scheduled, waiting threads get a mutex that is again and again
\* free, and every transfer comes to its end.
FairSpec ==
    /\ Spec
    /\ \A t \in Users : SF_vars(RuntimeStep(t)) /\ WF_vars(BodyStep(t)) /\ WF_vars(Transferred(t))
    /\ \A b \in Controllers : SF_vars(ControllerStep(b))

-----------------------------------------------------------------------------
TypeOK ==
    /\ mutexTasks \in {0, 1}
    /\ mutexUserDation \in Users \cup {None}
    /\ isBusy \in BOOLEAN
    /\ waitQueue \in Seq(Users)
    /\ rstVoidPointer \in Users \cup {None}
    /\ tcb \in [Users -> TCB]
    /\ user \in [Users -> User]
    /\ controller \in [Controllers -> Controller]

\* The tasks that are in an i/o statement between beginSequence and endSequence.  (One
\* that was terminated in the queue comes out of beginSequence, too, but ends there.)
Inside == {t \in Users : \/ user[t].at \in {"io", "ended", "ending"}
                         \/ At(t, "begun") /\ tcb[t].reason = "IO"
                         \/ At(t, "suspended") /\ user[t].return \in {"io", "cancel"}}

\* The tasks the dation was passed to, which do not know yet.
Called == {t \in Users : user[t].at \in {"queued", "woken", "waked"} /\ tcb[t].reason = "IO"}

\* At most one task is inside an i/o statement on the dation, whatever is done to it
\* and to those that wait: suspended, continued, terminated, before it notices.
OneUser == Cardinality(Inside \cup Called) <= 1

\* isBusy, which is not reset where the dation is passed on, stands for a task that will
\* come to its endSequence: the dation is neither lost nor given away twice.
BusyMeansOwned == isBusy <=> Inside \cup Called # {}

\* The queue has exactly the tasks that wait for the dation, each once and sorted.
\* (A task that is being terminated has left the queue but not its state.)
QueueMatches ==
    /\ Distinct(waitQueue) /\ SortedBy(waitQueue, Prio)
    /\ QueueSet(waitQueue) = {t \in Users : /\ tcb[t].taskState = "BLOCKED"
                                            /\ tcb[t].reason = "IOWAITQUEUE"
                                            /\ At(t, "queued") /\ tcb[t].semaBlock = 0}

\* A controller waits for a task that waits for mutexUserDation, whose owner waits for
\* mutexTasks, which the controller keeps.
Crossed(b) ==
    /\ Cancelled(controller[b].on) /\ mutexTasks = 0
    /\ user[controller[b].on].at \in {"woken", "ended"}
    /\ mutexUserDation # None

\* A controller waits for a task that waits for the dation, whose user is suspended.
Behind(b) ==
    /\ controller[b].on # None /\ controller[b].on \in QueueSet(waitQueue)
    /\ \E t \in Inside : At(t, "suspended")

\* A controller signals a thread that has ended: SUSPEND met the task at the end of its
\* i/o statement, and CONTINUE made it BLOCKED again outside of it.
Gone(b) == Cancelled(controller[b].on) /\ At(controller[b].on, "none")

\* Every SUSPEND, CONTINUE and TERMINATE of a task returns, wherever in an i/o statement
\* the task is, unless it comes to one of these three waits.
OperationsReturn ==
    \A b \in Controllers :
        []<>(controller[b].at = "idle") \/ <>[](Crossed(b) \/ Behind(b) \/ Gone(b))
=============================================================================
