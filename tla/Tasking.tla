------------------------------ MODULE Tasking ------------------------------
(***************************************************************************)
(* The tasking operations of runtime/common/TaskCommon.cc on the threads   *)
(* of runtime/linux/Task.cc.  Every PEARL task has a task control block;   *)
(* an active task has a thread.  An operation runs under the semaphore     *)
(* mutexTasks, but those on a running or suspended task need the help of   *)
(* its thread: they set a flag or write to its pipe, give the semaphore    *)
(* back and wait for an acknowledgement on another one.                    *)
(*                                                                         *)
(* A step is what a thread does from one such waiting to the next.  Where  *)
(* a region under mutexTasks is entered the guard asks for mutexTasks > 0; *)
(* a region that leaves it again is one step that does not change it.      *)
(*                                                                         *)
(* Left out: priorities, i/o, schedules and the count of pending tasks.    *)
(* Blocking is that on a semaphore; which request can be satisfied is the  *)
(* business of module Semaphore and left open here.                        *)
(***************************************************************************)
EXTENDS Integers, Sequences, FiniteSets

CONSTANTS
    Tasks,
    Main,           \* the task that is active from the start
    Threads,        \* a pool of threads
    Timer,          \* the thread that runs the timer handlers, not in the pool
    NoTask,         \* what Timer executes
    MaxAcks,        \* a bound on the activations that nobody waits for
    Programs        \* each: which task executes which statements on which tasks

Statements ==
    [by : Tasks \cup {NoTask},
     op : {"activate", "terminate", "suspend", "continue", "block", "unblock",
           "end", "timedActivate", "timedContinue"},
     on : Tasks]

ASSUME TaskingAssumption ==
    /\ Main \in Tasks
    /\ NoTask \notin Tasks
    /\ Timer \notin Threads
    /\ Threads # {}
    /\ MaxAcks \in Nat
    /\ Programs \subseteq SUBSET Statements

\* The statements with which one task controls another.
Control == {"suspend", "continue", "timedContinue", "terminate"}

\* A program in which each task is controlled by one other or by the timer, one that is
\* terminated is activated by the same, and a task that a timer activates neither controls
\* nor is controlled, by itself neither.
Orderly(program) ==
    /\ \A s \in program : s.op \in {"timedActivate", "timedContinue"} => s.by = NoTask
    /\ \A s1, s2 \in program :
         s1.on = s2.on /\ s1.op \in Control /\ s1.by # s1.on =>
           /\ s2.op \in Control /\ s2.by # s2.on => s1.by = s2.by
           /\ s1.op = "terminate" /\ s2.op = "activate" => s1.by = s2.by
    /\ \A s1, s2 \in program :
         s1.op = "timedActivate" /\ s2.op \in Control => s1.on # s2.on /\ s1.on # s2.by

VARIABLES
    mutexTasks,     \* the value of the semaphore TaskCommon::mutexTasks
    tcb,            \* the task control blocks
    thr             \* the threads

vars == <<mutexTasks, tcb, thr>>

TaskStates == {"TERMINATED", "RUNNING", "SUSPENDED", "SUSPENDED_BLOCKED", "BLOCKED"}

\* The members of TaskCommon and Task the operations work with.  statements: the
\* task's body, and what a timer does with the task.
TCB == [taskState : TaskStates, statements : SUBSET Statements,
        asyncTerminateRequested : BOOLEAN, asyncSuspendRequested : BOOLEAN,
        schedActivateOverrun : BOOLEAN,
        suspendWaiters : Nat, continueWaiters : Nat, terminateWaiters : Nat,
        suspendDone : Nat, continueDone : Nat, terminateDone : Nat,
        activateDone : Nat, semaBlock : Nat,
        pipeResume : Seq({"c", "t"})]

\* Where a thread is.  "body": before the setLocation() of a statement, "stmt":
\* at the statement; the other places are those where a thread waits.
Places == {"none", "entry", "body", "stmt", "end", "blocked", "unblocked",
           "suspended", "resumedC", "resumedT", "activating", "suspending",
           "suspendedIt", "continuing", "terminatingSuspended",
           "terminatingTwice", "terminating", "terminatedIt"}

\* task: mySelf.  on: the task of the operation the thread executes.
\* return: where suspendMySelf() returns to; "own": into suspend().
Thread == [place : Places, task : Tasks \cup {NoTask}, on : Tasks,
           return : {"body", "stmt", "own"}]

AllThreads == Threads \cup {Timer}

Unused == [place |-> "none", task |-> NoTask, on |-> Main, return |-> "body"]

Terminated ==
    [taskState |-> "TERMINATED", statements |-> {},
     asyncTerminateRequested |-> FALSE, asyncSuspendRequested |-> FALSE,
     schedActivateOverrun |-> FALSE,
     suspendWaiters |-> 0, continueWaiters |-> 0, terminateWaiters |-> 0,
     suspendDone |-> 0, continueDone |-> 0, terminateDone |-> 0,
     activateDone |-> 0, semaBlock |-> 0, pipeResume |-> <<>>]

\* One of the programs runs, and its main task has been activated.
Init ==
    /\ mutexTasks = 1
    /\ \E program \in Programs :
         tcb = [t \in Tasks |->
                  [Terminated EXCEPT
                     !.taskState = IF t = Main THEN "RUNNING" ELSE @,
                     !.statements = {s \in program : t = IF s.by = NoTask THEN s.on ELSE s.by}]]
    /\ LET first == CHOOSE th \in Threads : TRUE IN
       thr = [th \in AllThreads |->
                IF th = first THEN [Unused EXCEPT !.place = "body", !.task = Main]
                ELSE IF th = Timer THEN [Unused EXCEPT !.place = "stmt"]
                ELSE Unused]

-----------------------------------------------------------------------------
State(t) == tcb[t].taskState

Program == UNION {tcb[t].statements : t \in Tasks}

\* The thread th stands at a statement of its program and locks mutexTasks.
Executes(th, op, t) ==
    /\ thr[th].place = "stmt"
    /\ [by |-> thr[th].task, op |-> op, on |-> t] \in Program
    /\ mutexTasks > 0

\* Where a thread goes on after a statement; the timer thread has no body.
NextPlace(th) == IF th = Timer THEN "stmt" ELSE "body"

GoTo(th, place) == thr' = [thr EXCEPT ![th].place = place]

WaitFor(th, place, t) == thr' = [thr EXCEPT ![th].place = place, ![th].on = t]

Free(ts) == {th \in Threads : ts[th].place = "none"}

\* pthread_create() in directActivate(); ts is what the caller makes of thr.
DirectActivate(t, ts) ==
    /\ Free(ts) # {}
    /\ thr' = [ts EXCEPT ![CHOOSE th \in Free(ts) : TRUE] =
                 [place |-> "entry", task |-> t, on |-> t, return |-> "body"]]

\* entry(): the new thread announces itself.  It does not lock mutexTasks; who
\* has created it does so and waits.
Entry(th) ==
    LET t == thr[th].task IN
    /\ thr[th].place = "entry"
    /\ tcb' = [tcb EXCEPT ![t] = [tcb[t] EXCEPT
                 !.asyncTerminateRequested = FALSE, !.asyncSuspendRequested = FALSE,
                 !.suspendWaiters = 0, !.continueWaiters = 0, !.terminateWaiters = 0,
                 !.taskState = "RUNNING", !.activateDone = @ + 1]]
    /\ GoTo(th, "body")
    /\ UNCHANGED mutexTasks

\* A statement that is no tasking operation.
Compute(th) ==
    /\ thr[th].place = "stmt" /\ th # Timer
    /\ GoTo(th, "body")
    /\ UNCHANGED <<mutexTasks, tcb>>

\* The body ends; taskFunction() goes on with terminate(me).
End(th) ==
    /\ thr[th].place = "stmt"
    /\ [by |-> thr[th].task, op |-> "end", on |-> thr[th].task] \in Program
    /\ GoTo(th, "end")
    /\ UNCHANGED <<mutexTasks, tcb>>

-----------------------------------------------------------------------------
\* Faulty variant: those who wait for the suspension of the task are forgotten.
AcknowledgedTerminators(r) ==
    [r EXCEPT !.terminateDone = @ + r.terminateWaiters, !.terminateWaiters = 0]

\* terminateMySelf() acknowledges all who wait to suspend or terminate the task.
Acknowledged(r) ==
    [r EXCEPT !.suspendDone = @ + r.suspendWaiters, !.suspendWaiters = 0,
              !.terminateDone = @ + r.terminateWaiters, !.terminateWaiters = 0]

\* What terminateMySelf() makes of the task control block r.
Done(r) ==
    [Acknowledged(r) EXCEPT !.taskState = "TERMINATED", !.schedActivateOverrun = FALSE]

\* terminateMySelf() ends the thread th.
Exit(th, r) ==
    /\ tcb' = [tcb EXCEPT ![thr[th].task] = Done(r)]
    /\ thr' = [thr EXCEPT ![th] = Unused]
    /\ UNCHANGED mutexTasks

\* terminateMySelf() has missed a scheduled activation: it starts a new thread
\* for the task and returns.  r and next are what the caller makes of the task
\* control block and of the old thread, which goes on; unlocks is how often the
\* caller releases mutexTasks once more.
Restart(th, r, next, unlocks) ==
    /\ tcb' = [tcb EXCEPT ![thr[th].task] = r]
    /\ DirectActivate(thr[th].task, [thr EXCEPT ![th] = next])
    /\ mutexTasks' = mutexTasks + unlocks

\* Faulty variant: the missed activation is forgotten.
TerminateMySelfOnce(th, r, next) == Exit(th, r)

TerminateMySelf(th, r, next) ==
    IF r.schedActivateOverrun THEN Restart(th, Done(r), next, 0) ELSE Exit(th, r)

At(th, place) == [thr[th] EXCEPT !.place = place]

\* terminate(me) at the end of the body.
TerminateAtEnd(th) ==
    /\ thr[th].place = "end" /\ mutexTasks > 0
    /\ TerminateMySelf(th, tcb[thr[th].task], Unused)

\* The statement TERMINATE for the own task.
TerminateOwn(th) ==
    /\ thr[th].task # NoTask
    /\ Executes(th, "terminate", thr[th].task)
    /\ TerminateMySelf(th, tcb[thr[th].task], At(th, "body"))

\* suspendMySelf(): acknowledges, and waits at its pipe without mutexTasks.
Suspended(r) ==
    [r EXCEPT !.suspendDone = @ + r.suspendWaiters, !.suspendWaiters = 0,
              !.taskState = "SUSPENDED"]

Waiting(th, return) == [thr[th] EXCEPT !.place = "suspended", !.return = return]

SuspendMySelf(th, r, return) ==
    /\ tcb' = [tcb EXCEPT ![thr[th].task] = Suspended(r)]
    /\ thr' = [thr EXCEPT ![th] = Waiting(th, return)]
    /\ UNCHANGED mutexTasks

\* The statement SUSPEND for the own task.
SuspendOwn(th) ==
    /\ thr[th].task # NoTask
    /\ Executes(th, "suspend", thr[th].task)
    /\ SuspendMySelf(th, tcb[thr[th].task], "own")

\* The old thread returns from terminateMySelf() to scheduleCallback() and looks
\* whether it is to be suspended; by then the new one may have reset that flag.
RestartInCallback(th, r, return) ==
    \E suspend \in {FALSE, r.asyncSuspendRequested} :
        IF suspend
        THEN Restart(th, Suspended([Done(r) EXCEPT !.asyncSuspendRequested = FALSE]),
                     Waiting(th, return), 1)
        ELSE Restart(th, Done(r), At(th, return), 1)

\* scheduleCallback(), before each statement and after a blocking: here the
\* flags set by other tasks take effect.
Callback(th, return) ==
    LET t == thr[th].task
        r == [tcb[t] EXCEPT !.asyncTerminateRequested = FALSE]
        unasked == [r EXCEPT !.asyncSuspendRequested = FALSE]
    IN  /\ mutexTasks > 0
        /\ \/ /\ tcb[t].asyncTerminateRequested
              /\ IF r.schedActivateOverrun THEN RestartInCallback(th, r, return)
                                           ELSE Exit(th, r)
           \/ /\ ~tcb[t].asyncTerminateRequested
              /\ tcb[t].asyncSuspendRequested
              /\ SuspendMySelf(th, unasked, return)
           \/ /\ ~tcb[t].asyncTerminateRequested
              /\ ~tcb[t].asyncSuspendRequested
              /\ GoTo(th, return)
              /\ UNCHANGED <<mutexTasks, tcb>>

SetLocation(th) == thr[th].place = "body" /\ Callback(th, "stmt")

\* The callback at the end of REQUEST, ENTER and RESERVE.
AfterBlock(th) == thr[th].place = "unblocked" /\ Callback(th, "body")

-----------------------------------------------------------------------------
\* The thread that waits at its pipe reads from it.
ReadPipe(th) ==
    LET t == thr[th].task IN
    /\ thr[th].place = "suspended"
    /\ tcb[t].pipeResume # <<>>
    /\ GoTo(th, IF Head(tcb[t].pipeResume) = "c" THEN "resumedC" ELSE "resumedT")
    /\ tcb' = [tcb EXCEPT ![t].pipeResume = Tail(@)]
    /\ UNCHANGED mutexTasks

\* Where suspendMySelf() returns to in the end.
Back(th) == IF thr[th].return = "own" THEN "body" ELSE thr[th].return

\* suspendMySelf() goes on: it locks mutexTasks and acknowledges all who wait to
\* continue the task.  The first of them is to unlock mutexTasks.
ResumeContinued(th) ==
    LET t == thr[th].task IN
    /\ thr[th].place = "resumedC" /\ mutexTasks > 0
    /\ IF State(t) \in {"SUSPENDED", "SUSPENDED_BLOCKED"}
       THEN /\ tcb' = [tcb EXCEPT ![t] = [tcb[t] EXCEPT
                         !.taskState = IF @ = "SUSPENDED" THEN "RUNNING" ELSE "BLOCKED",
                         !.continueDone = @ + tcb[t].continueWaiters, !.continueWaiters = 0]]
            /\ GoTo(th, Back(th))
            /\ mutexTasks' = mutexTasks - 1
       ELSE \* InternalTaskSignal ends the body; suspend() unlocks once more
            /\ GoTo(th, "end")
            /\ mutexTasks' = IF thr[th].return = "own" THEN mutexTasks + 1 ELSE mutexTasks
            /\ UNCHANGED tcb

ResumeTerminated(th) ==
    /\ thr[th].place = "resumedT" /\ mutexTasks > 0
    /\ TerminateMySelf(th, tcb[thr[th].task], At(th, Back(th)))

-----------------------------------------------------------------------------
\* block() and unblock() of a task that waits for a semaphore.
Block(th) ==
    LET t == thr[th].task IN
    /\ t # NoTask
    /\ Executes(th, "block", t)
    /\ tcb' = [tcb EXCEPT ![t].taskState = "BLOCKED"]
    /\ GoTo(th, "blocked")
    /\ UNCHANGED mutexTasks

WakeUp(th) ==
    LET t == thr[th].task IN
    /\ thr[th].place = "blocked"
    /\ tcb[t].semaBlock > 0
    /\ tcb' = [tcb EXCEPT ![t].semaBlock = @ - 1]
    /\ GoTo(th, "unblocked")
    /\ UNCHANGED mutexTasks

Unblocked(r) == [r EXCEPT !.taskState = "RUNNING", !.semaBlock = @ + 1]

\* A RELEASE that serves the blocked task t.
Unblock(th, t) ==
    /\ Executes(th, "unblock", t)
    /\ State(t) = "BLOCKED"
    /\ tcb' = [tcb EXCEPT ![t] = Unblocked(@)]
    /\ GoTo(th, NextPlace(th))
    /\ UNCHANGED mutexTasks

-----------------------------------------------------------------------------
\* Faulty variant: nobody waits for the new thread.
ActivateUnwaited(th, t) ==
    /\ Executes(th, "activate", t) \/ Executes(th, "timedActivate", t)
    /\ State(t) = "TERMINATED"
    /\ DirectActivate(t, [thr EXCEPT ![th].place = NextPlace(th)])
    /\ UNCHANGED <<mutexTasks, tcb>>

\* activate() of a terminated task, mutexTasks stays locked.  (Otherwise it induces
\* TaskRunningSignal; the signals of the operations below change nothing either.)
Activate(th, t) ==
    /\ Executes(th, "activate", t) \/ Executes(th, "timedActivate", t)
    /\ State(t) = "TERMINATED"
    /\ DirectActivate(t, [thr EXCEPT ![th].place = "activating", ![th].on = t])
    /\ mutexTasks' = mutexTasks - 1
    /\ UNCHANGED tcb

\* Faulty variant: it is enough that the new thread runs.
ActivatedPolled(th) ==
    /\ thr[th].place = "activating"
    /\ State(thr[th].on) = "RUNNING"
    /\ GoTo(th, NextPlace(th))
    /\ mutexTasks' = mutexTasks + 1
    /\ UNCHANGED tcb

Activated(th) ==
    LET t == thr[th].on IN
    /\ thr[th].place = "activating"
    /\ tcb[t].activateDone > 0
    /\ tcb' = [tcb EXCEPT ![t].activateDone = @ - 1]
    /\ GoTo(th, NextPlace(th))
    /\ mutexTasks' = mutexTasks + 1

\* timedActivate() of a task that is still active.
TimedActivateOverrun(th, t) ==
    /\ Executes(th, "timedActivate", t)
    /\ State(t) # "TERMINATED"
    /\ tcb[t].activateDone < MaxAcks
    /\ tcb' = [tcb EXCEPT ![t].schedActivateOverrun = TRUE]
    /\ GoTo(th, NextPlace(th))
    /\ UNCHANGED mutexTasks

\* suspend() of a running task: a flag for its next callback.
SuspendRunning(th, t) ==
    /\ Executes(th, "suspend", t)
    /\ t # thr[th].task
    /\ State(t) = "RUNNING"
    /\ tcb' = [tcb EXCEPT ![t] = [tcb[t] EXCEPT !.asyncSuspendRequested = TRUE,
                                          !.suspendWaiters = @ + 1]]
    /\ WaitFor(th, "suspending", t)
    /\ UNCHANGED mutexTasks

\* Faulty variant: it does not wait for the acknowledgement.
SuspendAcknowledgedEarly(th) ==
    /\ thr[th].place = "suspending"
    /\ tcb' = [tcb EXCEPT ![thr[th].on].suspendDone = @ - 1]
    /\ GoTo(th, "suspendedIt")
    /\ UNCHANGED mutexTasks

SuspendAcknowledged(th) ==
    LET t == thr[th].on IN
    /\ thr[th].place = "suspending"
    /\ tcb[t].suspendDone > 0
    /\ tcb' = [tcb EXCEPT ![t].suspendDone = @ - 1]
    /\ GoTo(th, "suspendedIt")
    /\ UNCHANGED mutexTasks

\* suspendRunning() locks mutexTasks again, suspend() unlocks it.
SuspendDone(th) ==
    /\ thr[th].place = "suspendedIt" /\ mutexTasks > 0
    /\ GoTo(th, NextPlace(th))
    /\ UNCHANGED <<mutexTasks, tcb>>

\* suspend() of a blocked task; it leaves the queue.
SuspendBlocked(th, t) ==
    /\ Executes(th, "suspend", t)
    /\ State(t) = "BLOCKED"
    /\ tcb' = [tcb EXCEPT ![t].taskState = "SUSPENDED_BLOCKED"]
    /\ GoTo(th, NextPlace(th))
    /\ UNCHANGED mutexTasks

Continues(th, t) == Executes(th, "continue", t) \/ Executes(th, "timedContinue", t)

\* continueSuspended()
ContinueSuspended(th, t) ==
    /\ Continues(th, t)
    /\ State(t) = "SUSPENDED"
    /\ tcb' = [tcb EXCEPT ![t] = [tcb[t] EXCEPT !.continueWaiters = @ + 1,
                                          !.pipeResume = Append(@, "c")]]
    /\ WaitFor(th, "continuing", t)
    /\ UNCHANGED mutexTasks

\* Faulty variant: mutexTasks is left to the continued task.
ContinuedStillLocked(th) ==
    LET t == thr[th].on IN
    /\ thr[th].place = "continuing"
    /\ tcb[t].continueDone > 0
    /\ tcb' = [tcb EXCEPT ![t].continueDone = @ - 1]
    /\ GoTo(th, NextPlace(th))
    /\ UNCHANGED mutexTasks

\* The continued task has locked mutexTasks for us.
Continued(th) ==
    LET t == thr[th].on IN
    /\ thr[th].place = "continuing"
    /\ tcb[t].continueDone > 0
    /\ tcb' = [tcb EXCEPT ![t].continueDone = @ - 1]
    /\ GoTo(th, NextPlace(th))
    /\ mutexTasks' = mutexTasks + 1

\* continueFromOtherTask() of a task that was suspended when blocked: its request
\* can be satisfied now or it is queued again.
ContinueSuspendedBlocked(th, t) ==
    /\ Continues(th, t)
    /\ State(t) = "SUSPENDED_BLOCKED"
    /\ \/ tcb' = [tcb EXCEPT ![t] = Unblocked(@)]
       \/ tcb' = [tcb EXCEPT ![t].taskState = "BLOCKED"]
    /\ GoTo(th, NextPlace(th))
    /\ UNCHANGED mutexTasks

-----------------------------------------------------------------------------
\* terminate() from another task.
Terminates(th, t) == Executes(th, "terminate", t) /\ t # thr[th].task

AskTermination(r, waiters) ==
    [r EXCEPT !.asyncTerminateRequested = TRUE, !.terminateWaiters = @ + waiters]

TerminateRunning(th, t) ==
    /\ Terminates(th, t)
    /\ State(t) = "RUNNING"
    /\ tcb' = [tcb EXCEPT ![t] = AskTermination(@, 1)]
    /\ WaitFor(th, "terminating", t)
    /\ UNCHANGED mutexTasks

TerminateBlocked(th, t) ==
    /\ Terminates(th, t)
    /\ State(t) = "BLOCKED"
    /\ tcb' = [tcb EXCEPT ![t] = [AskTermination(tcb[t], 1) EXCEPT
                 !.taskState = "TERMINATED", !.semaBlock = @ + 1]]
    /\ WaitFor(th, "terminating", t)
    /\ UNCHANGED mutexTasks

\* The target is let out of its blocking, but mutexTasks is not unlocked.
TerminateSuspendedBlocked(th, t) ==
    /\ Terminates(th, t)
    /\ State(t) = "SUSPENDED_BLOCKED"
    /\ tcb' = [tcb EXCEPT ![t] = [AskTermination(tcb[t], 1) EXCEPT !.semaBlock = @ + 1]]
    /\ WaitFor(th, "terminating", t)
    /\ mutexTasks' = mutexTasks - 1

\* terminateSuspended() counts and waits a second time.
TerminateSuspended(th, t) ==
    /\ Terminates(th, t)
    /\ State(t) = "SUSPENDED"
    /\ tcb' = [tcb EXCEPT ![t] = AskTermination(@, 2)]
    /\ WaitFor(th, "terminatingSuspended", t)
    /\ UNCHANGED mutexTasks

WriteTerminate(th) ==
    LET t == thr[th].on IN
    /\ thr[th].place = "terminatingSuspended"
    /\ tcb' = [tcb EXCEPT ![t].pipeResume = Append(@, "t")]
    /\ GoTo(th, "terminatingTwice")
    /\ UNCHANGED mutexTasks

TerminateAcknowledged(th) ==
    LET t == thr[th].on IN
    /\ thr[th].place \in {"terminatingTwice", "terminating"}
    /\ tcb[t].terminateDone > 0
    /\ tcb' = [tcb EXCEPT ![t].terminateDone = @ - 1]
    /\ GoTo(th, IF thr[th].place = "terminating" THEN "terminatedIt" ELSE "terminating")
    /\ UNCHANGED mutexTasks

\* The terminating task sets taskState once more, without mutexTasks.
SetTerminated(th) ==
    /\ thr[th].place = "terminatedIt"
    /\ tcb' = [tcb EXCEPT ![thr[th].on].taskState = "TERMINATED"]
    /\ GoTo(th, NextPlace(th))
    /\ UNCHANGED mutexTasks

-----------------------------------------------------------------------------
\* The steps of a thread that do not depend on what its program says next.
RuntimeStep(th) ==
    \/ Entry(th) \/ TerminateAtEnd(th) \/ SetLocation(th) \/ AfterBlock(th)
    \/ ReadPipe(th) \/ ResumeContinued(th) \/ ResumeTerminated(th) \/ WakeUp(th)
    \/ Activated(th) \/ SuspendAcknowledged(th) \/ SuspendDone(th) \/ Continued(th)
    \/ WriteTerminate(th) \/ TerminateAcknowledged(th) \/ SetTerminated(th)

\* The statements of its program.
Statement(th) ==
    \/ Compute(th) \/ End(th) \/ TerminateOwn(th) \/ SuspendOwn(th) \/ Block(th)
    \/ \E t \in Tasks :
        \/ Unblock(th, t) \/ Activate(th, t) \/ TimedActivateOverrun(th, t)
        \/ SuspendRunning(th, t) \/ SuspendBlocked(th, t)
        \/ ContinueSuspended(th, t) \/ ContinueSuspendedBlocked(th, t)
        \/ TerminateRunning(th, t) \/ TerminateBlocked(th, t)
        \/ TerminateSuspended(th, t) \/ TerminateSuspendedBlocked(th, t)

Next == \E th \in AllThreads : RuntimeStep(th) \/ Statement(th)

Spec == Init /\ [][Next]_vars

\* The operating system schedules every thread, and a body that is at a statement
\* executes it.  A thread that waits for mutexTasks, again and again free, gets
\* it: while it waits it has the highest priority (switchToThreadPrioMax) or
\* competes with threads that go on to wait for something else.  A task that comes
\* again and again to a statement after which its body may end does end.
FairSpec ==
    /\ Spec
    /\ \A th \in AllThreads : SF_vars(RuntimeStep(th))
    /\ \A th \in Threads : WF_vars(Statement(th)) /\ SF_vars(End(th))

-----------------------------------------------------------------------------
TypeOK ==
    /\ mutexTasks \in Nat
    /\ tcb \in [Tasks -> TCB]
    /\ thr \in [AllThreads -> Thread]

ThreadsAt(place) == {th \in AllThreads : thr[th].place = place}

\* mutexTasks, which one thread locks and another unlocks, is neither lost nor
\* released twice: it is free, or one activation is going on, or one continued
\* task has locked it for the one that continued it, or a task keeps it that
\* terminates one in state SUSPENDED_BLOCKED.
LockHandedOver ==
    /\ mutexTasks + Cardinality(ThreadsAt("activating"))
                  + Cardinality({t \in Tasks : tcb[t].continueDone > 0})
                  + Cardinality({th \in ThreadsAt("terminating") :
                                   State(thr[th].on) = "SUSPENDED_BLOCKED"}) = 1
    /\ \A t \in Tasks : tcb[t].continueDone <= 1

\* t is activated by a timer: then terminateMySelf() may return, and leave its caller's
\* thread and the acknowledgement of the new one behind.
Cyclic(t) == [by |-> NoTask, op |-> "timedActivate", on |-> t] \in Program

\* No task has two threads.
OneThread ==
    \A t \in Tasks : Cyclic(t) \/ Cardinality({th \in Threads : thr[th].task = t}) <= 1

\* A new thread finds nothing in the pipe and the semaphores of its task that was
\* meant for an earlier one: no early end of its first SUSPEND or REQUEST, and
\* nobody takes an old acknowledgement for that of his own operation.
CleanStart ==
    \A th \in ThreadsAt("entry") :
        LET t == thr[th].task
            r == tcb[t]
        IN
        \/ Cyclic(t)
        \/ /\ r.pipeResume = <<>> /\ r.semaBlock = 0 /\ r.activateDone = 0
           /\ r.suspendDone <= Cardinality({x \in ThreadsAt("suspending") : thr[x].on = t})
           /\ r.continueDone = 0

\* t blocks or suspends itself, and nobody needs to free it.
MayStop(t) == \E op \in {"block", "suspend"} : [by |-> t, op |-> op, on |-> t] \in Program

\* th waits for t to take part in its operation.
InOperation(th, t) ==
    /\ thr[th].on = t
    /\ thr[th].place \in {"activating", "suspending", "suspendedIt", "continuing",
                          "terminatingSuspended", "terminatingTwice", "terminating"}

\* Every operation on a task returns, if the task does not stop for another reason.
OperationsReturn ==
    \A th \in AllThreads, t \in Tasks :
        InOperation(th, t) ~> MayStop(t) \/ ~InOperation(th, t)

\* A scheduled activation that comes while the task is active is not lost: the
\* task starts again when it has ended (terminateMySelf, schedActivateOverrun).
OverrunMadeUp ==
    \A t \in Tasks :
        tcb[t].schedActivateOverrun ~> \E th \in ThreadsAt("entry") : thr[th].task = t
=============================================================================
