------------------------------ MODULE Console ------------------------------
(***************************************************************************)
(* The device Console (runtime/common/ConsoleCommon.cc,                    *)
(* runtime/linux/Console.cc): several tasks wait for input or for output   *)
(* on the same user dation at the same time.  The console thread reads the *)
(* operator's line and gives it to the task it is addressed to; writers    *)
(* take turns, and wait while the operator types.                          *)
(*                                                                         *)
(* Nothing but startNextWriter() lets a queued writer go, so somebody must *)
(* be left who will call it: the writer or the reader at work, in its      *)
(* endSequence(), or the console thread after a line.                      *)
(*                                                                         *)
(* Tasks are suspended, continued and terminated wherever they are.  One   *)
(* that has been woken is RUNNING: the request is seen at the end of       *)
(* beginSequence(), where a terminated task ends without endSequence().    *)
(*                                                                         *)
(* A step is a region under ConsoleCommon's mutex, or one under mutexTasks *)
(* with the calls in it.  How the line is edited is in ConsoleLine.        *)
(***************************************************************************)
EXTENDS PriorityQueue

CONSTANTS
    Tasks,      \* the tasks that use the console
    None,       \* no task
    Prio,       \* their priorities
    Disturbed   \* the tasks that others suspend, continue, terminate and activate

ASSUME ConsoleAssumption ==
    /\ None \notin Tasks
    /\ Prio \in [Tasks -> Nat]
    /\ Disturbed \subseteq Tasks

VARIABLES
    waitingForInput, waitingForOutput, writerInProgress, inputStarted,
    lastTaskEntered,
    console,        \* where the console thread is, and the line it treats
    mutexLost,      \* a signal has left mutexTasks locked for ever
    task            \* the tasks: their control blocks and where they are

lists == <<waitingForInput, waitingForOutput, writerInProgress>>
vars == <<lists, inputStarted, lastTaskEntered, console, mutexLost, task>>

\* at: "waiting" on semaBlock, "io" from the last callback of beginSequence() on (a task
\* that is suspended there has not begun its i/o), "leaving" when endSequence() has
\* started the next writer.  direction: of the statement.
Task == [taskState : {"TERMINATED", "RUNNING", "BLOCKED", "SUSPENDED", "SUSPENDED_BLOCKED"},
         at : {"none", "body", "waiting", "io", "leaving"},
         direction : {"IN", "OUT"}, semaBlock : 0 .. 1,
         asyncTerminateRequested : BOOLEAN, asyncSuspendRequested : BOOLEAN]

\* to: the task a line is addressed to, or None for the default task.
\* "refused" is waiting for input, too: after a line for a task that does not wait.
ConsoleThread == [at : {"idle", "refused", "address", "take", "hand", "serve"},
                  to : Tasks \cup {None}]

Running == [taskState |-> "RUNNING", at |-> "body", direction |-> "IN", semaBlock |-> 0,
            asyncTerminateRequested |-> FALSE, asyncSuspendRequested |-> FALSE]

Ended == [Running EXCEPT !.taskState = "TERMINATED", !.at = "none"]

Init ==
    /\ waitingForInput = <<>>
    /\ waitingForOutput = <<>>
    /\ writerInProgress = FALSE
    /\ inputStarted = FALSE
    /\ lastTaskEntered = None
    /\ mutexLost = FALSE
    /\ console = [at |-> "idle", to |-> None]
    /\ task = [t \in Tasks |-> Running]

-----------------------------------------------------------------------------
\* unblock(): a task is blocked with IO_MULTIPLE_IO.
Unblock(r) == [r EXCEPT !.taskState = "RUNNING", !.semaBlock = @ + 1]

\* Faulty variant: the writer that came last is started.
StartNextWriterLast(r) ==
    LET n == Len(waitingForOutput) IN
    \/ /\ inputStarted \/ n = 0
       /\ writerInProgress' = (inputStarted /\ writerInProgress)
       /\ task' = r
       /\ UNCHANGED waitingForOutput
    \/ /\ ~inputStarted /\ n > 0
       /\ writerInProgress' = TRUE
       /\ waitingForOutput' = SubSeq(waitingForOutput, 1, n - 1)
       /\ task' = [r EXCEPT ![waitingForOutput[n]] = Unblock(@)]

\* startNextWriter(); r are the control blocks as its caller leaves them.
StartNextWriter(r) ==
    \/ /\ inputStarted
       /\ task' = r
       /\ UNCHANGED <<waitingForOutput, writerInProgress>>
    \/ /\ ~inputStarted /\ waitingForOutput = <<>>
       /\ writerInProgress' = FALSE
       /\ task' = r
       /\ UNCHANGED waitingForOutput
    \/ /\ ~inputStarted /\ waitingForOutput # <<>>
       /\ writerInProgress' = TRUE
       /\ waitingForOutput' = Tail(waitingForOutput)
       /\ task' = [r EXCEPT ![Head(waitingForOutput)] = Unblock(@)]

-----------------------------------------------------------------------------
\* Whether a writer has to wait its turn.
MustWait == inputStarted \/ waitingForOutput # <<>> \/ writerInProgress

\* registerWaitingTask() of t, whose control block is blocked, and unblocked if it may
\* write at once.
RegisterWaitingTask(t, direction, blocked, unblocked) ==
    \/ /\ direction = "IN"
       /\ waitingForInput' = <<t>> \o waitingForInput
       /\ task' = [task EXCEPT ![t] = blocked]
       /\ UNCHANGED <<waitingForOutput, writerInProgress>>
    \/ /\ direction = "OUT" /\ MustWait
       /\ waitingForOutput' = Insert(waitingForOutput, t, Prio)
       /\ task' = [task EXCEPT ![t] = blocked]
       /\ UNCHANGED <<waitingForInput, writerInProgress>>
    \/ /\ direction = "OUT" /\ ~MustWait
       /\ writerInProgress' = TRUE
       /\ task' = [task EXCEPT ![t] = unblocked]
       /\ UNCHANGED <<waitingForInput, waitingForOutput>>

\* beginSequence() until it waits: block() comes after unblock(), and leaves the task
\* BLOCKED.  A request that came after the last callback stays set meanwhile.
BeginSequence(t, direction) ==
    LET r == [task[t] EXCEPT !.taskState = "BLOCKED", !.at = "waiting",
                             !.direction = direction]
    IN
    /\ ~mutexLost /\ task[t].at = "body" /\ task[t].taskState = "RUNNING"
    /\ RegisterWaitingTask(t, direction, r, [r EXCEPT !.semaBlock = @ + 1])
    /\ UNCHANGED <<inputStarted, lastTaskEntered, console, mutexLost>>

\* scheduleCallback(): what becomes of a task with control block r.
ScheduleCallback(r) ==
    IF r.asyncTerminateRequested THEN Ended
    ELSE IF r.asyncSuspendRequested
    THEN [r EXCEPT !.asyncSuspendRequested = FALSE, !.taskState = "SUSPENDED"]
    ELSE r

\* The task is woken; beginSequence() ends with the callback.
Wake(t) ==
    /\ ~mutexLost /\ task[t].at = "waiting" /\ task[t].semaBlock > 0
    /\ task' = [task EXCEPT ![t] =
                  ScheduleCallback([task[t] EXCEPT !.semaBlock = @ - 1, !.at = "io"])]
    /\ UNCHANGED <<lists, inputStarted, lastTaskEntered, console, mutexLost>>

\* Faulty variant: only the end of an output is reported.
EndSequenceOut(t) ==
    /\ task[t].at = "io" /\ task[t].taskState # "SUSPENDED"
    /\ LET left == [task EXCEPT ![t].at = "leaving"] IN
       \/ task[t].direction = "OUT" /\ StartNextWriter(left)
       \/ task[t].direction = "IN" /\ task' = left /\ UNCHANGED <<waitingForOutput, writerInProgress>>
    /\ UNCHANGED <<waitingForInput, inputStarted, lastTaskEntered, console, mutexLost>>

\* The statement is done; endSequence() informs the console.
EndSequence(t) ==
    /\ task[t].at = "io" /\ task[t].taskState # "SUSPENDED"
    /\ LET left == [task EXCEPT ![t].at = "leaving"] IN
       StartNextWriter(left)
    /\ UNCHANGED <<waitingForInput, inputStarted, lastTaskEntered, console, mutexLost>>

\* leaveIO(), and the callback at the end of endSequence().
LeaveIO(t) ==
    /\ ~mutexLost /\ task[t].at = "leaving"
    /\ task' = [task EXCEPT ![t] = ScheduleCallback(
                  [task[t] EXCEPT !.at = "body", !.direction = "IN", !.taskState = "RUNNING"])]
    /\ UNCHANGED <<lists, inputStarted, lastTaskEntered, console, mutexLost>>

\* setLocation() before a statement of the body.
SetLocation(t) ==
    /\ ~mutexLost /\ task[t].at = "body" /\ task[t].taskState = "RUNNING"
    /\ task' = [task EXCEPT ![t] = ScheduleCallback(@)]
    /\ UNCHANGED <<lists, inputStarted, lastTaskEntered, console, mutexLost>>

-----------------------------------------------------------------------------
\* The console thread reads characters, also while a reader has still to read its line.
Types == console.at \in {"idle", "refused"}

\* The first character of a line.
FirstCharacter ==
    /\ Types /\ ~inputStarted
    /\ inputStarted' = TRUE
    /\ UNCHANGED <<lists, lastTaskEntered, console, mutexLost, task>>

\* The last character is deleted again.
LastErased ==
    /\ Types /\ inputStarted
    /\ inputStarted' = FALSE
    /\ console' = [console EXCEPT !.at = "serve"]
    /\ UNCHANGED <<lists, lastTaskEntered, mutexLost, task>>

\* NL: a line for the task t, a line without a name, or a command.
Line(at, t) ==
    /\ Types
    /\ inputStarted' = FALSE
    /\ console' = [at |-> at, to |-> t]
    /\ UNCHANGED <<lists, lastTaskEntered, mutexLost, task>>

NamedLine(t) == Line("address", t)
PlainLine == Line("take", None)
Command == Line("serve", None)

\* A name: the task becomes the default if it waits for input, else the line is dropped.
Address ==
    LET waits == console.to \in QueueSet(waitingForInput) IN
    /\ console.at = "address"
    /\ lastTaskEntered' = IF waits THEN console.to ELSE None
    /\ console' = [console EXCEPT !.at = IF waits THEN "take" ELSE "serve", !.to = None]
    /\ UNCHANGED <<lists, inputStarted, mutexLost, task>>

\* The default task is taken from the list.  If it is not there, the next writer is not
\* started.
Take ==
    /\ console.at = "take"
    /\ \/ /\ lastTaskEntered = None
          /\ console' = [console EXCEPT !.at = "serve"]
          /\ UNCHANGED waitingForInput
       \/ /\ lastTaskEntered \in QueueSet(waitingForInput)
          /\ waitingForInput' = Remove(waitingForInput, lastTaskEntered)
          /\ console' = [console EXCEPT !.at = "hand"]
       \/ /\ lastTaskEntered \notin QueueSet(waitingForInput) \cup {None}
          /\ console' = [console EXCEPT !.at = "refused"]
          /\ UNCHANGED waitingForInput
    /\ UNCHANGED <<waitingForOutput, writerInProgress, inputStarted, lastTaskEntered,
                   mutexLost, task>>

\* consoleLoop() unblocks the task.
Hand ==
    /\ ~mutexLost /\ console.at = "hand"
    /\ task' = [task EXCEPT ![lastTaskEntered] = Unblock(@)]
    /\ console' = [console EXCEPT !.at = "idle"]
    /\ UNCHANGED <<lists, inputStarted, lastTaskEntered, mutexLost>>

Serve ==
    /\ console.at = "serve"
    /\ StartNextWriter(task)
    /\ console' = [console EXCEPT !.at = "idle"]
    /\ UNCHANGED <<waitingForInput, inputStarted, lastTaskEntered, mutexLost>>

-----------------------------------------------------------------------------
Listed(t) == t \in QueueSet(waitingForInput) \cup QueueSet(waitingForOutput)

\* removeFromInputList(), removeFromOutputList()
RemoveFromLists(t) ==
    /\ waitingForInput' = Remove(waitingForInput, t)
    /\ waitingForOutput' = Remove(waitingForOutput, t)
    /\ UNCHANGED <<writerInProgress, inputStarted, lastTaskEntered, console, mutexLost>>

\* The task is left to find what is asked of it.
Requested(t, r) ==
    /\ task' = [task EXCEPT ![t] = r]
    /\ UNCHANGED <<lists, inputStarted, lastTaskEntered, console, mutexLost>>

\* The caller gets a signal, thrown with mutexTasks locked.
ThrownLocked ==
    /\ mutexLost' = TRUE
    /\ UNCHANGED <<lists, inputStarted, lastTaskEntered, console, task>>

\* Faulty variant: the task stays in its list.
SuspendListed(t) ==
    /\ Listed(t)
    /\ Requested(t, [task[t] EXCEPT !.taskState = "SUSPENDED_BLOCKED"])

\* SUSPEND of a task that runs, that waits in a list, or that is blocked but in no list.
Suspend(t) ==
    /\ ~mutexLost
    /\ \/ /\ task[t].taskState = "RUNNING"
          /\ Requested(t, [task[t] EXCEPT !.asyncSuspendRequested = TRUE])
       \/ /\ Listed(t)
          /\ RemoveFromLists(t)
          /\ task' = [task EXCEPT ![t].taskState = "SUSPENDED_BLOCKED"]
       \/ task[t].taskState = "BLOCKED" /\ ~Listed(t) /\ ThrownLocked

\* restart() registers the task again.  CONTINUE of a blocked task is not supported.
Continue(t) ==
    LET r == [task[t] EXCEPT !.taskState = "BLOCKED"] IN
    /\ ~mutexLost
    /\ \/ /\ task[t].taskState = "SUSPENDED_BLOCKED"
          /\ RegisterWaitingTask(t, task[t].direction, r, Unblock(r))
          /\ UNCHANGED <<inputStarted, lastTaskEntered, console, mutexLost>>
       \/ /\ task[t].taskState = "SUSPENDED"
          /\ Requested(t, [task[t] EXCEPT !.taskState = "RUNNING"])
       \/ task[t].taskState = "BLOCKED" /\ ThrownLocked

\* Faulty variant: a task that is in neither list is released, too.
TerminateBlocked(t) ==
    /\ ~mutexLost /\ task[t].taskState = "BLOCKED"
    /\ RemoveFromLists(t)
    /\ task' = [task EXCEPT ![t].asyncTerminateRequested = TRUE, ![t].semaBlock = @ + 1]

\* TERMINATE: a suspended task reads it from its pipe, one in a list is taken out and
\* woken.  The others find the request; if they are blocked, the caller gets a signal.
Terminate(t) ==
    /\ ~mutexLost
    /\ \/ task[t].taskState = "SUSPENDED" /\ Requested(t, Ended)
       \/ /\ Listed(t)
          /\ RemoveFromLists(t)
          /\ task' = [task EXCEPT ![t].asyncTerminateRequested = TRUE, ![t].semaBlock = @ + 1]
       \/ /\ task[t].taskState \notin {"TERMINATED", "SUSPENDED"} /\ ~Listed(t)
          /\ Requested(t, [task[t] EXCEPT !.asyncTerminateRequested = TRUE])

Activate(t) ==
    /\ ~mutexLost /\ task[t].taskState = "TERMINATED"
    /\ Requested(t, Running)

-----------------------------------------------------------------------------
TaskStep(t) == Wake(t) \/ EndSequence(t) \/ LeaveIO(t)

ConsoleStep == Address \/ Take \/ Hand \/ Serve

Operator ==
    FirstCharacter \/ LastErased \/ PlainLine \/ Command \/ \E t \in Tasks : NamedLine(t)

Next ==
    \/ \E t \in Tasks : TaskStep(t) \/ SetLocation(t)
    \/ \E t \in Tasks, direction \in {"IN", "OUT"} : BeginSequence(t, direction)
    \/ \E t \in Disturbed : Suspend(t) \/ Continue(t) \/ Terminate(t) \/ Activate(t)
    \/ ConsoleStep \/ Operator

Spec == Init /\ [][Next]_vars

\* The threads are scheduled, and output does not block.  Nothing is assumed of the
\* operator.
FairSpec == Spec /\ (\A t \in Tasks : WF_vars(TaskStep(t))) /\ WF_vars(ConsoleStep)

-----------------------------------------------------------------------------
TypeOK ==
    /\ waitingForInput \in Seq(Tasks)
    /\ waitingForOutput \in Seq(Tasks)
    /\ writerInProgress \in BOOLEAN
    /\ inputStarted \in BOOLEAN
    /\ lastTaskEntered \in Tasks \cup {None}
    /\ mutexLost \in BOOLEAN
    /\ console \in ConsoleThread
    /\ task \in [Tasks -> Task]

\* The task is on its way into a list's turn: the one the console thread took a line for.
Taken == IF console.at = "hand" THEN {lastTaskEntered} ELSE {}

\* The lists hold exactly the tasks that are blocked and not woken, each in the list of
\* its direction: no task is forgotten, and none is woken twice.
ListsMatch ==
    LET Blocked(direction) == {t \in Tasks : /\ task[t].at = "waiting" /\ task[t].semaBlock = 0
                                             /\ task[t].taskState = "BLOCKED"
                                             /\ task[t].direction = direction}
    IN
    /\ Distinct(waitingForInput) /\ Distinct(waitingForOutput)
    /\ SortedBy(waitingForOutput, Prio)
    /\ QueueSet(waitingForInput) \cup Taken = Blocked("IN")
    /\ QueueSet(waitingForInput) \cap Taken = {}
    /\ QueueSet(waitingForOutput) = Blocked("OUT")

\* The tasks that have been woken and are to be terminated: they end in beginSequence().
Doomed == {t \in Tasks : /\ task[t].at = "waiting" /\ task[t].semaBlock > 0
                         /\ task[t].asyncTerminateRequested}

\* The others that have been woken; they will call startNextWriter() in endSequence().
Working == {t \in Tasks : \/ task[t].at = "io"
                          \/ task[t].at = "waiting" /\ task[t].semaBlock > 0} \ Doomed

\* While writers wait, or the console is kept for a writer, there is somebody who will
\* start the next one: a task in its statement, the operator in his line or the console
\* thread with a line.
SomebodyServes ==
    waitingForOutput # <<>> \/ writerInProgress =>
        Working # {} \/ inputStarted \/ ~Types

\* Whatever is done to tasks, and in whatever order lines, outputs and deletions end, the
\* last one who could start the next writer does not leave without having done so.  There
\* are two ways in which this goes wrong: treatLine() drops a line for a default task that
\* does not wait, and a task is terminated that has, or gets, its turn.
HandedOn ==
    [][SomebodyServes =>
         \/ SomebodyServes'
         \/ console.at = "take" /\ console'.at = "refused"
         \/ \E t \in Tasks : t \in Doomed' \ Doomed
         \/ \E t \in Working : task'[t].taskState = "TERMINATED"]_vars

\* A writer of the best priority gets its turn, unless again and again the operator types,
\* a task is terminated or suspended that has been woken, or nobody is left to start it.
WritersServed ==
    \A t \in Tasks : (\A u \in Tasks : Prio[t] <= Prio[u]) =>
        \/ []<>(t \notin QueueSet(waitingForOutput))
        \/ []<>(\/ inputStarted \/ Doomed # {} \/ ~SomebodyServes \/ mutexLost
               \/ \E u \in Working : task[u].taskState = "SUSPENDED")

=============================================================================
