# OpenPEARL run-time system: TLA+ models and proofs

OpenPEARL is a compiler and a run-time system for the real-time language PEARL.
This directory models the core of the run-time system: how PEARL tasks are
started, stopped, suspended and continued, by other tasks, timers and interrupts,
and how they wait for semaphores, bolts, dations and the console. Paths are relative to `openpearl-code/`; "language report" is
`language_report/09-parallel_activities.tex`.

Checking needs TLC and the TLA+ community modules; the proofs need TLAPS 1.4.5
with Z3, Zenon and LS4:

    tlc -config MCSemaphore.cfg MCSemaphore      # any row of section 4
    tlapm SemaphoreProofs.tla                    # section 5

## 1. Inventory of the system

A PEARL program is translated to C++ and linked with the run-time system. Every
PEARL task has a task control block (`TaskCommon`, `Task`); while it is active it
also has a thread. All tasking, semaphore and bolt operations run under one lock,
the semaphore `TaskCommon::mutexTasks`. The compiler emits `me->setLocation()`
before each statement; there, and at the end of a blocking operation,
`scheduleCallback()` lets requests of other tasks take effect.

| Component | Source (`runtime/`) | State | Operations | What is hard | What makes it correct |
|---|---|---|---|---|---|
| Priority queue | `common/PriorityQueue.cc` | a head; links in `blockParams.next` of the tasks | insert, remove, getHead, getNext | one link field for all queues; callers scan and remove at the same time | a queue is a sorted sequence; a task is in one queue or in none |
| Semaphores | `common/Semaphore.cc` | a value each, one queue for all | request, release, dotry, add/remove/updateWaitQueue | lists of semaphores taken together, partial failure, suspended waiters | nobody waits for what is there; grants follow priority; exclusion |
| Bolts | `common/Bolt.cc` | state and number of ENTERs each, one queue for all | enter, reserve, leave, free, add/remove/updateWaitQueue | two passes over one queue, lists that fail half way, suspended waiters | a writer is alone; count and state agree; a free bolt has no waiters |
| Tasking | `common/TaskCommon.cc`, `linux/Task.cc`, `linux/CSema.cc` | task state, priority, blocking reason, async requests, hand-shake semaphores, resume pipe | activate, terminate, suspend, continue, block, unblock, their timed and triggered forms | hand-shakes in which one thread locks and another unlocks `mutexTasks`; the target may end meanwhile | the lock is neither lost nor doubled; one thread per task; operations return |
| Task timers | `common/TaskTimerCommon.cc`, `linux/TaskTimer.cc` | two counts, a timer of the operating system | set, start, stop, cancel, update | cancel against an expiry that is under way; counting without a lock | every armed expiry is delivered, a cancelled one is not |
| Task monitor | `common/TaskMonitor.cc` | number of pending tasks | inc, dec | changed in many places under different conditions | zero exactly when nothing can happen any more |
| Interrupts | `common/Interrupt.cc`, `SoftInt.cc`, `TaskWhenLinks.cc` | enabled flag, two lists of tasks, own lock | enable, disable, trigger, (un)register | two locks, taken in both orders | a trigger reaches every registered task once; no deadlock |
| User dations | `common/UserDation*.cc`, `Dation*.cc` | busy flag, wait queue, open count, own lock | open, close, begin/endSequence, restart, get, put | i/o interrupted by SUSPEND and TERMINATE with a signal that also ends other waits | one user at a time; an interrupted one gives the dation back |
| Console | `common/ConsoleCommon.cc`, `linux/Console.cc` | lists of readers and writers, default task, line buffer | register, treatLine, startNextWriter, suspend, terminate | a reader thread serves many tasks; nobody but the last one at work starts the next writer | a line goes to the task it is addressed to; no writer is forgotten; the terminal shows the line |
| Deadlock detection | `common/DynamicDeadlockDetection/` | resource graph | observes request, release, enter, ... | optional, logs only | an edge for every waiting task |
| Formats, data types, positioning, signals, logging, drivers | other files of `common/`, `linux/` | local | sequential | | covered well by tests |
| FreeRTOS port | `FreeRTOS/PEARL/` | a second thread level | | the same `TaskCommon` on other threads | |
| Compiler, inter module checker | `compiler/`, `imc3/` | | | no concurrency | |

`PROJECT.json` lists the same parts with their status, and under "hazards" the
lines where these difficulties bite.

**Interactions.** Semaphores and bolts call `block()`/`unblock()` of a task and
keep its request in `blockParams.why`. Tasking calls back into the object a task is
blocked on: `removeFromWaitQueue` (SUSPEND, TERMINATE), `addToWaitQueue` (CONTINUE
of a suspended waiter), `updateWaitQueue` (CONTINUE ... PRIO). Timers and
interrupts call `timedActivate`, `timedContinue` and the triggered forms from
threads of their own. A dation blocks and unblocks tasks like a semaphore; a task in a
system call is reached with the signal SIG_CANCEL_IO, and its driver calls
`treatCancelIO()`. The console is a system dation that lets several tasks wait at once
and keeps lists of them itself.

## 2. Modules

    PriorityQueue  <- PriorityQueueSpec <...refined by...  PriorityQueueLinks
          ^
    TaskBlocking   <- Semaphore (with SemaphoreBags) <- SemaphoreMutex, MCSemaphore
                   <- Bolt                           <- BoltUsers, MCBolt
    SemaphoreMutex <- SemaphoreProofs
    BoltUsers      <- BoltProofs
    SemaphoreLoops  (steps of the loops that SemaphoreBags abstracts)
    Tasking         <- MCTasking, TaskingProofs
    Schedules       <- MCSchedules, SchedulesProofs
    PriorityQueue   <- Dations <- MCDations, DationsProofs
    PriorityQueue   <- Console <- MCConsole, ConsoleProofs
    LineEditor <...implemented by... ConsoleLine <- MCConsoleLine, ConsoleLineProofs

An arrow points to the module that is extended. `MC*` modules hold only the sets and
lists of an instance. PriorityQueueProofs, the lemmas about queues, is below
SemaphoreProofs, BoltProofs, ConsoleProofs and DationsProofs; SchedulesProofs and
ConsoleLineProofs take single lemmas of it.

**PriorityQueue** gives insert and remove as operators on sequences, with the very
condition at which the C++ loop stops. **PriorityQueueSpec** is the abstract
specification: a set of queues, each step inserts into or removes from one.
**PriorityQueueLinks** has the pointers `head` and `blockParams.next` and steps
through the loops, also through the scans of `Semaphore::release` and
`Bolt::leaveOrFree`, for two queues over one link field. A scan follows the link of the task
it has unblocked, which `remove()` has cleared, and ends there; Semaphore and Bolt are
modelled with this scan.

**TaskBlocking** has what the tasking operations do with tasks that are blocked on
a semaphore or bolt: `taskState`, `currentPrio`, `why` and `waiters`. An operation
that runs from `mutexLock()` to `mutexUnlock()` is one step. **Semaphore** adds the
values and REQUEST, TRY, RELEASE; **Bolt** adds state and count and ENTER, LEAVE,
RESERVE, FREE. A list of semaphores or bolts is a bag: only the number of occurrences
decides whether it can be taken. Which elements were reached before a loop stops with
a signal depends on the order in the list and is a nondeterministic choice.
**SemaphoreLoops** runs the C++ loops on every list in every order and shows that
the bag operators of **SemaphoreBags** say what they do. **SemaphoreMutex** and
**BoltUsers** compose these with the usual client: request - use - release, and
enter/reserve - use - leave/free, while waiting tasks are disturbed.

**Tasking** models the hand-shakes. `tcb[t]` holds the members of the task control
block, `thr[th]` where a thread stands (`place`), for which task and for whom it
waits (`on`). The steps of a thread go from one waiting to the next:

| Code | Actions |
|---|---|
| `activate`, `directActivate`, `entry` | Activate, Entry, Activated |
| `timedActivate`, `terminateMySelf` with `schedActivateOverrun` | TimedActivateOverrun, Restart |
| `scheduleCallback` from `setLocation` and after blocking | SetLocation, AfterBlock |
| `terminateMySelf` (end of body, TERMINATE of oneself, resumed by 't', callback) | TerminateAtEnd, TerminateOwn, ResumeTerminated, Callback |
| `terminateFromOtherTask`, `terminateRunning`, `terminateSuspended` | TerminateRunning, TerminateBlocked, TerminateSuspended, TerminateSuspendedBlocked, WriteTerminate, TerminateAcknowledged, SetTerminated |
| `suspendMySelf` (own SUSPEND, callback), reading the pipe | SuspendOwn, Callback, ReadPipe, ResumeContinued |
| `suspend`, `suspendRunning` | SuspendRunning, SuspendAcknowledged, SuspendDone, SuspendBlocked |
| `continueFromOtherTask`, `continueSuspended`, `timedContinue` | ContinueSuspended, Continued, ContinueSuspendedBlocked |
| `block`, `unblock`, `CSema` | Block, WakeUp, Unblock |

`Program` says which task may execute which statement on which task; an operation in
a state in which the code induces a signal changes nothing and is not a step.
`mutexTasks` is a counting semaphore as in the code, so that an unlock too many shows.

In `Init` one of several `Programs` is chosen, so that one run checks all of them.

**Schedules** has the timers, interrupts and the count of pending tasks. An operation
under `mutexTasks` is one step; the hand-shakes inside are Tasking's. What is not one step
is what the code does outside that lock: `update()` of a timer reads and writes its count
in two steps of the signal thread, before the callback, and `trigger()` gives `mutexTasks`
back while it waits for a task it continues.

| Code | Actions |
|---|---|
| `activate`, `scheduledActivate`, `prevent` | Activate, ScheduleActivate, Prevent |
| `cont`, `resume`, `suspend` | Continue, ScheduleContinue, Resume, Suspend |
| the end of a body, `terminate`, `terminateMySelf` | End, Terminate (Ended, Restarted, GoesOnBeside) |
| `signalThreadCode`, `update`, `timedActivate`, `timedContinue` | ReadSignal, LoadCounts, StoreCounts, TimedActivate, TimedContinue |
| the timers of the operating system (external) | Expire |
| `Interrupt` | Enable, Disable, Trigger, TriggerContinue, Continued, TriggerActivate |

`terminateMySelf` returns when an activation was missed. At the end of a body nothing is left
to do and the task just starts again (Restarted); after TERMINATE the old body goes on beside
the new thread, and the model ends there (`beside`).

A start condition is a record: an interrupt or none, whether its timer expires once or
cyclically, and how often. The lists of an interrupt are linked through the tasks, as in
the code. `counts` keeps its -1 for "eternally".

**Dations** has the i/o statements of several tasks on one user dation, cut where the
code waits: for `mutexUserDation`, `mutexTasks`, `semaBlock`, the pipe, the system call.
`Region` is the acquisition of `mutexTasks` with what SIG_CANCEL_IO does to it:
`CSema::request` takes the interrupted `sem_wait` for a success.

| Code | Actions |
|---|---|
| `beginSequence`, `block` | Begin, BeginLocked, WakeUp, LockAgain, BeginHook, AfterBegin |
| the driver, `treatCancelIO`, RST | Transferred, TreatCancelIO, Rst |
| `endSequence` | End, EndLocked, AfterEnd |
| `suspend`, `suspendIO`, `suspendRunning` | SuspendRunning, SuspendQueued, SuspendInIO, Cancelling, SuspendDone, SuspendIODone |
| `continueFromOtherTask`, `restart` | ContinueSuspended, ContinueDone, Restart, Requeue |
| `terminateFromOtherTask`, `terminateIO`, `terminateSuspended[IO]` | TerminateRunning, TerminateQueued, TerminateInIO, TerminateSuspended, Cancelling, TerminateDone |
| `scheduleCallback`, `suspendMySelf`, `taskFunction` | SetLocation, Resume, EndOfBody, Terminate, Activate |

**Console** has the two lists of waiting tasks, the default task, and the console thread
between the first character of a line and its delivery: FirstCharacter, LastErased, NL
with a name, without one or with a command, then Address, Take, Hand or Serve. A step is a
region under the mutex of `ConsoleCommon`, or one under `mutexTasks`. Other tasks SUSPEND,
CONTINUE, TERMINATE and ACTIVATE a task wherever it is in its statement: one in a list is
taken out; one that has been woken is RUNNING, gets a request and finds it in the
`scheduleCallback()` at the end of `beginSequence()` (Wake), after the i/o (LeaveIO) or before
the next statement (SetLocation); for one that is BLOCKED but in no list the caller gets a
signal (`mutexLost` where it is thrown with `mutexTasks` locked).

| Code | Actions |
|---|---|
| `beginSequence`, `registerWaitingTask`, `endSequence`, `startNextWriter` | BeginSequence, Wake, EndSequence, LeaveIO |
| `treatLine`, `consoleLoop` | FirstCharacter, LastErased, NamedLine, PlainLine, Command, Address, Take, Hand, Serve |
| `setLocation`, `scheduleCallback` | SetLocation, ScheduleCallback in Wake and LeaveIO |
| `suspend`, `continueFromOtherTask`, `terminateFromOtherTask`, `activate` | Suspend, Continue, Terminate, Activate |

**ConsoleLine** is the part of `treatLine()` that edits the line, key by key, on the
bytes of the union `inputLine`, with the terminal as cells and a column; `compress()` goes
through these bytes in place. **LineEditor** is what an operator expects: a text before
and one behind the cursor. ConsoleLine implements it under the mapping `Editor`.

**What is abstracted.** Priorities of threads, CPU affinity, logging, texts of
signals, the calls of the deadlock detection. In Tasking: PEARL priorities, which
request can be satisfied (Semaphore knows), i/o. In Schedules: times, priorities and the
BLOCKED states. In Dations: OPEN and CLOSE, TFU records, priority changes, devices that
SIG_CANCEL_IO does not reach. In Console: texts and commands. In ConsoleLine: ignored keys,
control characters, the bell; `wch`, which is a local variable without initial value, starts
as one of the characters a key can produce. TaskBlocking leaves out the state
SUSPENDED (it does not concern a queue) and TERMINATE in state SUSPENDED_BLOCKED,
which does not return (section 6). Definitions named as "Faulty variant" are
mutations used to show that a property can fail; no action uses them.

## 3. Hazards and the properties aimed at them

- One link field, scans that remove: `LinksAgree`, `LinksImplementQueues`, `SortedWhenIdle`.
- Lists that fail half way, counters at their limit: `TryAllOrNothing`,
  `ReleaseAllOrPart`, `CountMatchesState`.
- Tasks suspended, continued, terminated or re-prioritised while they wait:
  `QueueIsBlocked`, `QueueSorted`, `NoMissedWakeup`, `FreeOnlyIfNobodyWaits`,
  `OneHolder`, `WriterAlone`.
- Who is served: `GrantsByPriority`, `UrgentEnters`, `ReserveServed`.
- A lock that changes hands, targets that end by themselves, left-over
  acknowledgements: `LockHandedOver`, `OneThread`, `CleanStart`, `OperationsReturn`.
- A timer that is too early: `OverrunMadeUp`.
- Schedules that replace, cancel and outlive each other, and a count kept in five
  places: `PendingCounted`, `ActiveMeansArmed`, `ListsMatch`, `TimerStarts`; an expiry
  under way when the timer is cancelled: `EndsWithLastTask`.
- Two locks held at once: `OperationsReturn` (Dations). In Schedules such a pair of locks
  does hang the program, section 6.
- A dation passed on to a task that is being suspended or terminated, a signal that meets
  its target anywhere: `OneUser`, `BusyMeansOwned`, `QueueMatches`, `TypeOK` (the lock is
  free at most once).
- The last one who could start a waiting writer: `HandedOn`, `WritersServed`; a task that is
  suspended or terminated while it is being woken: `ListsMatch`.
- Echo and text apart, bytes written over those still to be read: `ScreenMatches`,
  `ImplementsEditor`.

Three properties of modules Semaphore and Bolt (`TypeOK`, `QueueSorted`, and for bolts
`QueueIsBlocked`) are proved for every instance (section 5) and are no longer part of a run.

## 4. Runs

| Run | Instance | Shows |
|---|---|---|
| queue_links | 3 tasks, 2 priorities, 2 queues | the pointers implement queues as sequences (refinement) |
| semaphore_loops | 3 semaphores, values 0..2, all lists up to length 4 | the loops of `internalDoTry` and `release` do what the bag operators say |
| semaphore | 3 tasks, 2 semaphores, 2 priorities, values 0..2 | queue and states agree, order, no missed wake-up, grants by priority |
| semaphore_mutex | 2 tasks of the best priority and a disturbed one | exclusion; a task of the best priority gets the resource (liveness) |
| bolt | 3 tasks, 2 bolts, at most 2 ENTERs | queue, count and state agree; LEAVE or FREE of one bolt serves a RESERVE it makes possible |
| bolt_users | 4 tasks, 1 bolt | a writer is alone; nobody waits for a free bolt |
| tasking | 3 tasks, 3 threads and the timer, two programs | the lock is handed over correctly; one thread per task; a new thread starts clean; operations return and a missed activation is made up for (liveness) |
| schedules | 2 tasks, 1 interrupt, 7 start conditions | pending tasks are counted, timers and lists agree with the registrations; timers start their tasks (liveness) |
| schedules_expiry | the same, expiries at any time | violation, section 6 |
| dations | 3 tasks on one dation, 2 of them controlled by a fourth | one user, the dation is not lost, the queue is right; operations return (liveness) |
| console | 3 tasks, 2 priorities, an operator; one task is suspended, continued, terminated and activated anywhere | lists and states agree; the last one who could start the next writer does so; a writer of the best priority gets its turn (liveness) |
| console_line | 2 characters of one and two bytes, lines up to 4 | bounds, terminal, refinement of LineEditor |

**Bounds.** Three tasks give a running task and two that wait in one queue, so that
order, overtaking and the second candidate of a scan occur; BoltUsers has four, for
two readers and a writer that wait behind another task. Two priorities give "better",
"equal" and "worse". Two semaphores or bolts give lists that overlap, include each
other or repeat an element. The 32 bit limits `MaxValue`, `MaxEnters` are 2, so they
are reached. `MaxLength` 4 with three semaphores gives every list with a repetition
before and behind the element at which a loop stops. `Threads` is a pool as large as
the set of tasks; `directActivate` takes a free one. With a second thread for one
task (section 6) it might be too small, but `OneThread` shows that this does not happen
in the programs checked. A thread that `terminateMySelf` starts for a missed activation
releases `activateDone`, for which nobody waits; `MaxAcks` bounds how many of these
acknowledgements pile up before `timedActivate` misses no further activation.
Schedules has counts 1, 2 and eternal, with and without an interrupt in front. In Dations
three users give one inside and two of different priority behind it. In Console (`Disturbed`)
one of three tasks is disturbed, so that one at work, one woken and one queued meet; the
proofs have any number. ConsoleLine needs
lines of four: only then does an insertion behind the first character shift two of them.

**What the instances leave out.** Each restriction names behaviour for which the
properties fail; section 6 tells what happens then.

- semaphore: RELEASE names one semaphore at a time. bolt, bolt_users: no task blocked with
  ENTER is suspended.
- tasking: each target is controlled by one task. `OperationsReturn` excepts targets that
  block or suspend themselves, where TERMINATE and SUSPEND may wait for ever.
- schedules: `Assumed` has four assumptions. *prompt*: an expiry is treated before the
  next operation begins and not during a trigger (violated in schedules_expiry). *tidy*: a
  RESUME with an interrupt is executed by a task that is not registered for a continuation.
  *apart*: nobody works on an interrupt while it is being triggered, or schedules a
  continuation of the task that the trigger is continuing. *unmissed*: no task is terminated by
  TERMINATE while an activation it has missed is still to be made up for.
- dations: there is one controller, and a suspended task is terminated only where its state
  tells where it is (`Orderly`; `TerminateAnywhere` lifts this). `OperationsReturn` excepts
  three waits, `Crossed`, `Behind` and `Gone`.
- console: no task is started by a timer, so none misses an activation. `HandedOn` names two
  steps after which nobody may be left to start the next writer: a line for a default task
  that does not wait, and the end of a task that has, or gets, its turn. `WritersServed`
  excepts that such steps, or suspensions of a task that has been woken, happen again and
  again, and that `mutexTasks` has been left locked.
- console_line: nothing is said after an insertion at the beginning of a line with text
  (`InsertWraps`).

The runs tasking, schedules, dations, console and console_line switch off the deadlock check: the
program may stop in a TERMINATE that does not return, end with its last task, have all
users ended or waiting for a suspended one, have lost `mutexTasks` to a signal, or have crashed. The others keep it.

**Symmetry** (permutations of tasks) is used in all runs of MCSemaphore, MCBolt and MCBoltUsers, which
check safety only and have the same initial priority for all tasks.

**Fairness.** SemaphoreMutex: only that a task with the resource executes its
RELEASE; nobody has to ask, nor to continue a suspended task. Tasking: the operating
system schedules every thread (weak fairness of the statements of the program).
Threads that wait for `mutexTasks` while it is again and again free get it (strong
fairness of the steps of the run-time system): they wait at the highest thread
priority (`switchToThreadPrioMax`, `runtime/doc/task.tex:59-60`). `OverrunMadeUp`
also needs that a body that may end again and again ends some time. Schedules: an armed
timer expires, and the signal thread and a triggering thread go on at the same priority.
Dations: the same for the threads of users and controllers, and every transfer comes to its
end. Console: only weak fairness of the tasks' and the console thread's steps; nothing is
assumed of the operator.

## 5. Theorems

All are for any sets of tasks, semaphores, bolts or interrupts, priorities, lists and start
conditions, and for lines of any length.

| Theorem | Statement | Assumes |
|---|---|---|
| `SemaphoreInvariant` | values in range; the queue holds exactly the blocked tasks, each once, sorted | |
| `SemaphoreNoMissedWakeup` | no task waits for resources that are all there | each RELEASE names one semaphore |
| `SemaphoreGrantsByPriority` | a task that stops waiting overtakes none that could have been served | each RELEASE names one semaphore |
| `MutexOneHolder` | a semaphore of value one excludes | the program is request - use - release (`MutexAssumption`) |
| `BoltInvariant` | types, queue, order; a bolt is entered exactly as long as its count, within its bits, is positive | no task blocked with ENTER is suspended |
| `BoltReserveServed` | a RESERVE that becomes possible is served | the same |
| `BoltSharedOrExclusive` | a writer is alone | the same, and the program is enter/reserve - use - leave/free (`UsersAssumption`) |
| `BoltHandedOn` | nobody waits for a bolt that is free | the same as `BoltSharedOrExclusive` |
| `TaskingTypes`, `TaskingOneThread` | types, no acknowledgement is taken that was not given; a task has one thread, unless a timer activates it | every program is `Orderly`, below |
| `TaskingLock` | `mutexTasks`, locked by one thread and unlocked by another, is neither lost nor unlocked twice | the same |
| `TaskingCleanStart` | a new thread finds nothing that was meant for an earlier activation of its task | the same |
| `ScheduleLists` | the linked lists of an interrupt hold exactly the registered tasks, each once | *tidy* (section 4) |
| `ScheduleTypes` | types; no count is negative but that of an eternal timer | `Prepared`, below |
| `ScheduleTimers` | a timer counts on exactly while it is armed or an expiry is under way | the same |
| `SchedulePending` | `nbrPendingTasks` counts the tasks that are active, scheduled or about to be started | the same |
| `ScheduleEnd` | the program does not end while a task is active | the same |
| `ConsoleTypes`, `ConsoleLists` | types; the lists of the console are the waiting tasks, each in one | |
| `ConsoleHandedOn` | the last one who could start the next writer does not leave without having done so, but for two named steps | |
| `ConsoleLineInvariant` | cursor, text and buffer within their bounds; the terminal shows the line | |
| `ConsoleLineTypes` | cursor, text and buffer within their bounds | |
| `ConsoleLineEdits` | treatLine() and compress() implement LineEditor | |
| `DationTypes`, `DationOneUser` | types; at most one task uses the dation | one task controls the others |
| `DationQueue` | the queue holds exactly the tasks that wait for the dation, in the order of their priorities | the same |
| `DationNotLost` | the dation is busy exactly while a task has it | the same, and a suspended task is terminated only where its state tells where it is (`~TerminateAnywhere`) |

The constants' assumptions are the ASSUMEs of the modules: priorities are integers,
lists are bags, the limits are natural numbers, presets do not exceed them. What a client
module assumes beyond that is a definition (`MutexAssumption`, `UsersAssumption`), a
hypothesis of its theorem and an ASSUME of its MC module, so that TLC evaluates it. Without
the restriction on suspended ENTERs `WriterAlone` is false, as TLC shows with
ENTER in `SuspendedOps`.

A program of Tasking is `Orderly` if each task is suspended, continued or terminated by one
other task (or the timer, not both) besides itself, one that is terminated is activated by
the same, and a task that a timer activates neither controls nor is controlled. Each part is
needed, see *Tasking* in section 6: two tasks that continue a third both unlock `mutexTasks`,
an ACTIVATE by another task than the one that terminates gives a second thread, and a missed
activation lets `terminateMySelf` return. The programs of run tasking are orderly
(`ProgramsOrderly`).

With two tasks that control the others, TLC violates every one of the dation's four
invariants: TERMINATE assigns `taskState` late, when the other task may have activated the
target again; a task that is continued while its i/o is cancelled unlocks twice; a CONTINUE of
a task that is being terminated puts it back into the queue. The last theorem's additional
hypothesis excludes what section 6 reports of terminating a suspended task.

`Prepared` is what the last four theorems about schedules assume: the four assumptions
*prompt*, *tidy*, *apart* and *unmissed* of section 4, no ACTIVATE with a condition that is refused, and
no condition that schedules nothing (no interrupt and no timer, or a count without a timer).
The run schedules satisfies it. Each part is needed: without *prompt* `EndsWithLastTask`
fails (run schedules_expiry), without *unmissed* a task is counted down once for its old body
and once for its new thread, and a refused or empty condition leaves the task counted
although it is neither active nor scheduled (section 6).

*Queue.* `PriorityQueueProofs` shows of `Insert` and `Remove` which elements the result
has, that it stays free of duplicates and sorted. "Sorted" after insert is the
non-trivial one: the stopping condition of the loop looks at two neighbours, and only
in a sorted queue does its first success mean that everything in front is at least as
urgent.

*Tasks.* `TaskInv` (types, `QueueIsBlocked`, `QueueSorted`) is inductive.
Neither part is so alone: order needs that a task to be inserted is not queued
already, and that a task whose priority changes is (or is not) queued, which is what
the agreement with the task states says. `QueueOf` states it for a queue as a value;
SemaphoreProofs and BoltProofs begin with what follows from it for each operation of
TaskBlocking on their variables, and add the steps of their own object.

*No missed wake-up* holds before a RELEASE, so a task that becomes servable needs the
one semaphore that was given. The first servable task in the queue takes at least that one
unit; what remains is at most what was there before, so nobody is servable. With two
semaphores in a list the argument fails, and so does the property.

*Grants* follow from the invariant: the task served is the first servable one in a
sorted queue; one that is continued finds, by `NoMissedWakeup`, nobody servable.

*Bolts.* `Inv` adds to `TaskInv` that a task in state SUSPENDED_BLOCKED waits with
RESERVE, the only case in which `addToWaitQueue()` keeps state and count together.
`AfterOK` shows that the loop of `leaveOrFree()`, wherever it stops, leaves them in
agreement and that the counter does not wrap.

*Exclusion* counts resources: `MutexInv` says that the value and the number of holders
add up to one, also while `release()` hands the resource to a waiting task without the value
ever becoming one. Tasks that wait, suspended or not, hold nothing.

*RESERVE served.* A RESERVE becomes possible only if a bolt of its list becomes possible,
and only LEAVE and FREE do that; with one bolt in the list, the first possible RESERVE in
the queue takes that bolt, which makes every other one that needs it impossible.

*Readers and writers.* `UsersInv` adds to the bolt's `Inv` that the count is the number of
tasks that use it as readers, that it is reserved exactly while one task writes, and that a
waiting task asks for this bolt with what it wants. The hard step is LEAVE and FREE, in
which the users before and after differ by the caller and the tasks that are let in.

*Tasking.* None of the four properties is inductive: whether a step gives the lock back once
depends on where the thread at the other end of the hand-shake is. The invariant `Holds`
therefore has three parts. `Shape` says which threads there are: which task each belongs to,
at most one for each task that no timer activates, and that each controls what its program
lets it control, so that no two control the same task. `Local` relates, for one task, the control block, the place of its
thread and the operation on it: `PlaceOK` where the thread is in each task state,
`RequestOK` which waiters, flags and acknowledgements there are for each operation, `PipeOK`
what is in the pipe. `LockOK` says who has `mutexTasks` when it is taken: a thread that waits
for the activated one, one that terminates a suspended and blocked task, or the task for
which `continueDone` is on its way. A task that a timer activates may have many
acknowledgements that nobody waits for; of it only `Undisturbed` is said. All of them are
predicates of the values of the variables, so a step has two kinds of lemma: that it keeps
`Local` of the one or two tasks it is about, for records alone, and that every other task
sees the same operation and the same place as before.

*Lists of interrupts.* The code has only links, so the invariant `ListInv` says that for each
interrupt there is an injective sequence of tasks of which the head is the first, each link
leads to the next and the last has none, and whose elements are the registered tasks.
Lists of different interrupts share no task because a task is registered at one at most.
Registering puts a task in front, which needs that it is in no list; unregistering takes out
one place and keeps the rest of the sequence. `Walk` shows that the recursive function that
follows the links finds this sequence and then nothing.

*Timers.* `Good` relates the counts of one timer to how it is set and armed: a count other
than one needs a cyclic timer. `ExpiryInv` says where an expiry may be: signalled, read or
loaded, it belongs to a timer with a count that is not zero, and the value that `update()`
has loaded is the one it writes over. This holds because operations begin when all expiries are
treated (`Treated`); then every timer is stopped or armed (`Quiet`), and `cancel()`, `set()`
and `start()` keep it so.

*Pending tasks.* `PendingCounted` is inductive together with `ListInv`, the two timer
invariants and `TriggerInv` (a trigger goes on only while no expiry is under way, and the task
it waits for is suspended and in no list). The lists are needed where a trigger starts tasks:
only if those in the list are the registered ones are they pending already. The expiry of a
timer takes a task from "scheduled" to "under way" to "active" without the count ever being
touched; each operation that changes the count changes the state of exactly one task
(`OperationCounted`). ACTIVATE of a scheduled task first decrements and then increments the
count; that this never reaches zero is because the calling task is pending itself.

*Console.* `ListsMatch` is inductive only together with what each control block says of its
task (`TaskOK`: it is woken only where it waits, one that is suspended and blocked has not
been woken, one that has ended is nowhere), and with the task for which the console thread took
a line, which is in no list any more but still blocked. `HandedOn` is shown step by step: who
was at work, or the console thread, either stays so or calls `startNextWriter()`, after which
the next writer is at work, the operator types or nobody waits and the console is free.

*Dations.* `Local` says what a control block, the place of the task's thread, the statement
that is executed on the task and mutexTasks have to do with each other: where a thread may be
in each state (`PlaceOK`), how many acknowledgements are on their way (`RequestOK`), what is in
the pipe (`PipeOK`), who has the lock (`LockOK`). One lemma for each kind of step shows that
it keeps `Local`, for a record and not for the whole state. `DInv` has it for every task,
together with the queue (the waiting tasks, `QueueOK`) and the owner (`OwnerOK`: busy exactly
if there is one). The step of one task does not disturb the others because what is said of a
task on which no statement is executed does not depend on mutexTasks (`LocalIdle`).

*Line editor.* `Inv` is the type invariant and `ScreenMatches`, which is needed for itself:
`treatLine()` writes from where the terminal's cursor happens to be. `RewriteProperties`
says what writing the rest of the line and going back shows. For the refinement, the text
before and behind the cursor are strings cut out of the array; each key's shift of the array
is matched with Append, Tail or SubSeq. The loop of `compress()` has the invariant
`Progress`: after i characters at most 2i bytes are written, they are the bytes of these
characters, and those from 2i on are untouched, so reading is never behind writing. The
recursive functions of both sides are shown to exist (`Recursion`), and the loop is proved
by the induction `UpTo`, which rests on the least element of a set of naturals.

**Only model-checked:** liveness (fairness and ENABLED are out of the prover's reach), the
refinement of the links (it follows the links with a recursive operator), and the loops
over lists. In Schedules and Tasking this leaves the liveness properties.

## 6. Where code and documents disagree

Shown by a run:

- *schedules_expiry.* `linux/TaskTimer.cc:292`, `TaskTimerCommon.cc:25`: `update()` neither
  looks whether the timer was cancelled nor takes `mutexTasks`. An expiry that is queued or
  read when PREVENT cancels the timer still starts the task, which is not counted any more
  (a counted one leaves the count at -1, eternally); the end of another task, or an ACTIVATE
  that takes the stopped timer for a schedule and decrements first, then ends the program. `TaskMonitor.h:87`: "Pending tasks are ether running or scheduled".

Seen while modelling; the models have them as the code does, and the instances of section 4
stay clear of them:

*Semaphores and bolts.*

- `Semaphore.cc:214` goes on with `getNext(t)` after `remove(t)` has cleared the link of t:
  a RELEASE of a list unblocks at most one task. `Semaphore.h:64`: "all
  blocked tasks are checked". With a list of two in `ReleaseLists`, `NoMissedWakeup` fails.
- `Bolt.cc:361` does not count a continued ENTER; a later LEAVE frees the bolt and a writer
  gets it beside the reader. Language report 1709: modification and use "mutually exclude
  each other". With ENTER in `SuspendedOps`, `WriterAlone` fails.
- `Bolt.cc:125`: ENTER passes while a RESERVE waits (language report 1763).
- `Bolt.cc:335`: FREE lets one waiting ENTER in, not all (language report 1756-1757);
  `Bolt.cc:323`: none if a RESERVE for another bolt waits.

*Tasking.*

- Two tasks that continue the same task both unlock `mutexTasks` (`linux/Task.cc:162`);
  `TaskCommon.cc:114` reports that as an error. With a second controller `LockHandedOver`
  fails.
- `TaskCommon.cc:475` waits with `mutexTasks` locked for a task that needs it;
  `doc/task.tex:25`: the mutex is "unlocked at the end of the operation".
- `TaskCommon.cc:412`: a blocked task is TERMINATED before its thread has ended; an
  ACTIVATE in between, by another task, gives it a second thread (language report 769).
- `linux/Task.cc:584`: with a missed activation pending `terminateMySelf` returns. At the end
  of a body that is harmless; after TERMINATE the old body goes on beside the new thread. One
  terminated in `scheduleCallback` unlocks `mutexTasks` once more (`linux/Task.cc:357`), who
  terminated it writes TERMINATED over the new thread's state (`TaskCommon.cc:510`), and both
  ends are counted by `decPendingTasks` (`GoesOnBeside`). Language report 782-785: a task is
  terminated by "a statement to terminate tasks".
- `Semaphore.cc:146`: a TERMINATE or SUSPEND that comes just before its target blocks or
  suspends itself waits until that is over (`doc/task.tex:61-66`).
- `linux/Task.cc:221`: two tasks that suspend each other both wait for ever.

*Schedules.*

- `Interrupt.cc:86`: while `trigger()` waits for a task it continues, `mutexTasks` is free;
  a task that then executes a WHEN schedule on this interrupt takes it and waits for
  `mutexOfInterrupt`, and nothing goes on (`Hang`). `Interrupt.h:58`: "The complete trigger
  sequence is done while the tasks mutex is locked".
- `Interrupt.cc:86`, `TaskCommon.cc:796`: the continuation of a task that has ended throws
  out of `trigger()` with `mutexOfInterrupt` locked. Language report 946: "executing a
  scheduled CONTINUE never induces a signal".
- `TaskCommon.cc:1003`: a refused AFTER throws with `mutexTasks` locked and the task counted.
- `TaskTimerCommon.cc:64`: AFTER 0 SEC ACTIVATE starts nothing, and the task stays pending;
  `TaskTimerCommon.cc:84`: so does AT the very present moment, with a count of one and no timer
  armed, so that a later ACTIVATE takes the task for scheduled.
- `TaskCommon.cc:923`: RESUME with an interrupt does not clear the count of an expired timer;
  the trigger then starts this timer instead of continuing the task.
- `TaskCommon.cc:940`: RESUME of a task that is registered already makes the list cyclic.
- `TaskCommon.cc:869`, `:1006`: a new AFTER does not unregister an old WHEN of an ACTIVATE,
  a new WHEN does not stop a running timer (language report 468-488: the schedule is replaced).

*Dations.*

- `UserDation.h:70`: "The call of endSequence() in the catch handler enshures proper
  unlocking". A task that was suspended in the callback of `beginSequence` and is terminated
  there leaves by `pthread_exit` without it, and `isBusy` stays set.
- `UserDation.cc:161`: waiting for `mutexTasks` with `mutexUserDation` locked, while the
  controller keeps `mutexTasks` until a task answers that waits for `mutexUserDation`
  (`Crossed`).
- `TaskCommon.cc:648`: SUSPEND that meets a task at the end of its i/o statement marks it
  SUSPENDED_BLOCKED in i/o, without `mutexTasks`; CONTINUE makes it BLOCKED outside i/o, and
  a later SUSPEND or TERMINATE signals a thread for ever that does no i/o, or has ended (`Gone`).
- `TaskCommon.cc:491`: TERMINATE of a task suspended in the queue induces InternalTaskSignal
  with the request flag and the waiter left behind and `mutexTasks` locked.
- `UserDation.cc:163` resets the RST pointer before it knows whether the dation is busy, so
  that the error of another task's statement is not stored.

*Console.*

- `ConsoleCommon.cc:460`: a command, or a line for nobody, starts the next writer while
  another one is at work. `doc/inOutput.tex:325`: i/o statements "should not intermix".
- `ConsoleCommon.cc:453`: after a line for a default task that does not wait no writer is
  started; `ConsoleCommon.h:112-115`: the next one resumes "at completion of an input
  processing".
- `UserDation.cc:209`: a task that is terminated after it was woken ends in `beginSequence`
  without `endSequence`; `writerInProgress` stays set, and queued writers wait until the next
  line or the end of a read (`UserDation.h:70`, above). One that is suspended there keeps the
  console until it is continued.
- `ConsoleCommon.cc:580`: TERMINATE of a task in console i/o that is blocked but in neither list
  induces InternalTaskSignal, but the request stays set, and so does the waiter. SUSPEND of
  such a task, and CONTINUE of any blocked one (`TaskCommon.cc:770`), throw with `mutexTasks`
  locked for ever.
- `linux/Console.cc:55`: the console thread goes back to `treatLine()` at once; there is one
  buffer, and what the operator types before the reader has read overwrites its line.
- `ConsoleCommon.cc:249`: inserting at position 0 of a line with text counts an unsigned index
  below zero and overwrites the memory in front.
- `ConsoleCommon.cc:165`: ESC and a character that is neither [ nor O treats the character
  before once more, at the beginning of a line one without a value.
- `ConsoleCommon.cc:364`: the search for the second colon goes on behind it, and a further
  colon in the text is taken for the end of a name, too.
- `linux/Console.cc:165`: the index of the source advances by two for each byte of a read.

## 7. Not modelled, and the plan

Out of scope: formats, data types, signals, logging, drivers, the priority table (sequential
code or system calls, well reached by tests), the compiler, the inter module checker,
and the FreeRTOS thread level (a second implementation; the models follow linux). Most of the
repository's lines are of these kinds, or are vendored (chanFatFs, CMSIS, googletest).
Of the modelled parts are left out: OPEN and CLOSE of dations, the TFU buffers, and a task
that meets two of the modules at once (a schedule and i/o).

Next: the index arithmetic of dations (`DationDim`), and the deadlock detection.
