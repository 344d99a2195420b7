----------------------------- MODULE Schedules -----------------------------
(***************************************************************************)
(* Scheduled ACTIVATE, CONTINUE and RESUME: the timers of a task           *)
(* (runtime/common/TaskTimerCommon.cc, runtime/linux/TaskTimer.cc), the    *)
(* interrupts and their lists of tasks (runtime/common/Interrupt.cc), the  *)
(* count of pending tasks that ends the program (runtime/linux/            *)
(* TaskMonitor.cc) and the operations of TaskCommon.cc on them.            *)
(*                                                                         *)
(* An operation runs under mutexTasks and is one step; the hand-shakes     *)
(* inside are those of module Tasking.  Two things are not so: the signal  *)
(* thread counts an expiry without mutexTasks, and trigger() gives it back *)
(* while it waits for a task it continues, with mutexOfInterrupt locked.   *)
(*                                                                         *)
(* Left out: priorities and the BLOCKED states (a scheduled CONTINUE does  *)
(* nothing in BLOCKED; SUSPENDED_BLOCKED is continued without waiting).    *)
(* And what follows once a task has two threads: mutexTasks may then have  *)
(* been unlocked twice, and an operation is not one step any more.         *)
(***************************************************************************)
EXTENDS Integers, FiniteSets

CONSTANTS
    Tasks,
    Main,                \* the task that is active from the start
    Interrupts,
    None,                \* no task, no interrupt, no timer
    ActivateConditions,  \* the start conditions of ACTIVATE,
    ContinueConditions,  \* ... of CONTINUE,
    ResumeConditions,    \* ... and of RESUME: sets of <<task, condition>>
    Assumed              \* what is assumed of the program and its timing, below

Kinds == {"activate", "continue"}

\* counts: number of expiries, -1 is eternally.
Counts == Nat \cup {-1}

\* A start condition.  its is what setTimer() makes of AT, AFTER and ALL: no
\* timer (only WHEN, AFTER 0, or AT the present moment), one expiry, or a cyclic
\* one; "negative" is an AFTER that set() refuses.
Condition ==
    {c \in [when : Interrupts \cup {None},
            its : {"none", "once", "cyclic", "negative"}, counts : Counts] :
       /\ c.its = "none" => c.counts \in {0, 1}
       /\ c.its = "once" => c.counts = 1
       /\ c.its = "cyclic" => c.counts # 0}

ASSUME SchedulesAssumption ==
    /\ IsFiniteSet(Tasks)
    /\ Main \in Tasks
    /\ None \notin Tasks \cup Interrupts \cup Kinds \X Tasks
    /\ ActivateConditions \cup ContinueConditions \cup ResumeConditions
         \subseteq Tasks \X Condition
    /\ Assumed \subseteq {"prompt", "tidy", "apart", "unmissed"}

VARIABLES
    taskState, schedActivateOverrun,
    timer,            \* the timers by kind and task
    signals,          \* the queued signals of expired timers
    signalThread,     \* what the signal thread does
    when,             \* by kind and task: the interrupt registered at, if any
    queue,            \* by kind: the lists of the interrupts, linked through the tasks
    isEnabled,
    trigger,          \* where trigger() of an interrupt is; it has mutexOfInterrupt
    mutexTasks,       \* FALSE: locked
    nbrPendingTasks,
    exited,           \* the last task has ended the program
    beside            \* TRUE: an old body goes on beside the new thread of its task

taskVars == <<taskState, schedActivateOverrun>>
timerVars == <<timer, signals, signalThread>>
interruptVars == <<when, queue, isEnabled, trigger>>
monitorVars == <<nbrPendingTasks, exited, beside>>
vars == <<taskVars, timerVars, interruptVars, mutexTasks, monitorVars>>

TaskOrNone == Tasks \cup {None}

\* its, armed: as in a condition; armed is what the operating system has.
Timer == [counts : Counts, countsBackup : Counts,
          its : {"none", "once", "cyclic"}, armed : {"none", "once", "cyclic"}]

\* What the operating system knows a timer by.
TimerId == Kinds \X Tasks

Idle == [at |-> "idle", on |-> None, counts |-> 0]

Init ==
    /\ taskState = [t \in Tasks |-> IF t = Main THEN "RUNNING" ELSE "TERMINATED"]
    /\ schedActivateOverrun = [t \in Tasks |-> FALSE]
    /\ timer = [k \in Kinds |-> [t \in Tasks |->
                  [counts |-> 0, countsBackup |-> 0, its |-> "none", armed |-> "none"]]]
    /\ signals = {}
    /\ signalThread = Idle
    /\ when = [k \in Kinds |-> [t \in Tasks |-> None]]
    /\ queue = [k \in Kinds |-> [head |-> [i \in Interrupts |-> None],
                                 next |-> [t \in Tasks |-> None]]]
    /\ isEnabled = [i \in Interrupts |-> FALSE]
    /\ trigger = [i \in Interrupts |-> [at |-> "idle", on |-> None]]
    /\ mutexTasks = TRUE
    /\ nbrPendingTasks = 1
    /\ exited = FALSE
    /\ beside = FALSE

-----------------------------------------------------------------------------
\* The timer: what its methods make of it.
Set(r, c) == [r EXCEPT !.its = c.its, !.countsBackup = c.counts]

Start(r) == [r EXCEPT !.counts = r.countsBackup,
                      !.armed = IF r.its = "none" THEN @ ELSE r.its]

\* Faulty variant: the timer of the operating system goes on.
StopCount(r) == [r EXCEPT !.counts = 0]

Stop(r) == [r EXCEPT !.counts = 0, !.armed = "none"]

Cancel(r) == [Stop(r) EXCEPT !.countsBackup = 0]

IsActive(r) == r.counts # 0

IsSet(r) == r.countsBackup # 0

-----------------------------------------------------------------------------
\* The lists of an interrupt; l is one of the two values of queue.

\* The task at place n of the list of interrupt i, beginning with 0.
TaskAt(l, i) ==
    LET walk[n \in 0 .. Cardinality(Tasks)] ==
            IF n = 0 THEN l.head[i]
            ELSE IF walk[n-1] = None THEN None ELSE l.next[walk[n-1]]
    IN  walk

Listed(l, i) == {TaskAt(l, i)[n] : n \in 0 .. Cardinality(Tasks)} \ {None}

Register(l, i, t) == [l EXCEPT !.next[t] = l.head[i], !.head[i] = t]

\* Faulty variant: the tasks in front are dropped with t.
UnregisterHead(l, i, t) == IF t \in Listed(l, i) THEN [l EXCEPT !.head[i] = l.next[t]] ELSE l

Unregister(l, i, t) ==
    LET places == {n \in 0 .. Cardinality(Tasks) : TaskAt(l, i)[n] = t}
        first == CHOOSE n \in places : \A x \in places : n <= x
    IN  IF places = {} THEN l
        ELSE IF first = 0 THEN [l EXCEPT !.head[i] = l.next[t]]
        ELSE [l EXCEPT !.next[TaskAt(l, i)[first - 1]] = l.next[t]]

\* The list of kind k without t, if t is registered.
Without(k, t) ==
    IF when[k][t] = None THEN queue[k] ELSE Unregister(queue[k], when[k][t], t)

Locked(i) == i # None /\ trigger[i].at # "idle"

-----------------------------------------------------------------------------
\* The four assumptions.  An expiry is treated before the next operation begins
\* and while no trigger() is going on.
Settled == "prompt" \in Assumed => signals = {} /\ signalThread = Idle

\* A task that waits for an interrupt is not registered for a continuation.
Tidy(t) == "tidy" \in Assumed => when["continue"][t] = None

\* No task that has missed an activation is terminated by TERMINATE.
Unmissed(t) == "unmissed" \in Assumed => ~schedActivateOverrun[t]

\* Nobody works on an interrupt while it is being triggered, or schedules a
\* continuation of the task that it continues.
Apart(i) == "apart" \in Assumed => ~Locked(i)

\* The continuation of t is under way; what a second one does is module Tasking's.
BeingContinued(t) == \E i \in Interrupts : trigger[i] = [at |-> "waiting", on |-> t]

\* The program runs, and each task has one thread.
Runs == ~exited /\ ~beside

\* Some task executes a statement.
Statement ==
    /\ Runs /\ mutexTasks /\ Settled
    /\ \E me \in Tasks : taskState[me] = "RUNNING"

\* A thread with mutexTasks waits for mutexOfInterrupt, whose owner waits for a
\* task that waits for mutexTasks.
Hang ==
    /\ mutexTasks' = FALSE
    /\ UNCHANGED <<taskVars, timerVars, interruptVars, monitorVars>>

IncPendingTasks ==
    /\ nbrPendingTasks' = nbrPendingTasks + 1
    /\ UNCHANGED <<exited, beside>>

DecPendingTasks ==
    /\ nbrPendingTasks' = nbrPendingTasks - 1
    /\ exited' = (nbrPendingTasks - 1 = 0)
    /\ UNCHANGED beside

Scheduled(t) == IsActive(timer["activate"][t]) \/ when["activate"][t] # None

-----------------------------------------------------------------------------
\* ACTIVATE without a condition replaces a schedule.
Activate(t) ==
    /\ Statement
    /\ taskState[t] = "TERMINATED"
    /\ Apart(when["activate"][t])
    /\ IF Locked(when["activate"][t]) THEN Hang ELSE
        /\ IF Scheduled(t)
           THEN /\ timer' = [timer EXCEPT !["activate"][t] = Cancel(@)]
                /\ exited' = (nbrPendingTasks - 1 = 0)
                /\ UNCHANGED <<nbrPendingTasks, beside>>
           ELSE IncPendingTasks /\ UNCHANGED timer
        /\ queue' = [queue EXCEPT !["activate"] = Without("activate", t)]
        /\ when' = [when EXCEPT !["activate"][t] = None]
        /\ taskState' = [taskState EXCEPT ![t] = "RUNNING"]
        /\ UNCHANGED <<schedActivateOverrun, signals, signalThread, isEnabled, trigger, mutexTasks>>

\* scheduledActivate(): the task becomes pending unless it is so already.  Where
\* set() throws nobody unlocks mutexTasks.
ScheduleActivate(t, c) ==
    LET l == Without("activate", t) IN
    /\ Statement
    /\ <<t, c>> \in ActivateConditions
    /\ c.when # None => Apart(when["activate"][t]) /\ Apart(c.when)
    /\ IF c.when # None /\ (Locked(when["activate"][t]) \/ Locked(c.when)) THEN Hang ELSE
        /\ IF Scheduled(t) \/ taskState[t] # "TERMINATED" THEN UNCHANGED monitorVars
                                                          ELSE IncPendingTasks
        /\ IF c.its = "negative"
           THEN mutexTasks' = FALSE /\ UNCHANGED <<timer, when, queue>>
           ELSE IF c.when # None
           THEN /\ timer' = [timer EXCEPT !["activate"][t] = Set(@, c)]
                /\ queue' = [queue EXCEPT !["activate"] = Register(l, c.when, t)]
                /\ when' = [when EXCEPT !["activate"][t] = c.when]
                /\ UNCHANGED mutexTasks
           ELSE /\ timer' = [timer EXCEPT !["activate"][t] = Start(Set(@, c))]
                /\ UNCHANGED <<queue, when, mutexTasks>>
        /\ UNCHANGED <<taskVars, signals, signalThread, isEnabled, trigger>>

\* Faulty variant: the task is not pending any more, even if it is active.
PreventUncounted(t) ==
    /\ Statement
    /\ \A k \in Kinds : ~Locked(when[k][t])
    /\ timer' = [k \in Kinds |-> [timer[k] EXCEPT ![t] = Cancel(@)]]
    /\ queue' = [k \in Kinds |-> Without(k, t)]
    /\ when' = [k \in Kinds |-> [when[k] EXCEPT ![t] = None]]
    /\ IF Scheduled(t) THEN DecPendingTasks ELSE UNCHANGED monitorVars
    /\ UNCHANGED <<taskVars, signals, signalThread, isEnabled, trigger, mutexTasks>>

\* PREVENT
Prevent(t) ==
    /\ Statement
    /\ \A k \in Kinds : Apart(when[k][t])
    /\ IF \E k \in Kinds : Locked(when[k][t]) THEN Hang ELSE
        /\ timer' = [k \in Kinds |-> [timer[k] EXCEPT ![t] = Cancel(@)]]
        /\ queue' = [k \in Kinds |-> Without(k, t)]
        /\ when' = [k \in Kinds |-> [when[k] EXCEPT ![t] = None]]
        /\ IF taskState[t] = "TERMINATED" /\ Scheduled(t)
           THEN DecPendingTasks ELSE UNCHANGED monitorVars
        /\ UNCHANGED <<taskVars, signals, signalThread, isEnabled, trigger, mutexTasks>>

-----------------------------------------------------------------------------
\* terminateMySelf() of a task that has missed no activation.
Ended(t) ==
    /\ taskState' = [taskState EXCEPT ![t] = "TERMINATED"]
    /\ IF Scheduled(t) THEN UNCHANGED monitorVars ELSE DecPendingTasks
    /\ UNCHANGED schedActivateOverrun

\* It starts the new thread for a missed activation, and returns.
Restarted(t) ==
    /\ taskState' = [taskState EXCEPT ![t] = "RUNNING"]
    /\ schedActivateOverrun' = [schedActivateOverrun EXCEPT ![t] = FALSE]

\* The body has ended: what terminateMySelf() returns to ends, too.
End(t) ==
    /\ Runs /\ mutexTasks /\ Settled
    /\ taskState[t] = "RUNNING"
    /\ IF schedActivateOverrun[t] THEN Restarted(t) /\ UNCHANGED monitorVars ELSE Ended(t)
    /\ UNCHANGED <<timerVars, interruptVars, mutexTasks>>

\* The old body goes on.  Who terminated the task notes TERMINATED, before or after the
\* new thread notes RUNNING.
GoesOnBeside(t) ==
    /\ \/ Restarted(t)
       \/ /\ taskState' = [taskState EXCEPT ![t] = "TERMINATED"]
          /\ schedActivateOverrun' = [schedActivateOverrun EXCEPT ![t] = FALSE]
    /\ beside' = TRUE
    /\ UNCHANGED <<nbrPendingTasks, exited>>

\* TERMINATE, of the own task or of another one.
Terminate(t) ==
    /\ Statement
    /\ taskState[t] = "RUNNING" \/ (taskState[t] = "SUSPENDED" /\ ~BeingContinued(t))
    /\ Unmissed(t)
    /\ IF schedActivateOverrun[t] THEN GoesOnBeside(t) ELSE Ended(t)
    /\ UNCHANGED <<timerVars, interruptVars, mutexTasks>>

Suspend(t) ==
    /\ Statement
    /\ taskState[t] = "RUNNING"
    /\ taskState' = [taskState EXCEPT ![t] = "SUSPENDED"]
    /\ UNCHANGED <<schedActivateOverrun, timerVars, interruptVars, mutexTasks, monitorVars>>

\* CONTINUE without a condition cancels the schedule, also where it then induces
\* TaskTerminatedSignal.
Continue(t) ==
    /\ Statement
    /\ ~BeingContinued(t)
    /\ Apart(when["continue"][t])
    /\ IF Locked(when["continue"][t]) THEN Hang ELSE
        /\ queue' = [queue EXCEPT !["continue"] = Without("continue", t)]
        /\ when' = [when EXCEPT !["continue"][t] = None]
        /\ timer' = [timer EXCEPT !["continue"][t] = Cancel(@)]
        /\ taskState' = [taskState EXCEPT ![t] = IF @ = "SUSPENDED" THEN "RUNNING" ELSE @]
        /\ UNCHANGED <<schedActivateOverrun, signals, signalThread, isEnabled, trigger,
                       mutexTasks, monitorVars>>

\* CONTINUE with a condition; it replaces the registration, not a running timer.
\* A negative AFTER is refused with the registration gone.
ScheduleContinue(t, c) ==
    LET l == Without("continue", t)
        refused == c.its = "negative"
        set == IF refused THEN timer["continue"][t] ELSE Set(timer["continue"][t], c)
    IN
    /\ Statement
    /\ <<t, c>> \in ContinueConditions
    /\ Apart(when["continue"][t]) /\ Apart(c.when)
    /\ "apart" \in Assumed => ~BeingContinued(t)
    /\ IF Locked(when["continue"][t]) \/ Locked(c.when) THEN Hang ELSE
        /\ queue' = [queue EXCEPT !["continue"] =
                       IF refused \/ c.when = None THEN l ELSE Register(l, c.when, t)]
        /\ when' = [when EXCEPT !["continue"][t] = IF refused THEN None ELSE c.when]
        /\ timer' = [timer EXCEPT !["continue"][t] =
                       IF refused \/ c.when # None THEN set ELSE Start(set)]
        /\ UNCHANGED <<taskVars, signals, signalThread, isEnabled, trigger, mutexTasks,
                       monitorVars>>

\* RESUME with an interrupt looks neither whether the task is registered nor whether
\* an old timer is set.  AFTER 0 is no operation, a negative duration is refused.
Resume(me, c) ==
    LET set == Set(timer["continue"][me], c) IN
    /\ Statement
    /\ taskState[me] = "RUNNING"
    /\ <<me, c>> \in ResumeConditions
    /\ \/ /\ c.when # None
          /\ Tidy(me) /\ Apart(c.when)
          /\ IF Locked(c.when) THEN Hang ELSE
              /\ timer' = [timer EXCEPT !["continue"][me] = IF IsActive(@) THEN Cancel(@) ELSE @]
              /\ queue' = [queue EXCEPT !["continue"] = Register(@, c.when, me)]
              /\ when' = [when EXCEPT !["continue"][me] = c.when]
              /\ taskState' = [taskState EXCEPT ![me] = "SUSPENDED"]
              /\ UNCHANGED <<schedActivateOverrun, signals, signalThread, isEnabled, trigger,
                             mutexTasks, monitorVars>>
       \/ /\ c.when = None /\ c.its = "once"
          /\ Apart(when["continue"][me])
          /\ IF Locked(when["continue"][me]) THEN Hang ELSE
              /\ timer' = [timer EXCEPT !["continue"][me] = Start(set)]
              /\ queue' = [queue EXCEPT !["continue"] = Without("continue", me)]
              /\ when' = [when EXCEPT !["continue"][me] = None]
              /\ taskState' = [taskState EXCEPT ![me] = "SUSPENDED"]
              /\ UNCHANGED <<schedActivateOverrun, signals, signalThread, isEnabled, trigger,
                             mutexTasks, monitorVars>>

-----------------------------------------------------------------------------
\* A timer of the operating system expires; there is one signal for each timer.
Expire(k, t) ==
    /\ Runs
    /\ timer[k][t].armed # "none"
    /\ "prompt" \in Assumed =>
         /\ \A i \in Interrupts : trigger[i].at \in {"idle", "thrown"}
         /\ signalThread.on = <<k, t>> => signalThread.at = "callback"
    /\ signals' = signals \cup {<<k, t>>}
    /\ timer' = [timer EXCEPT ![k][t].armed = IF @ = "once" THEN "none" ELSE @]
    /\ UNCHANGED <<taskVars, signalThread, interruptVars, mutexTasks, monitorVars>>

ReadSignal ==
    /\ Runs
    /\ signalThread.at = "idle"
    /\ \E x \in signals :
         /\ signals' = signals \ {x}
         /\ signalThread' = [at |-> "update", on |-> x, counts |-> 0]
    /\ UNCHANGED <<taskVars, timer, interruptVars, mutexTasks, monitorVars>>

\* Faulty variant: the expiry of an eternal timer is not passed on.
LoadCountsDropped ==
    LET r == timer[signalThread.on[1]][signalThread.on[2]] IN
    /\ Runs
    /\ signalThread.at = "update"
    /\ signalThread' = IF r.counts < 0 THEN Idle
                       ELSE [signalThread EXCEPT !.at = "store", !.counts = r.counts]
    /\ UNCHANGED <<taskVars, timer, signals, interruptVars, mutexTasks, monitorVars>>

\* Faulty variant: an eternal timer is counted down, too.
LoadCountsAlways ==
    LET r == timer[signalThread.on[1]][signalThread.on[2]] IN
    /\ Runs
    /\ signalThread.at = "update"
    /\ signalThread' = [signalThread EXCEPT !.at = "store", !.counts = r.counts]
    /\ UNCHANGED <<taskVars, timer, signals, interruptVars, mutexTasks, monitorVars>>

\* update() reads counts and writes it back without mutexTasks.
LoadCounts ==
    LET r == timer[signalThread.on[1]][signalThread.on[2]] IN
    /\ Runs
    /\ signalThread.at = "update"
    /\ signalThread' = IF r.counts < 0
                       THEN [signalThread EXCEPT !.at = "callback"]
                       ELSE [signalThread EXCEPT !.at = "store", !.counts = r.counts]
    /\ UNCHANGED <<taskVars, timer, signals, interruptVars, mutexTasks, monitorVars>>

Counted(r, c) == IF c = 1 THEN Stop(r) ELSE [r EXCEPT !.counts = c - 1]

StoreCounts ==
    LET k == signalThread.on[1]
        t == signalThread.on[2]
    IN  /\ Runs
        /\ signalThread.at = "store"
        /\ timer' = [timer EXCEPT ![k][t] = Counted(@, signalThread.counts)]
        /\ signalThread' = [signalThread EXCEPT !.at = "callback"]
        /\ UNCHANGED <<taskVars, signals, interruptVars, mutexTasks, monitorVars>>

\* timedActivate(), also the end of triggeredActivate(): the tasks in ts start, or
\* start again when they end.
StartOrNote(ts) ==
    /\ taskState' = [t \in Tasks |-> IF t \in ts THEN
                        IF taskState[t] = "TERMINATED" THEN "RUNNING" ELSE taskState[t]
                      ELSE taskState[t]]
    /\ schedActivateOverrun' = [t \in Tasks |->
         schedActivateOverrun[t] \/ (t \in ts /\ taskState[t] # "TERMINATED")]

TimedActivate ==
    /\ Runs /\ mutexTasks
    /\ signalThread.at = "callback" /\ signalThread.on[1] = "activate"
    /\ StartOrNote({signalThread.on[2]})
    /\ signalThread' = Idle
    /\ UNCHANGED <<timer, signals, interruptVars, mutexTasks, monitorVars>>

TimedContinue ==
    LET t == signalThread.on[2] IN
    /\ Runs /\ mutexTasks
    /\ signalThread.at = "callback" /\ signalThread.on[1] = "continue"
    /\ ~BeingContinued(t)
    /\ taskState' = [taskState EXCEPT ![t] = IF @ = "SUSPENDED" THEN "RUNNING" ELSE @]
    /\ signalThread' = Idle
    /\ UNCHANGED <<schedActivateOverrun, timer, signals, interruptVars, mutexTasks, monitorVars>>

-----------------------------------------------------------------------------
Enable(i) ==
    /\ Statement /\ ~isEnabled[i]
    /\ isEnabled' = [isEnabled EXCEPT ![i] = TRUE]
    /\ UNCHANGED <<taskVars, timerVars, when, queue, trigger, mutexTasks, monitorVars>>

Disable(i) ==
    /\ Statement /\ isEnabled[i]
    /\ isEnabled' = [isEnabled EXCEPT ![i] = FALSE]
    /\ UNCHANGED <<taskVars, timerVars, when, queue, trigger, mutexTasks, monitorVars>>

\* trigger(), by a device or the statement TRIGGER, locks both mutexes.
Trigger(i) ==
    /\ Runs /\ mutexTasks /\ Settled
    /\ isEnabled[i]
    /\ Apart(i)
    /\ mutexTasks' = FALSE
    /\ trigger' = IF Locked(i) THEN trigger ELSE [trigger EXCEPT ![i].at = "going"]
    /\ UNCHANGED <<taskVars, timerVars, when, queue, isEnabled, monitorVars>>

\* Its first loop: the next task of the continue list is taken out and continued
\* (triggeredContinue).  A suspended one needs mutexTasks to go on; for a terminated
\* one continueFromOtherTask() unlocks mutexTasks and throws.
TriggerContinue(i) ==
    LET t == queue["continue"].head[i]
        r == timer["continue"][t]
    IN
    /\ Runs /\ trigger[i].at = "going" /\ t # None
    /\ queue' = [queue EXCEPT !["continue"].head[i] = queue["continue"].next[t]]
    /\ when' = [when EXCEPT !["continue"][t] = None]
    /\ \/ /\ IsSet(r)
          /\ timer' = [timer EXCEPT !["continue"][t] = Start(@)]
          /\ UNCHANGED <<trigger, mutexTasks>>
       \/ /\ ~IsSet(r)
          /\ trigger' = [trigger EXCEPT ![i] =
               CASE taskState[t] = "SUSPENDED"  -> [at |-> "waiting", on |-> t]
                 [] taskState[t] = "RUNNING"    -> @
                 [] taskState[t] = "TERMINATED" -> [at |-> "thrown", on |-> None]]
          /\ mutexTasks' = (taskState[t] # "RUNNING")
          /\ UNCHANGED timer
    /\ UNCHANGED <<taskVars, signals, signalThread, isEnabled, monitorVars>>

\* The continued task locks mutexTasks for trigger().
Continued(i) ==
    /\ Runs /\ mutexTasks
    /\ trigger[i].at = "waiting"
    /\ taskState' = [taskState EXCEPT ![trigger[i].on] = "RUNNING"]
    /\ trigger' = [trigger EXCEPT ![i] = [at |-> "going", on |-> None]]
    /\ mutexTasks' = FALSE
    /\ UNCHANGED <<schedActivateOverrun, timerVars, when, queue, isEnabled, monitorVars>>

\* Its second loop: all tasks of the activate list, which stay there.
TriggerActivate(i) ==
    LET listed == Listed(queue["activate"], i)
        delayed == {t \in listed : IsSet(timer["activate"][t])}
    IN
    /\ Runs /\ trigger[i].at = "going" /\ queue["continue"].head[i] = None
    /\ timer' = [timer EXCEPT !["activate"] =
                   [t \in Tasks |-> IF t \in delayed THEN Start(@[t]) ELSE @[t]]]
    /\ StartOrNote(listed \ delayed)
    /\ trigger' = [trigger EXCEPT ![i].at = "idle"]
    /\ mutexTasks' = TRUE
    /\ UNCHANGED <<signals, signalThread, when, queue, isEnabled, monitorVars>>

-----------------------------------------------------------------------------
SignalThread ==
    ReadSignal \/ LoadCounts \/ StoreCounts \/ TimedActivate \/ TimedContinue

Triggering(i) == TriggerContinue(i) \/ Continued(i) \/ TriggerActivate(i)

Statements ==
    \/ \E t \in Tasks :
         \/ Activate(t) \/ Prevent(t) \/ Suspend(t) \/ Continue(t)
         \/ End(t) \/ Terminate(t)
    \/ \E x \in ActivateConditions : ScheduleActivate(x[1], x[2])
    \/ \E x \in ContinueConditions : ScheduleContinue(x[1], x[2])
    \/ \E x \in ResumeConditions : Resume(x[1], x[2])
    \/ \E i \in Interrupts : Enable(i) \/ Disable(i)

Next ==
    \/ Statements
    \/ \E k \in Kinds, t \in Tasks : Expire(k, t)
    \/ SignalThread
    \/ \E i \in Interrupts : Trigger(i) \/ Triggering(i)

Spec == Init /\ [][Next]_vars

\* An armed timer expires, the signal thread and a triggering thread go on; both wait
\* for mutexTasks at the highest priority.
FairSpec ==
    /\ Spec
    /\ \A t \in Tasks : SF_vars(Expire("activate", t))
    /\ SF_vars(SignalThread)
    /\ \A i \in Interrupts : SF_vars(Triggering(i))

-----------------------------------------------------------------------------
TypeOK ==
    /\ taskState \in [Tasks -> {"TERMINATED", "RUNNING", "SUSPENDED"}]
    /\ schedActivateOverrun \in [Tasks -> BOOLEAN]
    /\ timer \in [Kinds -> [Tasks -> Timer]]
    /\ signals \subseteq TimerId
    /\ signalThread \in [at : {"idle", "update", "store", "callback"},
                         on : TimerId \cup {None}, counts : Int]
    /\ when \in [Kinds -> [Tasks -> Interrupts \cup {None}]]
    /\ queue \in [Kinds -> [head : [Interrupts -> TaskOrNone], next : [Tasks -> TaskOrNone]]]
    /\ isEnabled \in [Interrupts -> BOOLEAN]
    /\ trigger \in [Interrupts -> [at : {"idle", "going", "waiting", "thrown"}, on : TaskOrNone]]
    /\ mutexTasks \in BOOLEAN
    /\ nbrPendingTasks \in Int
    /\ exited \in BOOLEAN
    /\ beside \in BOOLEAN

UnderWay(k, t) == <<k, t>> \in signals \/ signalThread.on = <<k, t>>

\* nbrPendingTasks, which is changed in five places under different conditions,
\* is the number of tasks that are active or scheduled or about to be started by
\* the signal thread, and the program ends exactly when there are none.
PendingCounted ==
    /\ nbrPendingTasks = Cardinality({t \in Tasks : \/ taskState[t] # "TERMINATED"
                                                   \/ Scheduled(t)
                                                   \/ UnderWay("activate", t)})
    /\ exited <=> nbrPendingTasks = 0

\* The program does not end while a task is active: a pending task is "ether running
\* or scheduled" (decPendingTasks).
EndsWithLastTask == exited => \A t \in Tasks : taskState[t] = "TERMINATED"

\* A timer counts on exactly as long as the operating system has it armed or an
\* expiry is under way: nobody waits for a timer that never expires, and none
\* expires that was cancelled or has come to its end.
ActiveMeansArmed ==
    \A k \in Kinds, t \in Tasks :
        LET r == timer[k][t] IN
        /\ IsActive(r) => r.armed # "none" \/ UnderWay(k, t)
        /\ r.armed # "none" => IsActive(r)

\* The lists of the interrupts, linked through the tasks, have exactly the tasks
\* that are registered, each once; the lists have no tasks in common.
ListsMatch ==
    \A k \in Kinds, i \in Interrupts :
        /\ Listed(queue[k], i) = {t \in Tasks : when[k][t] = i}
        /\ TaskAt(queue[k], i)[Cardinality(Tasks)] = None

\* A task that a timer is to start is started, or its schedule is cancelled.
TimerStarts ==
    \A t \in Tasks :
        IsActive(timer["activate"][t]) ~>
            exited \/ taskState[t] # "TERMINATED" \/ ~IsActive(timer["activate"][t])
=============================================================================
