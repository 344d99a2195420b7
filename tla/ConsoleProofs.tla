---------------------------- MODULE ConsoleProofs ----------------------------
(***************************************************************************)
(* Proofs about module Console, for any number of tasks and priorities,    *)
(* all of which may be suspended, continued and terminated anywhere.       *)
(*                                                                         *)
(* The inductive invariant is Inv.  ListsMatch needs TaskOK, the agreement *)
(* of the places where a task's state is kept: only then does no path      *)
(* through unblock(), SUSPEND and TERMINATE signal a semaBlock twice.      *)
(* HandedOn is shown of each step from a state with Inv.                   *)
(***************************************************************************)
EXTENDS Console, PriorityQueueProofs

\* What a control block says of its task.
IsBlocked(r, direction) ==
    /\ r.at = "waiting" /\ r.semaBlock = 0
    /\ r.taskState = "BLOCKED" /\ r.direction = direction

IsDoomed(r) == r.at = "waiting" /\ r.semaBlock > 0 /\ r.asyncTerminateRequested

IsWorking(r) ==
    \/ r.at = "io"
    \/ r.at = "waiting" /\ r.semaBlock > 0 /\ ~r.asyncTerminateRequested

\* The states of a task agree: it is woken only where it waits, and a task that is
\* suspended while it waits has not been woken.
TaskOK(r) ==
    /\ r.semaBlock = 1 => r.at = "waiting"
    /\ r.taskState = "TERMINATED" => r.at = "none"
    /\ r.taskState = "SUSPENDED_BLOCKED" => r.at = "waiting" /\ r.semaBlock = 0

TasksOK(tk) == tk \in [Tasks -> Task] /\ \A t \in Tasks : TaskOK(tk[t])

\* The tasks of control blocks tk.
BlockedIn(tk, direction) == {t \in Tasks : IsBlocked(tk[t], direction)}
WorkingIn(tk) == {t \in Tasks : IsWorking(tk[t])}
DoomedIn(tk) == {t \in Tasks : IsDoomed(tk[t])}

OutputOK(out, tk) ==
    /\ out \in Seq(Tasks) /\ Distinct(out) /\ SortedBy(out, Prio)
    /\ QueueSet(out) = BlockedIn(tk, "OUT")

InputOK(in, taken, tk) ==
    /\ in \in Seq(Tasks) /\ Distinct(in)
    /\ QueueSet(in) \cup taken = BlockedIn(tk, "IN")
    /\ QueueSet(in) \cap taken = {}

ConsoleOK ==
    /\ writerInProgress \in BOOLEAN /\ inputStarted \in BOOLEAN /\ mutexLost \in BOOLEAN
    /\ lastTaskEntered \in Tasks \cup {None} /\ console \in ConsoleThread

Inv ==
    /\ ConsoleOK /\ TasksOK(task)
    /\ InputOK(waitingForInput, Taken, task) /\ OutputOK(waitingForOutput, task)

\* What HandedOn says of a step.
Served ==
    waitingForOutput # <<>> \/ writerInProgress =>
        WorkingIn(task) # {} \/ inputStarted \/ console.at \notin {"idle", "refused"}

Passed ==
    Served => \/ Served'
              \/ console.at = "take" /\ console'.at = "refused"
              \/ DoomedIn(task') \ DoomedIn(task) # {}
              \/ \E t \in WorkingIn(task) : task'[t].taskState = "TERMINATED"

-----------------------------------------------------------------------------
\* The properties in these terms.
LEMMA InvImplies ==
    ASSUME Inv
    PROVE  TypeOK /\ ListsMatch
<1>1. TypeOK
  BY DEF Inv, ConsoleOK, TasksOK, InputOK, OutputOK, TypeOK
<1>2. ListsMatch
  BY DEF Inv, InputOK, OutputOK, BlockedIn, IsBlocked, ListsMatch
<1> QED
  BY <1>1, <1>2

LEMMA PassedImplies ==
    ASSUME Passed, SomebodyServes
    PROVE  \/ SomebodyServes'
           \/ console.at = "take" /\ console'.at = "refused"
           \/ \E t \in Tasks : t \in Doomed' \ Doomed
           \/ \E t \in Working : task'[t].taskState = "TERMINATED"
<1>1. Doomed = DoomedIn(task) /\ Doomed' = DoomedIn(task')
  BY DEF Doomed, DoomedIn, IsDoomed
<1>2. Working = WorkingIn(task)
  BY DEF Working, Doomed, WorkingIn, IsWorking
<1>3. Working' = WorkingIn(task')
  BY DEF Working, Doomed, WorkingIn, IsWorking
<1>4. DoomedIn(task') \subseteq Tasks
  BY DEF DoomedIn
<1>5. SomebodyServes <=> Served
  BY <1>2 DEF SomebodyServes, Served, Types
<1>6. SomebodyServes' <=> Served'
  BY <1>3 DEF SomebodyServes, Served, Types
<1> QED
  BY <1>1, <1>2, <1>4, <1>5, <1>6 DEF Passed

\* A task put in front of the list, as registerWaitingTask() does with a reader.
LEMMA PrependProperties ==
    ASSUME NEW q \in Seq(Tasks), NEW t \in Tasks, Distinct(q), t \notin QueueSet(q)
    PROVE  LET r == <<t>> \o q IN
           r \in Seq(Tasks) /\ QueueSet(r) = QueueSet(q) \cup {t} /\ Distinct(r)
<1> DEFINE r == <<t>> \o q
           n == Len(q)
<1>1. n \in Nat /\ DOMAIN q = 1 .. n /\ q \in [1 .. n -> Tasks]
  BY LenProperties
<1>2. r \in Seq(Tasks) /\ DOMAIN r = 1 .. n + 1
  BY <1>1
<1>3. \A i \in DOMAIN r : r[i] = IF i = 1 THEN t ELSE q[i - 1]
  BY <1>1
<1> HIDE DEF r
<1>4. QueueSet(r) \subseteq QueueSet(q) \cup {t}
  BY <1>1, <1>2, <1>3 DEF QueueSet
<1>5. \A i \in DOMAIN q : i + 1 \in DOMAIN r /\ r[i + 1] = q[i]
  BY <1>1, <1>2, <1>3
<1>6. 1 \in DOMAIN r /\ r[1] = t
  BY <1>1, <1>2, <1>3
<1>7. QueueSet(q) \cup {t} \subseteq QueueSet(r)
  BY <1>5, <1>6 DEF QueueSet
<1>8. Distinct(r)
  <2> SUFFICES ASSUME NEW i \in DOMAIN r, NEW j \in DOMAIN r, r[i] = r[j], i # j
               PROVE  FALSE
    BY DEF Distinct
  <2>1. \A k \in DOMAIN r : k # 1 => k - 1 \in DOMAIN q /\ r[k] = q[k - 1] /\ r[k] # t
    BY <1>1, <1>2, <1>3 DEF QueueSet
  <2> QED
    BY <1>1, <1>2, <1>3, <2>1 DEF Distinct
<1> QED
  BY <1>2, <1>4, <1>7, <1>8 DEF r

-----------------------------------------------------------------------------
\* The control block of t is replaced by r.
Replaced(new, tk, t, r) == new = [tk EXCEPT ![t] = r]

LEMMA Changed ==
    ASSUME NEW tk, TasksOK(tk), NEW t \in Tasks, NEW r \in Task, TaskOK(r),
           Replaced(task', tk, t, r)
    PROVE  /\ TasksOK(task') /\ task'[t] = r
           /\ \A direction : IsBlocked(r, direction) =>
                 BlockedIn(task', direction) = BlockedIn(tk, direction) \cup {t}
           /\ \A direction : ~IsBlocked(r, direction) =>
                 BlockedIn(task', direction) = BlockedIn(tk, direction) \ {t}
           /\ IsWorking(r) => WorkingIn(task') = WorkingIn(tk) \cup {t}
           /\ WorkingIn(tk) \ {t} \subseteq WorkingIn(task')
           /\ IsDoomed(r) => t \in DoomedIn(task')
<1>1. /\ task' \in [Tasks -> Task] /\ task'[t] = r
      /\ \A u \in Tasks : u # t => task'[u] = tk[u]
  BY DEF TasksOK, Replaced
<1>2. TasksOK(task')
  BY <1>1 DEF TasksOK
<1>3. ASSUME NEW direction
      PROVE  /\ IsBlocked(r, direction) =>
                 BlockedIn(task', direction) = BlockedIn(tk, direction) \cup {t}
             /\ ~IsBlocked(r, direction) =>
                 BlockedIn(task', direction) = BlockedIn(tk, direction) \ {t}
  BY <1>1 DEF BlockedIn
<1>4. /\ IsWorking(r) => WorkingIn(task') = WorkingIn(tk) \cup {t}
      /\ WorkingIn(tk) \ {t} \subseteq WorkingIn(task')
  BY <1>1 DEF WorkingIn
<1>5. IsDoomed(r) => t \in DoomedIn(task')
  BY <1>1 DEF DoomedIn
<1> QED
  BY <1>1, <1>2, <1>3, <1>4, <1>5

\* A task that is blocked and is unblocked: it works, or is doomed.
LEMMA Unblocked ==
    ASSUME NEW r \in Task, TaskOK(r), NEW direction, IsBlocked(r, direction)
    PROVE  /\ Unblock(r) \in Task /\ TaskOK(Unblock(r))
           /\ IsWorking(Unblock(r)) \/ IsDoomed(Unblock(r))
           /\ \A d : ~IsBlocked(Unblock(r), d)
<1>1. r.semaBlock = 0 /\ r.at = "waiting" /\ r.direction = direction
  BY DEF TaskOK, IsBlocked
<1>5. r.semaBlock + 1 \in 0 .. 1
  BY <1>1
<1>2. Unblock(r) \in Task
  BY <1>5 DEF Task, Unblock
<1>3. /\ Unblock(r).semaBlock = 1 /\ Unblock(r).at = "waiting"
      /\ Unblock(r).taskState = "RUNNING"
  BY <1>1 DEF Task, Unblock
<1> QED
  BY <1>2, <1>3 DEF TaskOK, IsWorking, IsDoomed, IsBlocked

\* A task that is blocked neither works nor is doomed.
LEMMA BlockedIdle ==
    ASSUME NEW r, NEW d, IsBlocked(r, d)
    PROVE  ~IsWorking(r) /\ ~IsDoomed(r)
BY DEF IsBlocked, IsWorking, IsDoomed

\* startNextWriter(): the writer that it wakes is the first one that waits, and will write
\* if it is not to be terminated.
LEMMA StartNextWriterOK ==
    ASSUME NEW tk, TasksOK(tk), OutputOK(waitingForOutput, tk),
           writerInProgress \in BOOLEAN, StartNextWriter(tk)
    PROVE  /\ TasksOK(task') /\ OutputOK(waitingForOutput', task')
           /\ writerInProgress' \in BOOLEAN
           /\ BlockedIn(task', "IN") = BlockedIn(tk, "IN")
           /\ waitingForOutput' # <<>> \/ writerInProgress' =>
                 \/ inputStarted \/ WorkingIn(task') # {}
                 \/ DoomedIn(task') \ DoomedIn(tk) # {}
<1>1. CASE inputStarted
  BY <1>1 DEF StartNextWriter
<1>2. CASE ~inputStarted /\ waitingForOutput = <<>>
  BY <1>2 DEF StartNextWriter
<1>3. CASE ~inputStarted /\ waitingForOutput # <<>>
  <2> DEFINE h == Head(waitingForOutput)
  <2>1. /\ writerInProgress' = TRUE /\ waitingForOutput' = Tail(waitingForOutput)
        /\ task' = [tk EXCEPT ![h] = Unblock(tk[h])]
    BY <1>3 DEF StartNextWriter
  <2>2. /\ h \in BlockedIn(tk, "OUT") /\ Tail(waitingForOutput) \in Seq(Tasks)
        /\ QueueSet(Tail(waitingForOutput)) = BlockedIn(tk, "OUT") \ {h}
        /\ Distinct(Tail(waitingForOutput)) /\ SortedBy(Tail(waitingForOutput), Prio)
    BY <1>3, TailProperties DEF OutputOK
  <2> HIDE DEF h
  <2>3. h \in Tasks /\ tk[h] \in Task /\ TaskOK(tk[h]) /\ IsBlocked(tk[h], "OUT")
    BY <2>2 DEF BlockedIn, TasksOK
  <2> DEFINE r == Unblock(tk[h])
  <2>4. /\ r \in Task /\ TaskOK(r) /\ (IsWorking(r) \/ IsDoomed(r))
        /\ \A d : ~IsBlocked(r, d)
    BY <2>3, Unblocked
  <2>7. Replaced(task', tk, h, r)
    BY <2>1 DEF Replaced
  <2> HIDE DEF r
  <2>5. /\ TasksOK(task') /\ \A d : BlockedIn(task', d) = BlockedIn(tk, d) \ {h}
        /\ IsWorking(r) => WorkingIn(task') = WorkingIn(tk) \cup {h}
        /\ IsDoomed(r) => h \in DoomedIn(task')
    BY <2>3, <2>4, <2>7, Changed
  <2>6. h \notin BlockedIn(tk, "IN") /\ h \notin DoomedIn(tk)
    BY <2>3, BlockedIdle DEF BlockedIn, DoomedIn, IsBlocked
  <2>8. BlockedIn(task', "IN") = BlockedIn(tk, "IN")
    BY <2>5, <2>6
  <2>9. OutputOK(waitingForOutput', task')
    BY <2>1, <2>2, <2>5 DEF OutputOK
  <2>10. WorkingIn(task') # {} \/ DoomedIn(task') \ DoomedIn(tk) # {}
    BY <2>4, <2>5, <2>6
  <2> QED
    BY <2>1, <2>5, <2>8, <2>9, <2>10
<1> QED
  BY <1>1, <1>2, <1>3

\* registerWaitingTask() of a task that is in no list and at no work.
LEMMA RegisterOK ==
    ASSUME Inv, NEW t \in Tasks, NEW direction \in {"IN", "OUT"},
           NEW blocked \in Task, NEW unblocked \in Task,
           TaskOK(blocked), IsBlocked(blocked, direction),
           direction = "OUT" => /\ TaskOK(unblocked)
                                /\ IsWorking(unblocked) \/ IsDoomed(unblocked)
                                /\ \A d : ~IsBlocked(unblocked, d),
           ~IsWorking(task[t]), ~IsDoomed(task[t]), \A d : ~IsBlocked(task[t], d),
           RegisterWaitingTask(t, direction, blocked, unblocked),
           UNCHANGED <<inputStarted, lastTaskEntered, console, mutexLost>>
    PROVE  Inv' /\ Passed
<1>0. /\ TasksOK(task) /\ task \in [Tasks -> Task] /\ ConsoleOK
      /\ InputOK(waitingForInput, Taken, task) /\ OutputOK(waitingForOutput, task)
      /\ t \notin WorkingIn(task) /\ t \notin DoomedIn(task)
      /\ \A d : t \notin BlockedIn(task, d)
      /\ Taken' = Taken
  BY DEF Inv, TasksOK, WorkingIn, DoomedIn, BlockedIn, Taken
<1>1. ASSUME task' = [task EXCEPT ![t] = blocked]
      PROVE  /\ TasksOK(task') /\ WorkingIn(task) \subseteq WorkingIn(task')
             /\ BlockedIn(task', direction) = BlockedIn(task, direction) \cup {t}
             /\ \A d : d # direction => BlockedIn(task', d) = BlockedIn(task, d)
  <2>1. \A d : d # direction => ~IsBlocked(blocked, d)
    BY DEF IsBlocked
  <2>3. Replaced(task', task, t, blocked)
    BY <1>1 DEF Replaced
  <2>2. /\ TasksOK(task') /\ WorkingIn(task) \ {t} \subseteq WorkingIn(task')
        /\ BlockedIn(task', direction) = BlockedIn(task, direction) \cup {t}
        /\ \A d : d # direction => BlockedIn(task', d) = BlockedIn(task, d) \ {t}
    BY <1>0, <2>1, <2>3, Changed
  <2> QED
    BY <1>0, <2>2
<1>2. ConsoleOK' <=> writerInProgress' \in BOOLEAN
  BY <1>0 DEF ConsoleOK
<1>4. CASE /\ direction = "IN" /\ waitingForInput' = <<t>> \o waitingForInput
           /\ task' = [task EXCEPT ![t] = blocked]
           /\ UNCHANGED <<waitingForOutput, writerInProgress>>
  <2>1. t \notin QueueSet(waitingForInput) /\ t \notin Taken
    BY <1>0 DEF InputOK
  <2>2. InputOK(waitingForInput', Taken', task')
    <3>1. /\ waitingForInput \in Seq(Tasks) /\ Distinct(waitingForInput)
          /\ QueueSet(waitingForInput) \cup Taken = BlockedIn(task, "IN")
          /\ QueueSet(waitingForInput) \cap Taken = {}
      BY <1>0 DEF InputOK
    <3>2. /\ waitingForInput' \in Seq(Tasks) /\ Distinct(waitingForInput')
          /\ QueueSet(waitingForInput') = QueueSet(waitingForInput) \cup {t}
      BY <1>4, <2>1, <3>1, PrependProperties
    <3>3. BlockedIn(task', "IN") = BlockedIn(task, "IN") \cup {t} /\ Taken' = Taken
      BY <1>0, <1>1, <1>4
    <3> QED
      BY <2>1, <3>1, <3>2, <3>3 DEF InputOK
  <2>3. OutputOK(waitingForOutput', task')
    BY <1>0, <1>1, <1>4 DEF OutputOK
  <2>4. Passed
    BY <1>1, <1>4 DEF Passed, Served
  <2> QED
    BY <1>0, <1>1, <1>2, <1>4, <2>2, <2>3, <2>4 DEF Inv, ConsoleOK
<1>5. CASE /\ direction = "OUT" /\ MustWait
           /\ waitingForOutput' = Insert(waitingForOutput, t, Prio)
           /\ task' = [task EXCEPT ![t] = blocked]
           /\ UNCHANGED <<waitingForInput, writerInProgress>>
  <2>1. t \notin QueueSet(waitingForOutput)
    BY <1>0 DEF OutputOK
  <2>2. SortedBy(waitingForOutput', Prio)
    BY <1>0, <1>5, InsertSorted, ConsoleAssumption DEF OutputOK
  <2> DEFINE q == Insert(waitingForOutput, t, Prio)
  <2>6. /\ q \in Seq(Tasks) /\ QueueSet(q) = QueueSet(waitingForOutput) \cup {t}
        /\ Distinct(q)
    BY <1>0, <2>1, InsertProperties DEF OutputOK
  <2> HIDE DEF q
  <2>3. OutputOK(waitingForOutput', task')
    BY <1>0, <1>1, <1>5, <2>1, <2>2, <2>6 DEF OutputOK, q
  <2>4. InputOK(waitingForInput', Taken', task')
    BY <1>0, <1>1, <1>5 DEF InputOK
  <2>5. Passed
    BY <1>1, <1>5 DEF Passed, Served, MustWait
  <2> QED
    BY <1>0, <1>1, <1>2, <1>5, <2>3, <2>4, <2>5 DEF Inv, ConsoleOK
<1>6. CASE /\ direction = "OUT" /\ writerInProgress' = TRUE
           /\ task' = [task EXCEPT ![t] = unblocked]
           /\ UNCHANGED <<waitingForInput, waitingForOutput>>
  <2>1. /\ TasksOK(task') /\ \A d : BlockedIn(task', d) = BlockedIn(task, d)
        /\ t \in WorkingIn(task') \/ t \in DoomedIn(task') \ DoomedIn(task)
    <3>1. /\ TaskOK(unblocked) /\ (IsWorking(unblocked) \/ IsDoomed(unblocked))
          /\ \A d : ~IsBlocked(unblocked, d)
      BY <1>6
    <3>3. Replaced(task', task, t, unblocked)
      BY <1>6 DEF Replaced
    <3>2. /\ TasksOK(task')
          /\ \A d : BlockedIn(task', d) = BlockedIn(task, d) \ {t}
          /\ t \in WorkingIn(task') \/ t \in DoomedIn(task')
      BY <1>0, <3>1, <3>3, Changed
    <3> QED
      BY <1>0, <3>2
  <2>2. InputOK(waitingForInput', Taken', task') /\ OutputOK(waitingForOutput', task')
    BY <1>0, <1>6, <2>1 DEF InputOK, OutputOK
  <2>3. Passed
    BY <2>1 DEF Passed, Served
  <2> QED
    BY <1>2, <1>6, <2>1, <2>2, <2>3 DEF Inv
<1> QED
  BY <1>4, <1>5, <1>6 DEF RegisterWaitingTask

-----------------------------------------------------------------------------
\* A step that changes only the control block of one task, which is blocked after it
\* exactly if it was before; if it worked it works on, is doomed, or has ended.
LEMMA OneTask ==
    ASSUME Inv, NEW t \in Tasks, NEW r \in Task, TaskOK(r),
           Replaced(task', task, t, r),
           \A d : IsBlocked(task[t], d) <=> IsBlocked(r, d),
           IsWorking(task[t]) => \/ IsWorking(r) \/ IsDoomed(r)
                                \/ r.taskState = "TERMINATED",
           UNCHANGED <<lists, inputStarted, lastTaskEntered, console, mutexLost>>
    PROVE  Inv' /\ Passed
<1>1. TasksOK(task)
  BY DEF Inv
<1>2. /\ TasksOK(task') /\ task'[t] = r
      /\ \A d : IsBlocked(r, d) => BlockedIn(task', d) = BlockedIn(task, d) \cup {t}
      /\ \A d : ~IsBlocked(r, d) => BlockedIn(task', d) = BlockedIn(task, d) \ {t}
      /\ IsWorking(r) => WorkingIn(task') = WorkingIn(task) \cup {t}
      /\ WorkingIn(task) \ {t} \subseteq WorkingIn(task')
      /\ IsDoomed(r) => t \in DoomedIn(task')
  BY <1>1, Changed
<1>3. /\ \A d : t \in BlockedIn(task, d) <=> IsBlocked(r, d)
      /\ t \in WorkingIn(task) => t \notin DoomedIn(task)
      /\ t \in WorkingIn(task) <=> IsWorking(task[t])
  BY DEF BlockedIn, WorkingIn, DoomedIn, IsWorking, IsDoomed
<1>4. \A d : BlockedIn(task', d) = BlockedIn(task, d)
  BY <1>2, <1>3
<1>5. CASE t \in WorkingIn(task) /\ ~IsWorking(r)
  <2>1. \/ DoomedIn(task') \ DoomedIn(task) # {}
        \/ \E u \in WorkingIn(task) : task'[u].taskState = "TERMINATED"
    BY <1>2, <1>3, <1>5
  <2> QED
    BY <1>2, <1>4, <2>1 DEF Inv, lists, ConsoleOK, InputOK, OutputOK, Passed, Taken
<1>6. CASE t \notin WorkingIn(task) \/ IsWorking(r)
  <2>1. WorkingIn(task) \subseteq WorkingIn(task')
    BY <1>2, <1>6
  <2>2. Passed
    BY <2>1 DEF Passed, Served, lists
  <2> QED
    BY <1>2, <1>4, <2>2 DEF Inv, lists, ConsoleOK, InputOK, OutputOK, Taken
<1> QED
  BY <1>5, <1>6

LEMMA BeginSequenceStep ==
    ASSUME Inv, NEW t \in Tasks, NEW direction \in {"IN", "OUT"},
           BeginSequence(t, direction)
    PROVE  Inv' /\ Passed
<1> DEFINE r == [task[t] EXCEPT !.taskState = "BLOCKED", !.at = "waiting",
                                !.direction = direction]
           u == [r EXCEPT !.semaBlock = @ + 1]
<1>1. /\ task[t] \in Task /\ TaskOK(task[t]) /\ task[t].at = "body"
      /\ RegisterWaitingTask(t, direction, r, u)
      /\ UNCHANGED <<inputStarted, lastTaskEntered, console, mutexLost>>
  BY DEF BeginSequence, Inv, TasksOK
<1>2. task[t].semaBlock = 0
  BY <1>1 DEF TaskOK, Task
<1>3. /\ r \in Task /\ r.taskState = "BLOCKED" /\ r.at = "waiting"
      /\ r.direction = direction /\ r.semaBlock = 0
  BY <1>1, <1>2 DEF Task
<1> HIDE DEF r
<1>5. r.semaBlock + 1 \in 0 .. 1
  BY <1>3
<1>6. u \in Task /\ u.taskState = "BLOCKED" /\ u.at = "waiting"
  BY <1>3, <1>5 DEF Task
<1>7. u.semaBlock = 1
  BY <1>3 DEF Task
<1> HIDE DEF u
<1>9. TaskOK(r) /\ IsBlocked(r, direction)
  BY <1>3 DEF TaskOK, IsBlocked
<1>10. TaskOK(u) /\ (IsWorking(u) \/ IsDoomed(u)) /\ \A d : ~IsBlocked(u, d)
  BY <1>6, <1>7 DEF TaskOK, IsBlocked, IsWorking, IsDoomed
<1>12. ~IsWorking(task[t]) /\ ~IsDoomed(task[t]) /\ \A d : ~IsBlocked(task[t], d)
  BY <1>1 DEF IsWorking, IsDoomed, IsBlocked
<1> QED
  BY <1>1, <1>3, <1>6, <1>9, <1>10, <1>12, RegisterOK

\* A task that has ended neither waits nor works.
LEMMA EndedTask ==
    /\ Ended \in Task /\ TaskOK(Ended)
    /\ Ended.taskState = "TERMINATED" /\ Ended.at = "none"
    /\ \A d : ~IsBlocked(Ended, d)
<1>1. Running \in Task /\ Running.semaBlock = 0
  BY DEF Running, Task
<1>2. /\ Ended \in Task /\ Ended.semaBlock = 0
      /\ Ended.taskState = "TERMINATED" /\ Ended.at = "none"
  BY <1>1 DEF Ended, Task
<1> QED
  BY <1>2 DEF TaskOK, IsBlocked

\* What scheduleCallback() makes of a task that is not blocked.
LEMMA CallbackOK ==
    ASSUME NEW r \in Task, r.semaBlock = 0, r.at \in {"body", "io"},
           r.taskState \notin {"SUSPENDED_BLOCKED", "TERMINATED"}
    PROVE  LET s == ScheduleCallback(r) IN
           /\ s \in Task /\ TaskOK(s) /\ \A d : ~IsBlocked(s, d)
           /\ s.taskState = "TERMINATED" \/ s.at = r.at
<1> DEFINE held == [r EXCEPT !.asyncSuspendRequested = FALSE, !.taskState = "SUSPENDED"]
<1>2. /\ held \in Task /\ held.semaBlock = 0 /\ held.taskState = "SUSPENDED"
      /\ held.at = r.at
  BY DEF Task
<1>3. ScheduleCallback(r) \in {Ended, held, r}
  BY DEF ScheduleCallback
<1> HIDE DEF held
<1> QED
  BY <1>2, <1>3, EndedTask DEF TaskOK, IsBlocked

\* A task that has been woken and is to be terminated was not counted on to start the next
\* writer.
LEMMA WakeStep ==
    ASSUME Inv, NEW t \in Tasks, Wake(t)
    PROVE  Inv' /\ Passed
<1> DEFINE r == [task[t] EXCEPT !.semaBlock = task[t].semaBlock - 1, !.at = "io"]
           s == ScheduleCallback(r)
<1>1. /\ task \in [Tasks -> Task] /\ task[t] \in Task /\ TaskOK(task[t])
      /\ task[t].at = "waiting" /\ task[t].semaBlock = 1
      /\ UNCHANGED <<lists, inputStarted, lastTaskEntered, console, mutexLost>>
  BY DEF Wake, Inv, TasksOK, Task
<1>2. task[t].semaBlock - 1 \in 0 .. 1
  BY <1>1
<1>3. /\ r \in Task
      /\ r.semaBlock = 0 /\ r.at = "io" /\ r.taskState = task[t].taskState
  <2>1. r \in Task
    BY <1>1, <1>2 DEF Task
  <2>2. r.semaBlock = 0 /\ r.at = "io" /\ r.taskState = task[t].taskState
    BY <1>1 DEF Task
  <2> QED
    BY <2>1, <2>2
<1>4. Replaced(task', task, t, s)
  BY DEF Wake, Replaced
<1> HIDE DEF r
<1>5. r.taskState \notin {"SUSPENDED_BLOCKED", "TERMINATED"}
  BY <1>1, <1>3 DEF TaskOK
<1>6. /\ s \in Task /\ TaskOK(s) /\ \A d : ~IsBlocked(s, d)
      /\ s.taskState = "TERMINATED" \/ s.at = "io"
  BY <1>3, <1>5, CallbackOK
<1> HIDE DEF s
<1>7. \A d : ~IsBlocked(task[t], d)
  BY <1>1 DEF IsBlocked
<1>8. s.taskState = "TERMINATED" \/ IsWorking(s)
  BY <1>6 DEF IsWorking
<1> QED
  BY <1>1, <1>4, <1>6, <1>7, <1>8, OneTask

LEMMA LeaveIOStep ==
    ASSUME Inv, NEW t \in Tasks, LeaveIO(t)
    PROVE  Inv' /\ Passed
<1> DEFINE r == [task[t] EXCEPT !.at = "body", !.direction = "IN", !.taskState = "RUNNING"]
           s == ScheduleCallback(r)
<1>1. /\ task \in [Tasks -> Task] /\ task[t] \in Task /\ TaskOK(task[t])
      /\ task[t].at = "leaving"
      /\ UNCHANGED <<lists, inputStarted, lastTaskEntered, console, mutexLost>>
  BY DEF LeaveIO, Inv, TasksOK
<1>2. task[t].semaBlock = 0
  BY <1>1 DEF TaskOK, Task
<1>3. r \in Task /\ r.semaBlock = 0 /\ r.at = "body" /\ r.taskState = "RUNNING"
  BY <1>1, <1>2 DEF Task
<1>4. Replaced(task', task, t, s)
  BY <1>1 DEF LeaveIO, Replaced
<1> HIDE DEF r
<1>6. s \in Task /\ TaskOK(s) /\ \A d : ~IsBlocked(s, d)
  BY <1>3, CallbackOK
<1> HIDE DEF s
<1>7. ~IsWorking(task[t]) /\ \A d : ~IsBlocked(task[t], d)
  BY <1>1 DEF IsBlocked, IsWorking
<1> QED
  BY <1>1, <1>4, <1>6, <1>7, OneTask

LEMMA SetLocationStep ==
    ASSUME Inv, NEW t \in Tasks, SetLocation(t)
    PROVE  Inv' /\ Passed
<1> DEFINE s == ScheduleCallback(task[t])
<1>1. /\ task \in [Tasks -> Task] /\ task[t] \in Task /\ TaskOK(task[t])
      /\ task[t].at = "body" /\ task[t].taskState = "RUNNING"
      /\ UNCHANGED <<lists, inputStarted, lastTaskEntered, console, mutexLost>>
  BY DEF SetLocation, Inv, TasksOK
<1>2. task[t].semaBlock = 0
  BY <1>1 DEF TaskOK, Task
<1>4. Replaced(task', task, t, s)
  BY <1>1 DEF SetLocation, Replaced
<1>6. s \in Task /\ TaskOK(s) /\ \A d : ~IsBlocked(s, d)
  BY <1>1, <1>2, CallbackOK
<1> HIDE DEF s
<1>7. ~IsWorking(task[t]) /\ \A d : ~IsBlocked(task[t], d)
  BY <1>1 DEF IsBlocked, IsWorking
<1> QED
  BY <1>1, <1>4, <1>6, <1>7, OneTask

LEMMA ActivateStep ==
    ASSUME Inv, NEW t \in Tasks, Activate(t)
    PROVE  Inv' /\ Passed
<1>1. /\ TaskOK(task[t]) /\ task[t].taskState = "TERMINATED"
      /\ Replaced(task', task, t, Running)
      /\ UNCHANGED <<lists, inputStarted, lastTaskEntered, console, mutexLost>>
  BY DEF Activate, Requested, Inv, TasksOK, Replaced
<1>2. Running \in Task /\ TaskOK(Running) /\ \A d : ~IsBlocked(Running, d)
  BY DEF Running, Task, TaskOK, IsBlocked
<1>3. ~IsWorking(task[t]) /\ \A d : ~IsBlocked(task[t], d)
  BY <1>1 DEF TaskOK, IsWorking, IsBlocked
<1> QED
  BY <1>1, <1>2, <1>3, OneTask

-----------------------------------------------------------------------------
\* A task in a list, or taken from the list for a line, has not been woken.
LEMMA ListedTask ==
    ASSUME Inv, NEW t, Listed(t) \/ t \in Taken
    PROVE  /\ t \in Tasks /\ task[t] \in Task /\ TaskOK(task[t])
           /\ task[t].at = "waiting" /\ task[t].semaBlock = 0
           /\ task[t].taskState = "BLOCKED"
  BY DEF Inv, TasksOK, InputOK, OutputOK, Listed, BlockedIn, IsBlocked

\* SUSPEND and TERMINATE: a task is taken out of its list, and waits no more.
LEMMA Delisted ==
    ASSUME Inv, NEW t \in Tasks, Listed(t), RemoveFromLists(t),
           NEW r \in Task, TaskOK(r), Replaced(task', task, t, r),
           \A d : ~IsBlocked(r, d)
    PROVE  Inv' /\ Passed
<1>0. /\ TasksOK(task) /\ ConsoleOK
      /\ InputOK(waitingForInput, Taken, task) /\ OutputOK(waitingForOutput, task)
  BY DEF Inv
<1>1. /\ waitingForInput' = Remove(waitingForInput, t)
      /\ waitingForOutput' = Remove(waitingForOutput, t)
      /\ UNCHANGED <<writerInProgress, inputStarted, lastTaskEntered, console, mutexLost>>
      /\ Taken' = Taken
  BY DEF RemoveFromLists, Taken
<1>3. /\ TasksOK(task')
      /\ \A d : BlockedIn(task', d) = BlockedIn(task, d) \ {t}
      /\ WorkingIn(task) \ {t} \subseteq WorkingIn(task')
  BY <1>0, Changed
<1>4. t \notin Taken /\ t \notin WorkingIn(task)
  <2>0. task[t].at = "waiting" /\ task[t].semaBlock = 0
    BY ListedTask
  <2>1. t \notin WorkingIn(task)
    BY <2>0 DEF WorkingIn, IsWorking
  <2>2. CASE t \in QueueSet(waitingForInput)
    BY <1>0, <2>1, <2>2 DEF InputOK
  <2>3. CASE t \in QueueSet(waitingForOutput)
    BY <1>0, <2>1, <2>3 DEF InputOK, OutputOK, BlockedIn, IsBlocked
  <2> QED
    BY <2>1, <2>2, <2>3 DEF Listed
<1>6. InputOK(waitingForInput', Taken', task')
  <2> DEFINE q == Remove(waitingForInput, t)
  <2>1. q \in Seq(Tasks) /\ QueueSet(q) = QueueSet(waitingForInput) \ {t} /\ Distinct(q)
    BY <1>0, RemoveProperties DEF InputOK
  <2> HIDE DEF q
  <2> QED
    BY <1>0, <1>1, <1>3, <1>4, <2>1 DEF InputOK, q
<1>7. OutputOK(waitingForOutput', task')
  <2> DEFINE q == Remove(waitingForOutput, t)
  <2>1. /\ q \in Seq(Tasks) /\ QueueSet(q) = QueueSet(waitingForOutput) \ {t} /\ Distinct(q)
        /\ SortedBy(q, Prio)
    BY <1>0, RemoveProperties DEF OutputOK
  <2> HIDE DEF q
  <2> QED
    BY <1>0, <1>1, <1>3, <2>1 DEF OutputOK, q
<1>8. Passed
  <2>1. waitingForOutput = <<>> => waitingForOutput' = <<>>
    BY <1>1 DEF Remove, QueueSet
  <2>2. WorkingIn(task) \subseteq WorkingIn(task')
    BY <1>3, <1>4
  <2> QED
    BY <1>1, <2>1, <2>2 DEF Passed, Served
<1> QED
  BY <1>0, <1>1, <1>3, <1>6, <1>7, <1>8 DEF Inv, ConsoleOK

\* A signal for the caller leaves the lists and the tasks alone.
LEMMA ThrownLockedStep ==
    ASSUME Inv, ThrownLocked
    PROVE  Inv' /\ Passed
<1>1. mutexLost' \in BOOLEAN /\ Taken' = Taken
  BY DEF ThrownLocked, Taken
<1> QED
  BY <1>1 DEF ThrownLocked, lists, Inv, ConsoleOK, InputOK, OutputOK, Passed, Served

LEMMA SuspendStep ==
    ASSUME Inv, NEW t \in Tasks, Suspend(t)
    PROVE  Inv' /\ Passed
<1>1. task \in [Tasks -> Task] /\ task[t] \in Task /\ TaskOK(task[t])
  BY DEF Inv, TasksOK
<1>2. CASE /\ task[t].taskState = "RUNNING"
           /\ Requested(t, [task[t] EXCEPT !.asyncSuspendRequested = TRUE])
  <2> DEFINE r == [task[t] EXCEPT !.asyncSuspendRequested = TRUE]
  <2>1. /\ Replaced(task', task, t, r)
        /\ UNCHANGED <<lists, inputStarted, lastTaskEntered, console, mutexLost>>
    BY <1>2 DEF Requested, Replaced
  <2>2. /\ r \in Task /\ r.at = task[t].at /\ r.semaBlock = task[t].semaBlock
        /\ r.taskState = "RUNNING"
    BY <1>1, <1>2 DEF Task
  <2>3. r.asyncTerminateRequested = task[t].asyncTerminateRequested
    BY <1>1 DEF Task
  <2> HIDE DEF r
  <2>4. TaskOK(r) /\ \A d : ~IsBlocked(r, d) /\ ~IsBlocked(task[t], d)
    BY <1>1, <1>2, <2>2 DEF TaskOK, IsBlocked
  <2>5. IsWorking(task[t]) => IsWorking(r)
    BY <2>2, <2>3 DEF IsWorking
  <2> QED
    BY <2>1, <2>2, <2>4, <2>5, OneTask
<1>3. CASE /\ Listed(t) /\ RemoveFromLists(t)
           /\ task' = [task EXCEPT ![t].taskState = "SUSPENDED_BLOCKED"]
  <2>1. task[t].at = "waiting" /\ task[t].semaBlock = 0
    BY <1>3, ListedTask
  <2> DEFINE r == [task[t] EXCEPT !.taskState = "SUSPENDED_BLOCKED"]
  <2>2. Replaced(task', task, t, r)
    BY <1>1, <1>3 DEF Replaced
  <2>3. /\ r \in Task /\ r.at = "waiting" /\ r.semaBlock = 0
        /\ r.taskState = "SUSPENDED_BLOCKED"
    BY <1>1, <2>1 DEF Task
  <2> HIDE DEF r
  <2>4. TaskOK(r) /\ \A d : ~IsBlocked(r, d)
    BY <2>3 DEF TaskOK, IsBlocked
  <2> QED
    BY <1>3, <2>2, <2>3, <2>4, Delisted
<1> QED
  BY <1>2, <1>3, ThrownLockedStep DEF Suspend

LEMMA ContinueStep ==
    ASSUME Inv, NEW t \in Tasks, Continue(t)
    PROVE  Inv' /\ Passed
<1> DEFINE direction == task[t].direction
           blocked == [task[t] EXCEPT !.taskState = "BLOCKED"]
           u == Unblock(blocked)
<1>1. task \in [Tasks -> Task] /\ task[t] \in Task /\ TaskOK(task[t])
  BY DEF Inv, TasksOK
<1>2. CASE /\ task[t].taskState = "SUSPENDED_BLOCKED"
           /\ RegisterWaitingTask(t, direction, blocked, u)
           /\ UNCHANGED <<inputStarted, lastTaskEntered, console, mutexLost>>
  <2>1. /\ task[t].at = "waiting" /\ task[t].semaBlock = 0
        /\ direction \in {"IN", "OUT"}
    BY <1>1, <1>2 DEF TaskOK, Task
  <2>2. /\ blocked \in Task /\ blocked.taskState = "BLOCKED" /\ blocked.at = "waiting"
        /\ blocked.direction = direction /\ blocked.semaBlock = 0
    BY <1>1, <2>1 DEF Task
  <2>3. /\ ~IsWorking(task[t]) /\ ~IsDoomed(task[t])
        /\ \A d : ~IsBlocked(task[t], d)
    BY <1>2, <2>1 DEF IsWorking, IsDoomed, IsBlocked
  <2> HIDE DEF blocked, direction
  <2>4. TaskOK(blocked) /\ IsBlocked(blocked, direction)
    BY <2>2 DEF TaskOK, IsBlocked
  <2>5. /\ u \in Task /\ TaskOK(u) /\ (IsWorking(u) \/ IsDoomed(u))
        /\ \A d : ~IsBlocked(u, d)
    BY <2>2, <2>4, Unblocked
  <2> HIDE DEF u
  <2> QED
    BY <1>2, <2>1, <2>2, <2>3, <2>4, <2>5, RegisterOK
<1>3. CASE /\ task[t].taskState = "SUSPENDED"
           /\ Requested(t, [task[t] EXCEPT !.taskState = "RUNNING"])
  <2> DEFINE r == [task[t] EXCEPT !.taskState = "RUNNING"]
  <2>1. /\ Replaced(task', task, t, r)
        /\ UNCHANGED <<lists, inputStarted, lastTaskEntered, console, mutexLost>>
    BY <1>3 DEF Requested, Replaced
  <2>2. /\ r \in Task /\ r.at = task[t].at /\ r.semaBlock = task[t].semaBlock
        /\ r.taskState = "RUNNING"
    BY <1>1 DEF Task
  <2>3. r.asyncTerminateRequested = task[t].asyncTerminateRequested
    BY <1>1 DEF Task
  <2> HIDE DEF r
  <2>4. TaskOK(r) /\ \A d : ~IsBlocked(r, d) /\ ~IsBlocked(task[t], d)
    BY <1>1, <1>3, <2>2 DEF TaskOK, IsBlocked
  <2>5. IsWorking(task[t]) => IsWorking(r)
    BY <2>2, <2>3 DEF IsWorking
  <2> QED
    BY <2>1, <2>2, <2>4, <2>5, OneTask
<1> QED
  BY <1>2, <1>3, ThrownLockedStep DEF Continue

\* A task that is terminated has ended, is doomed, or finds the request when it is blocked
\* no more.
LEMMA TerminateStep ==
    ASSUME Inv, NEW t \in Tasks, Terminate(t)
    PROVE  Inv' /\ Passed
<1>1. task \in [Tasks -> Task] /\ task[t] \in Task /\ TaskOK(task[t])
  BY DEF Inv, TasksOK
<1>2. CASE task[t].taskState = "SUSPENDED" /\ Requested(t, Ended)
  <2>1. /\ Replaced(task', task, t, Ended)
        /\ UNCHANGED <<lists, inputStarted, lastTaskEntered, console, mutexLost>>
    BY <1>2 DEF Requested, Replaced
  <2>3. \A d : ~IsBlocked(task[t], d)
    BY <1>2 DEF IsBlocked
  <2> QED
    BY <2>1, <2>3, EndedTask, OneTask
<1>3. CASE /\ Listed(t) /\ RemoveFromLists(t)
           /\ task' = [task EXCEPT ![t].asyncTerminateRequested = TRUE,
                                   ![t].semaBlock = @ + 1]
  <2>1. task[t].at = "waiting" /\ task[t].semaBlock = 0 /\ task[t].taskState = "BLOCKED"
    BY <1>3, ListedTask
  <2> DEFINE r == [task[t] EXCEPT !.asyncTerminateRequested = TRUE,
                                  !.semaBlock = task[t].semaBlock + 1]
  <2>2. Replaced(task', task, t, r)
    BY <1>1, <1>3 DEF Replaced
  <2>3. task[t].semaBlock + 1 \in 0 .. 1
    BY <2>1
  <2>4. r \in Task
    BY <1>1, <2>3 DEF Task
  <2>5. r.at = "waiting" /\ r.semaBlock = 1 /\ r.taskState = "BLOCKED"
    BY <1>1, <2>1 DEF Task
  <2> HIDE DEF r
  <2>6. TaskOK(r) /\ \A d : ~IsBlocked(r, d)
    BY <2>5 DEF TaskOK, IsBlocked
  <2> QED
    BY <1>3, <2>2, <2>4, <2>6, Delisted
<1>4. CASE Requested(t, [task[t] EXCEPT !.asyncTerminateRequested = TRUE])
  <2> DEFINE r == [task[t] EXCEPT !.asyncTerminateRequested = TRUE]
  <2>1. /\ Replaced(task', task, t, r)
        /\ UNCHANGED <<lists, inputStarted, lastTaskEntered, console, mutexLost>>
    BY <1>4 DEF Requested, Replaced
  <2>2. /\ r \in Task /\ r.at = task[t].at /\ r.semaBlock = task[t].semaBlock
        /\ r.taskState = task[t].taskState /\ r.direction = task[t].direction
    BY <1>1 DEF Task
  <2>3. r.asyncTerminateRequested
    BY <1>1 DEF Task
  <2> HIDE DEF r
  <2>4. TaskOK(r) /\ \A d : IsBlocked(task[t], d) <=> IsBlocked(r, d)
    BY <1>1, <2>2 DEF TaskOK, IsBlocked
  <2>5. IsWorking(task[t]) => IsWorking(r) \/ IsDoomed(r)
    BY <2>2, <2>3 DEF IsWorking, IsDoomed
  <2> QED
    BY <2>1, <2>2, <2>4, <2>5, OneTask
<1> QED
  BY <1>2, <1>3, <1>4 DEF Terminate

\* endSequence() of a reader or writer: it is not at work any more, but the next one is
\* woken, or nobody waits, or the operator types.
LEMMA EndSequenceStep ==
    ASSUME Inv, NEW t \in Tasks, EndSequence(t)
    PROVE  Inv' /\ Passed
<1> DEFINE left == [task EXCEPT ![t].at = "leaving"]
<1>1. /\ TasksOK(task) /\ task \in [Tasks -> Task] /\ task[t].at = "io" /\ ConsoleOK
      /\ InputOK(waitingForInput, Taken, task) /\ OutputOK(waitingForOutput, task)
      /\ StartNextWriter(left) /\ Taken' = Taken
      /\ UNCHANGED <<waitingForInput, inputStarted, lastTaskEntered, console, mutexLost>>
  BY DEF Inv, TasksOK, EndSequence, Taken
<1>2. /\ left \in [Tasks -> Task]
      /\ left[t].at = "leaving" /\ left[t].taskState = task[t].taskState
      /\ left[t].semaBlock = task[t].semaBlock
      /\ \A u \in Tasks : u # t => left[u] = task[u]
  BY <1>1 DEF Task
<1> HIDE DEF left
<1>4. TasksOK(left)
  <2>1. TaskOK(left[t])
    BY <1>1, <1>2 DEF TasksOK, TaskOK
  <2> QED
    BY <1>1, <1>2, <2>1 DEF TasksOK
<1>5. \A d : BlockedIn(left, d) = BlockedIn(task, d)
  BY <1>1, <1>2 DEF BlockedIn, IsBlocked
<1>6. DoomedIn(left) = DoomedIn(task)
  BY <1>1, <1>2 DEF DoomedIn, IsDoomed
<1>7. OutputOK(waitingForOutput, left) /\ writerInProgress \in BOOLEAN
  BY <1>1, <1>5 DEF OutputOK, ConsoleOK
<1>8. /\ TasksOK(task') /\ OutputOK(waitingForOutput', task')
      /\ writerInProgress' \in BOOLEAN
      /\ BlockedIn(task', "IN") = BlockedIn(task, "IN")
      /\ waitingForOutput' # <<>> \/ writerInProgress' =>
            \/ inputStarted \/ WorkingIn(task') # {}
            \/ DoomedIn(task') \ DoomedIn(task) # {}
  BY <1>1, <1>4, <1>5, <1>6, <1>7, StartNextWriterOK
<1>9. ConsoleOK' /\ InputOK(waitingForInput', Taken', task')
  BY <1>1, <1>8 DEF ConsoleOK, InputOK
<1>10. Passed
  BY <1>1, <1>8 DEF Passed, Served
<1> QED
  BY <1>8, <1>9, <1>10 DEF Inv

-----------------------------------------------------------------------------
\* A step of the operator or of the console thread that leaves the lists alone.
LEMMA ConsoleMoves ==
    ASSUME Inv, UNCHANGED <<lists, task>>, ConsoleOK', Passed,
           console.at # "hand", console'.at # "hand"
    PROVE  Inv' /\ Passed
<1>1. Taken = {} /\ Taken' = {}
  BY DEF Taken
<1> QED
  BY <1>1 DEF Inv, lists

LEMMA OperatorStep ==
    ASSUME Inv, Operator
    PROVE  Inv' /\ Passed
<1>0. ConsoleOK
  BY DEF Inv
<1>2. CASE FirstCharacter
  <2>1. /\ console.at \in {"idle", "refused"} /\ inputStarted' = TRUE
        /\ UNCHANGED <<lists, lastTaskEntered, console, mutexLost, task>>
    BY <1>2 DEF FirstCharacter, Types
  <2>2. ConsoleOK' /\ Passed
    BY <1>0, <2>1 DEF ConsoleOK, Passed, Served, lists
  <2> QED
    BY <2>1, <2>2, ConsoleMoves
<1>3. CASE LastErased
  <2>1. /\ console.at \in {"idle", "refused"} /\ inputStarted' = FALSE
        /\ console' = [console EXCEPT !.at = "serve"]
        /\ UNCHANGED <<lists, lastTaskEntered, mutexLost, task>>
    BY <1>3 DEF LastErased, Types
  <2>2. console' \in ConsoleThread /\ console'.at = "serve"
    BY <1>0, <2>1 DEF ConsoleOK, ConsoleThread
  <2>3. ConsoleOK' /\ Passed
    BY <1>0, <2>1, <2>2 DEF ConsoleOK, Passed, Served, lists
  <2> QED
    BY <2>1, <2>2, <2>3, ConsoleMoves
<1>4. ASSUME NEW at \in {"address", "take", "serve"}, NEW t \in Tasks \cup {None}, Line(at, t)
      PROVE  Inv' /\ Passed
  <2>1. /\ console.at \in {"idle", "refused"} /\ inputStarted' = FALSE
        /\ console' = [at |-> at, to |-> t]
        /\ UNCHANGED <<lists, lastTaskEntered, mutexLost, task>>
    BY <1>4 DEF Line, Types
  <2>2. console' \in ConsoleThread /\ console'.at = at
    BY <2>1 DEF ConsoleThread
  <2>3. ConsoleOK' /\ Passed
    BY <1>0, <2>1, <2>2 DEF ConsoleOK, Passed, Served, lists
  <2> QED
    BY <2>1, <2>2, <2>3, ConsoleMoves
<1> QED
  BY <1>2, <1>3, <1>4 DEF Operator, NamedLine, PlainLine, Command

LEMMA AddressStep ==
    ASSUME Inv, Address
    PROVE  Inv' /\ Passed
<1>0. ConsoleOK
  BY DEF Inv
<1> DEFINE waits == console.to \in QueueSet(waitingForInput)
<1>1. /\ console.at = "address"
      /\ lastTaskEntered' = IF waits THEN console.to ELSE None
      /\ console' = [console EXCEPT !.at = IF waits THEN "take" ELSE "serve", !.to = None]
      /\ UNCHANGED <<lists, inputStarted, mutexLost, task>>
  BY DEF Address
<1>2. console' \in ConsoleThread /\ console'.at \in {"take", "serve"}
  BY <1>0, <1>1 DEF ConsoleOK, ConsoleThread
<1>3. ConsoleOK'
  BY <1>0, <1>1, <1>2 DEF ConsoleOK, ConsoleThread, lists
<1>4. Passed
  BY <1>2 DEF Passed, Served
<1> QED
  BY <1>1, <1>2, <1>3, <1>4, ConsoleMoves

\* If the line is refused, nobody starts the next writer.
LEMMA TakeStep ==
    ASSUME Inv, Take
    PROVE  Inv' /\ Passed
<1>0. /\ ConsoleOK /\ TasksOK(task)
      /\ InputOK(waitingForInput, Taken, task) /\ OutputOK(waitingForOutput, task)
  BY DEF Inv
<1>1. /\ console.at = "take" /\ Taken = {}
      /\ UNCHANGED <<waitingForOutput, writerInProgress, inputStarted, lastTaskEntered,
                     mutexLost, task>>
  BY DEF Take, Taken
<1>2. ASSUME NEW at \in {"serve", "refused"}, console' = [console EXCEPT !.at = at],
             UNCHANGED waitingForInput
      PROVE  Inv' /\ Passed
  <2>1. console' \in ConsoleThread /\ console'.at = at
    BY <1>0, <1>2 DEF ConsoleOK, ConsoleThread
  <2>2. ConsoleOK' /\ Passed
    BY <1>0, <1>1, <1>2, <2>1 DEF ConsoleOK, Passed, Served
  <2> QED
    BY <1>1, <1>2, <2>1, <2>2, ConsoleMoves DEF lists
<1>3. CASE /\ lastTaskEntered \in QueueSet(waitingForInput)
           /\ waitingForInput' = Remove(waitingForInput, lastTaskEntered)
           /\ console' = [console EXCEPT !.at = "hand"]
  <2>1. console' \in ConsoleThread /\ console'.at = "hand"
    BY <1>0, <1>3 DEF ConsoleOK, ConsoleThread
  <2>2. ConsoleOK' /\ Passed
    BY <1>0, <1>1, <1>3, <2>1 DEF ConsoleOK, Passed, Served
  <2>4. Taken' = {lastTaskEntered}
    BY <1>1, <2>1 DEF Taken
  <2> DEFINE q == Remove(waitingForInput, lastTaskEntered)
  <2>5. /\ q \in Seq(Tasks) /\ Distinct(q)
        /\ QueueSet(q) = QueueSet(waitingForInput) \ {lastTaskEntered}
    BY <1>0, RemoveProperties DEF InputOK
  <2> HIDE DEF q
  <2>6. InputOK(waitingForInput', Taken', task')
    BY <1>0, <1>1, <1>3, <2>4, <2>5 DEF InputOK, q
  <2>7. OutputOK(waitingForOutput', task') /\ TasksOK(task')
    BY <1>0, <1>1
  <2> QED
    BY <2>2, <2>6, <2>7 DEF Inv
<1> QED
  BY <1>2, <1>3 DEF Take

\* consoleLoop() unblocks the task that the line is for; it will start the next writer if
\* it is not to be terminated.
LEMMA HandStep ==
    ASSUME Inv, Hand
    PROVE  Inv' /\ Passed
<1> DEFINE t == lastTaskEntered
           r == Unblock(task[t])
<1>0. /\ ConsoleOK /\ TasksOK(task)
      /\ InputOK(waitingForInput, Taken, task) /\ OutputOK(waitingForOutput, task)
  BY DEF Inv
<1>1. /\ console.at = "hand" /\ Taken = {t} /\ console' = [console EXCEPT !.at = "idle"]
      /\ Replaced(task', task, t, r)
      /\ UNCHANGED <<lists, inputStarted, lastTaskEntered, mutexLost>>
  BY DEF Hand, Taken, Replaced
<1>2. console' \in ConsoleThread /\ console'.at = "idle"
  BY <1>0, <1>1 DEF ConsoleOK, ConsoleThread
<1>3. t \in BlockedIn(task, "IN") /\ t \notin QueueSet(waitingForInput)
  BY <1>0, <1>1 DEF InputOK
<1>4. t \in Tasks /\ task[t] \in Task /\ TaskOK(task[t]) /\ IsBlocked(task[t], "IN")
  BY <1>0, <1>3 DEF BlockedIn, TasksOK
<1>5. /\ r \in Task /\ TaskOK(r)
      /\ IsWorking(r) \/ IsDoomed(r)
      /\ \A d : ~IsBlocked(r, d)
  BY <1>4, Unblocked
<1> HIDE DEF r
<1>6. /\ TasksOK(task') /\ \A d : BlockedIn(task', d) = BlockedIn(task, d) \ {t}
      /\ IsWorking(r) => WorkingIn(task') = WorkingIn(task) \cup {t}
      /\ IsDoomed(r) => t \in DoomedIn(task')
  BY <1>0, <1>1, <1>4, <1>5, Changed
<1>7. t \notin BlockedIn(task, "OUT") /\ t \notin DoomedIn(task)
  BY <1>4, BlockedIdle DEF BlockedIn, DoomedIn, IsBlocked
<1>8. OutputOK(waitingForOutput', task')
  <2>1. BlockedIn(task', "OUT") = BlockedIn(task, "OUT")
    BY <1>6, <1>7
  <2> QED
    BY <1>0, <1>1, <2>1 DEF OutputOK, lists
<1>9. InputOK(waitingForInput', Taken', task')
  <2>1. Taken' = {}
    BY <1>2 DEF Taken
  <2>2. QueueSet(waitingForInput) = BlockedIn(task', "IN")
    BY <1>0, <1>1, <1>3, <1>6 DEF InputOK
  <2> QED
    BY <1>0, <1>1, <2>1, <2>2 DEF InputOK, lists
<1>10. Passed
  BY <1>5, <1>6, <1>7 DEF Passed, Served
<1>12. ConsoleOK'
  BY <1>0, <1>1, <1>2 DEF ConsoleOK, lists
<1> QED
  BY <1>6, <1>8, <1>9, <1>10, <1>12 DEF Inv

LEMMA ServeStep ==
    ASSUME Inv, Serve
    PROVE  Inv' /\ Passed
<1>0. /\ ConsoleOK /\ TasksOK(task)
      /\ InputOK(waitingForInput, Taken, task) /\ OutputOK(waitingForOutput, task)
  BY DEF Inv
<1>1. /\ console.at = "serve" /\ console' = [console EXCEPT !.at = "idle"]
      /\ StartNextWriter(task)
      /\ UNCHANGED <<waitingForInput, inputStarted, lastTaskEntered, mutexLost>>
  BY DEF Serve
<1>2. console' \in ConsoleThread /\ console'.at = "idle"
  BY <1>0, <1>1 DEF ConsoleOK, ConsoleThread
<1>3. Taken = {} /\ Taken' = {}
  BY <1>1, <1>2 DEF Taken
<1>4. writerInProgress \in BOOLEAN
  BY <1>0 DEF ConsoleOK
<1>5. /\ TasksOK(task') /\ OutputOK(waitingForOutput', task')
      /\ writerInProgress' \in BOOLEAN
      /\ BlockedIn(task', "IN") = BlockedIn(task, "IN")
      /\ waitingForOutput' # <<>> \/ writerInProgress' =>
            \/ inputStarted \/ WorkingIn(task') # {}
            \/ DoomedIn(task') \ DoomedIn(task) # {}
  BY <1>0, <1>1, <1>4, StartNextWriterOK
<1>6. ConsoleOK' /\ InputOK(waitingForInput', Taken', task')
  BY <1>0, <1>1, <1>2, <1>3, <1>5 DEF ConsoleOK, InputOK
<1>7. Passed
  BY <1>1, <1>5 DEF Passed, Served
<1> QED
  BY <1>5, <1>6, <1>7 DEF Inv

-----------------------------------------------------------------------------
LEMMA InitInv ==
    ASSUME Init
    PROVE  Inv
<1>1. ConsoleOK /\ Taken = {}
  BY ConsoleAssumption DEF Init, ConsoleOK, ConsoleThread, Taken
<1>2. /\ task \in [Tasks -> Task] /\ \A t \in Tasks : task[t] = Running
      /\ Running \in Task
  BY DEF Init, Running, Task
<1>3. /\ TaskOK(Running) /\ \A d : ~IsBlocked(Running, d)
  BY DEF Running, TaskOK, IsBlocked
<1>4. TasksOK(task) /\ \A d : BlockedIn(task, d) = {}
  BY <1>2, <1>3 DEF TasksOK, BlockedIn
<1>5. /\ <<>> \in Seq(Tasks) /\ QueueSet(<<>>) = {} /\ Distinct(<<>>)
      /\ SortedBy(<<>>, Prio)
  BY DEF QueueSet, Distinct, SortedBy
<1> QED
  BY <1>1, <1>4, <1>5 DEF Init, Inv, InputOK, OutputOK

LEMMA NextStep ==
    ASSUME Inv, [Next]_vars
    PROVE  Inv' /\ Passed
<1>1. ASSUME NEW t \in Tasks, TaskStep(t) \/ SetLocation(t)
      PROVE  Inv' /\ Passed
  BY <1>1, WakeStep, EndSequenceStep, LeaveIOStep, SetLocationStep DEF TaskStep
<1>2. ASSUME NEW t \in Tasks, NEW direction \in {"IN", "OUT"}, BeginSequence(t, direction)
      PROVE  Inv' /\ Passed
  BY <1>2, BeginSequenceStep
<1>3. ASSUME NEW t \in Disturbed, Suspend(t) \/ Continue(t) \/ Terminate(t) \/ Activate(t)
      PROVE  Inv' /\ Passed
  BY <1>3, ConsoleAssumption, SuspendStep, ContinueStep, TerminateStep, ActivateStep
<1>4. CASE ConsoleStep
  BY <1>4, AddressStep, TakeStep, HandStep, ServeStep DEF ConsoleStep
<1>5. CASE Operator
  BY <1>5, OperatorStep
<1>6. CASE UNCHANGED vars
  BY <1>6 DEF vars, lists, Inv, ConsoleOK, InputOK, OutputOK, Taken, Passed, Served
<1> QED
  BY <1>1, <1>2, <1>3, <1>4, <1>5, <1>6 DEF Next

LEMMA ConsoleInvariant == Spec => []Inv
<1>1. Inv /\ [Next]_vars => Inv'
  BY NextStep
<1> QED
  BY InitInv, <1>1, PTL DEF Spec

-----------------------------------------------------------------------------
\* The variables keep their types; above all no semaBlock is signalled a second time
\* before its task has waited for it.
THEOREM ConsoleTypes == Spec => []TypeOK
<1>1. Inv => TypeOK
  BY InvImplies
<1> QED
  BY ConsoleInvariant, <1>1, PTL

\* The lists hold exactly the tasks that are blocked and not woken, each in the list of its
\* direction and the writers by priority, wherever tasks are suspended, continued and
\* terminated.
THEOREM ConsoleLists == Spec => []ListsMatch
<1>1. Inv => ListsMatch
  BY InvImplies
<1> QED
  BY ConsoleInvariant, <1>1, PTL

\* While writers wait or the console is kept for one, the last one who could start the next
\* writer does not leave without having done so, but for the two ways HandedOn names: a
\* line that is refused, and a task that is terminated when it has, or gets, its turn.
THEOREM ConsoleHandedOn == Spec => HandedOn
<1> DEFINE Hands ==
      SomebodyServes =>
         \/ SomebodyServes'
         \/ console.at = "take" /\ console'.at = "refused"
         \/ \E t \in Tasks : t \in Doomed' \ Doomed
         \/ \E t \in Working : task'[t].taskState = "TERMINATED"
<1>1. Inv /\ [Next]_vars => [Hands]_vars
  BY NextStep, PassedImplies
<1>2. HandedOn <=> [][Hands]_vars
  BY DEF HandedOn
<1> QED
  BY ConsoleInvariant, <1>1, <1>2, PTL DEF Spec

=============================================================================
