--------------------------- MODULE TaskingProofs ---------------------------
(***************************************************************************)
(* mutexTasks is neither lost nor released twice, no task has two threads, *)
(* and a new thread finds nothing that was meant for an earlier one: for   *)
(* any tasks and threads, and any programs that are Orderly.               *)
(*                                                                         *)
(* The invariant has three parts: the shape of the threads (which task     *)
(* they belong to and whom they control), what a control block, the place  *)
(* of the task's thread and the operation on the task have to do with each *)
(* other, and who keeps mutexTasks.  They are predicates of m, c, f, P,    *)
(* the values of mutexTasks, tcb, thr and of the program, so that the      *)
(* lemmas about a step are facts about values.                             *)
(***************************************************************************)
EXTENDS Tasking, TLAPS, FiniteSetTheorems

\* A thread at one of these places terminates, or controls, the task it is on.
Terminating == {"terminatingSuspended", "terminatingTwice", "terminating"}
Controlling == Terminating \cup {"suspending", "suspendedIt", "continuing", "terminatedIt"}

\* The places of a thread whose task is RUNNING, except around a blocking.
Active == Controlling \cup {"body", "stmt", "end", "activating"}

\* The timer thread has no body; each of its handlers is one statement.
AtTimer == Controlling \cup {"stmt", "activating"}

AtPipe == {"suspended", "resumedC", "resumedT"}

CyclicIn(P, t) == [by |-> NoTask, op |-> "timedActivate", on |-> t] \in P

\* The threads of task t, and those that control it; there is at most one of either
\* (OnlyThread, OnlyController).
Of(f, t) == {th \in Threads : f[th].task = t}
On(f, t) == {th \in AllThreads : f[th].place \in Controlling /\ f[th].on = t}

\* Where the thread of task t is, and what the one that controls it does.
Place(f, t) == IF Of(f, t) = {} THEN "none" ELSE f[CHOOSE th \in Of(f, t) : TRUE].place
Op(f, t) == IF On(f, t) = {} THEN "idle" ELSE f[CHOOSE th \in On(f, t) : TRUE].place

Activating(f, t) == \E th \in AllThreads : f[th].place = "activating" /\ f[th].on = t

-----------------------------------------------------------------------------
(* The shape of the threads.                                               *)

\* The thread record u executes an operation that its program has.
Permitted(P, u) ==
    /\ u.place \in Controlling =>
         /\ u.task # u.on
         /\ \E op \in Control : [by |-> u.task, op |-> op, on |-> u.on] \in P
    /\ u.place \in Terminating \cup {"terminatedIt"} =>
         [by |-> u.task, op |-> "terminate", on |-> u.on] \in P

\* A thread of the pool is unused or belongs to a task, whose only one it is; the timer
\* thread belongs to none and is never suspended.
Shape(f, P) ==
    /\ f \in [AllThreads -> Thread]
    /\ \A th \in Threads : f[th].task = NoTask <=> f[th].place = "none"
    /\ f[Timer].task = NoTask /\ f[Timer].place \in AtTimer
    /\ \A th, x \in Threads :
         f[th].task = f[x].task => th = x \/ f[th].task = NoTask \/ CyclicIn(P, f[th].task)
    /\ \A th \in AllThreads : Permitted(P, f[th])

LEMMA OnlyThread ==
    ASSUME NEW f, NEW P, Shape(f, P), NEW th \in Threads, NEW t \in Tasks, f[th].task = t,
           ~CyclicIn(P, t)
    PROVE  Of(f, t) = {th} /\ Place(f, t) = f[th].place
<1>1. \A x \in Threads : f[x].task = t => x = th
  BY TaskingAssumption DEF Shape
<1>2. Of(f, t) = {th}
  BY <1>1 DEF Of
<1>3. (CHOOSE x \in Of(f, t) : TRUE) = th
  BY <1>2
<1> QED
  BY <1>2, <1>3 DEF Place

\* Two threads that control t are the same.
LEMMA OnlyController ==
    ASSUME NEW f, NEW P, Shape(f, P), Orderly(P), NEW t \in Tasks, NEW th \in On(f, t)
    PROVE  On(f, t) = {th} /\ Op(f, t) = f[th].place
<1>1. ASSUME NEW x \in On(f, t) PROVE x = th
  <2>1. /\ th \in AllThreads /\ f[th].place \in Controlling /\ f[th].on = t
        /\ x \in AllThreads /\ f[x].place \in Controlling /\ f[x].on = t
    BY <1>1 DEF On
  <2>2. PICK o1 \in Control : [by |-> f[th].task, op |-> o1, on |-> t] \in P
    BY <2>1 DEF Shape, Permitted
  <2>3. PICK o2 \in Control : [by |-> f[x].task, op |-> o2, on |-> t] \in P
    BY <2>1 DEF Shape, Permitted
  <2>4. f[th].task # t /\ f[x].task # t
    BY <2>1 DEF Shape, Permitted
  <2>5. f[th].task = f[x].task
    BY <2>2, <2>3, <2>4 DEF Orderly
  <2>6. ~CyclicIn(P, f[th].task)
    BY <2>2 DEF Orderly, CyclicIn
  <2>7. f[th].place # "none" /\ f[x].place # "none"
    BY <2>1 DEF Controlling, Terminating
  <2>8. CASE f[th].task = NoTask
    BY <2>1, <2>5, <2>7, <2>8 DEF Shape, AllThreads
  <2>9. CASE f[th].task # NoTask
    BY <2>1, <2>5, <2>6, <2>9 DEF Shape, AllThreads
  <2> QED
    BY <2>8, <2>9
<1>2. On(f, t) = {th}
  BY <1>1
<1>3. (CHOOSE x \in On(f, t) : TRUE) = th
  BY <1>2
<1> QED
  BY <1>2, <1>3 DEF Op

LEMMA NoController ==
    ASSUME NEW f, NEW t, On(f, t) = {}
    PROVE  Op(f, t) = "idle"
  BY DEF Op

\* Who executes an operation on t is the only one that may do so.
LEMMA ControllerIdle ==
    ASSUME NEW f, NEW P, Shape(f, P), Orderly(P), NEW t \in Tasks, NEW th \in AllThreads,
           f[th].place = "stmt", f[th].task # t, NEW op \in Control,
           [by |-> f[th].task, op |-> op, on |-> t] \in P
    PROVE  On(f, t) = {} /\ Op(f, t) = "idle" /\ ~CyclicIn(P, t)
<1>1. ASSUME NEW x \in On(f, t) PROVE FALSE
  <2>1. x \in AllThreads /\ f[x].place \in Controlling /\ f[x].on = t
    BY <1>1 DEF On
  <2>2. f[x].task # t /\ \E o2 \in Control : [by |-> f[x].task, op |-> o2, on |-> t] \in P
    BY <2>1 DEF Shape, Permitted
  <2>3. f[th].task = f[x].task
    BY <2>2 DEF Orderly
  <2>4. ~CyclicIn(P, f[th].task)
    BY DEF Orderly, CyclicIn
  <2>5. f[x].place # "none" /\ f[x].place # "stmt"
    BY <2>1 DEF Controlling, Terminating
  <2>6. CASE f[th].task = NoTask
    BY <2>1, <2>3, <2>5, <2>6 DEF Shape, AllThreads
  <2>7. CASE f[th].task # NoTask
    BY <2>1, <2>3, <2>4, <2>5, <2>7 DEF Shape, AllThreads
  <2> QED
    BY <2>6, <2>7
<1>2. ~CyclicIn(P, t)
  BY DEF Orderly, CyclicIn
<1> QED
  BY <1>1, <1>2, NoController

-----------------------------------------------------------------------------
(* A thread goes to another place, ends, or is created.                    *)

LEMMA MoveShape ==
    ASSUME NEW f, NEW P, Shape(f, P), NEW th \in AllThreads, NEW u \in Thread,
           u.task = f[th].task, f[th].place # "none", u.place # "none",
           th = Timer => u.place \in AtTimer, Permitted(P, u)
    PROVE  Shape([f EXCEPT ![th] = u], P)
<1> DEFINE g == [f EXCEPT ![th] = u]
<1>1. f \in [AllThreads -> Thread]
  BY DEF Shape
<1>2. /\ g \in [AllThreads -> Thread] /\ g[th] = u
      /\ \A x \in AllThreads : x # th => g[x] = f[x]
  BY <1>1
<1> HIDE DEF g
<1>3. \A x \in AllThreads : g[x].task = f[x].task
  BY <1>2
<1>4. \A x \in Threads : g[x].task = NoTask <=> g[x].place = "none"
  BY <1>2, <1>3 DEF Shape, AllThreads
<1>5. g[Timer].task = NoTask /\ g[Timer].place \in AtTimer
  BY <1>2, <1>3 DEF Shape, AllThreads
<1>6. \A x, y \in Threads :
         g[x].task = g[y].task => x = y \/ g[x].task = NoTask \/ CyclicIn(P, g[x].task)
  BY <1>3 DEF Shape, AllThreads
<1>7. \A x \in AllThreads : Permitted(P, g[x])
  BY <1>2 DEF Shape
<1> QED
  BY <1>2, <1>4, <1>5, <1>6, <1>7 DEF Shape, g

\* Only the place of its own task changes.
LEMMA MovePlace ==
    ASSUME NEW f, NEW P, Shape(f, P), NEW th \in AllThreads, NEW u \in Thread,
           u.task = f[th].task, Shape([f EXCEPT ![th] = u], P), NEW t \in Tasks
    PROVE  LET g == [f EXCEPT ![th] = u] IN
           /\ Of(g, t) = Of(f, t)
           /\ t # u.task => Place(g, t) = Place(f, t)
           /\ t = u.task /\ ~CyclicIn(P, t) => Place(g, t) = u.place
<1> DEFINE g == [f EXCEPT ![th] = u]
<1>1. f \in [AllThreads -> Thread]
  BY DEF Shape
<1>2. g[th] = u /\ \A x \in AllThreads : x # th => g[x] = f[x]
  BY <1>1
<1>a. Shape(g, P)
  OBVIOUS
<1> HIDE DEF g
<1>3. Of(g, t) = Of(f, t)
  BY <1>2 DEF Of, AllThreads
<1>4. CASE t # u.task
  <2>1. \A x \in Of(f, t) : g[x] = f[x]
    BY <1>2, <1>4 DEF Of, AllThreads
  <2>2. Place(g, t) = Place(f, t)
    BY <1>3, <2>1 DEF Place
  <2> QED
    BY <1>3, <1>4, <2>2 DEF g
<1>5. CASE t = u.task
  <2>1. th \in Threads
    BY <1>5, TaskingAssumption DEF Shape, AllThreads
  <2>2. ~CyclicIn(P, t) => Place(g, t) = u.place
    BY <1>2, <1>5, <1>a, <2>1, OnlyThread
  <2> QED
    BY <1>3, <1>5, <2>2 DEF g
<1> QED
  BY <1>4, <1>5

\* A thread begins, goes on with or ends an operation on the task t.
LEMMA MoveOp ==
    ASSUME NEW f, NEW P, Orderly(P), Shape(f, P), NEW th \in AllThreads, NEW u \in Thread,
           Shape([f EXCEPT ![th] = u], P), NEW t \in Tasks
    PROVE  LET g == [f EXCEPT ![th] = u]
               before == f[th].place \in Controlling /\ f[th].on = t
               after == u.place \in Controlling /\ u.on = t
           IN
           /\ after => Op(g, t) = u.place
           /\ ~after /\ before => Op(g, t) = "idle"
           /\ ~after /\ ~before => Op(g, t) = Op(f, t)
<1> DEFINE g == [f EXCEPT ![th] = u]
           before == f[th].place \in Controlling /\ f[th].on = t
           after == u.place \in Controlling /\ u.on = t
<1>1. f \in [AllThreads -> Thread]
  BY DEF Shape
<1>2. g[th] = u /\ \A x \in AllThreads : x # th => g[x] = f[x]
  BY <1>1
<1>a. Shape(g, P)
  OBVIOUS
<1> HIDE DEF g
<1>3. ASSUME after PROVE Op(g, t) = u.place
  BY <1>2, <1>3, <1>a, OnlyController DEF On
<1>4. ASSUME ~after, before PROVE Op(g, t) = "idle"
  <2>1. On(f, t) = {th}
    BY <1>4, OnlyController DEF On
  <2>2. On(g, t) = {}
    BY <1>2, <1>4, <2>1 DEF On
  <2> QED
    BY <2>2, NoController
<1>5. ASSUME ~after, ~before PROVE Op(g, t) = Op(f, t)
  <2>1. On(g, t) = On(f, t)
    BY <1>2, <1>5 DEF On
  <2>2. \A x \in On(f, t) : g[x] = f[x]
    BY <1>2, <1>5 DEF On
  <2> QED
    BY <2>1, <2>2 DEF Op
<1> QED
  BY <1>3, <1>4, <1>5 DEF g

LEMMA MoveActivating ==
    ASSUME NEW f \in [AllThreads -> Thread], NEW th \in AllThreads, NEW u \in Thread,
           f[th].place # "activating", u.place # "activating", NEW t \in Tasks
    PROVE  Activating([f EXCEPT ![th] = u], t) <=> Activating(f, t)
  BY DEF Activating

\* The thread of a task ends.
LEMMA EndShape ==
    ASSUME NEW f, NEW P, Shape(f, P), NEW th \in Threads
    PROVE  Shape([f EXCEPT ![th] = Unused], P)
<1> DEFINE g == [f EXCEPT ![th] = Unused]
<1>1. f \in [AllThreads -> Thread] /\ Unused \in Thread /\ th \in AllThreads
  BY TaskingAssumption DEF Shape, Unused, Thread, AllThreads, Places
<1>2. /\ g \in [AllThreads -> Thread] /\ g[th] = Unused
      /\ \A x \in AllThreads : x # th => g[x] = f[x]
  BY <1>1
<1> HIDE DEF g
<1>3. Unused.task = NoTask /\ Unused.place = "none"
  BY DEF Unused
<1>4. \A x \in Threads : g[x].task = NoTask <=> g[x].place = "none"
  BY <1>2, <1>3 DEF Shape, AllThreads
<1>5. g[Timer].task = NoTask /\ g[Timer].place \in AtTimer
  BY <1>2, TaskingAssumption DEF Shape, AllThreads
<1>6. \A x, y \in Threads :
         g[x].task = g[y].task => x = y \/ g[x].task = NoTask \/ CyclicIn(P, g[x].task)
  BY <1>2, <1>3 DEF Shape, AllThreads
<1>7. \A x \in AllThreads : Permitted(P, g[x])
  BY <1>2, <1>3 DEF Shape, Permitted, Controlling, Terminating
<1> QED
  BY <1>2, <1>4, <1>5, <1>6, <1>7 DEF Shape, g

LEMMA EndPlace ==
    ASSUME NEW f, NEW P, Shape(f, P), NEW th \in Threads, NEW t \in Tasks,
           f[th].task # t \/ ~CyclicIn(P, t)
    PROVE  LET g == [f EXCEPT ![th] = Unused] IN
           /\ t # f[th].task => Place(g, t) = Place(f, t)
           /\ t = f[th].task => Place(g, t) = "none"
<1> DEFINE g == [f EXCEPT ![th] = Unused]
<1>1. f \in [AllThreads -> Thread] /\ th \in AllThreads
  BY DEF Shape, AllThreads
<1>2. g[th] = Unused /\ \A x \in AllThreads : x # th => g[x] = f[x]
  BY <1>1
<1> HIDE DEF g
<1>3. Unused.task # t
  BY TaskingAssumption DEF Unused
<1>4. CASE t # f[th].task
  <2>1. Of(g, t) = Of(f, t) /\ \A x \in Of(f, t) : g[x] = f[x]
    BY <1>2, <1>3, <1>4 DEF Of, AllThreads
  <2>2. Place(g, t) = Place(f, t)
    BY <2>1 DEF Place
  <2> QED
    BY <1>4, <2>2 DEF g
<1>5. CASE t = f[th].task
  <2>1. Of(f, t) = {th}
    BY <1>5, OnlyThread
  <2>2. Of(g, t) = {}
    BY <1>2, <1>3, <2>1 DEF Of, AllThreads
  <2> QED
    BY <1>5, <2>2 DEF Place, g
<1> QED
  BY <1>4, <1>5

\* The end of a thread that controls nobody changes nothing for the controlled tasks.
LEMMA EndOp ==
    ASSUME NEW f \in [AllThreads -> Thread], NEW th \in AllThreads,
           f[th].place \notin Controlling, f[th].place # "activating", NEW t \in Tasks
    PROVE  LET g == [f EXCEPT ![th] = Unused] IN
           Op(g, t) = Op(f, t) /\ (Activating(g, t) <=> Activating(f, t))
<1> DEFINE g == [f EXCEPT ![th] = Unused]
<1>1. g[th] = Unused /\ \A x \in AllThreads : x # th => g[x] = f[x]
  OBVIOUS
<1> HIDE DEF g
<1>2. Unused.place \notin Controlling /\ Unused.place # "activating"
  BY DEF Unused, Controlling, Terminating
<1>3. On(g, t) = On(f, t) /\ \A x \in On(f, t) : g[x] = f[x]
  BY <1>1, <1>2 DEF On
<1>4. Activating(g, t) <=> Activating(f, t)
  BY <1>1, <1>2 DEF Activating
<1>5. Op(g, t) = Op(f, t)
  BY <1>3 DEF Op
<1> QED
  BY <1>4, <1>5 DEF g

\* What pthread_create() makes of an unused thread.
New(t) == [place |-> "entry", task |-> t, on |-> t, return |-> "body"]

LEMMA NewShape ==
    ASSUME NEW f, NEW P, Shape(f, P), NEW n \in Threads, f[n].place = "none", NEW t \in Tasks,
           Of(f, t) = {} \/ CyclicIn(P, t)
    PROVE  Shape([f EXCEPT ![n] = New(t)], P)
<1> DEFINE g == [f EXCEPT ![n] = New(t)]
<1>1. f \in [AllThreads -> Thread] /\ New(t) \in Thread /\ n \in AllThreads
  BY DEF Shape, New, Thread, AllThreads, Places
<1>2. /\ g \in [AllThreads -> Thread] /\ g[n] = New(t)
      /\ \A x \in AllThreads : x # n => g[x] = f[x]
  BY <1>1
<1> HIDE DEF g
<1>3. New(t).task = t /\ New(t).place = "entry" /\ t # NoTask
  BY TaskingAssumption DEF New
<1>4. \A x \in Threads : g[x].task = NoTask <=> g[x].place = "none"
  BY <1>2, <1>3 DEF Shape, AllThreads
<1>5. g[Timer].task = NoTask /\ g[Timer].place \in AtTimer
  BY <1>2, TaskingAssumption DEF Shape, AllThreads
<1>6. \A x, y \in Threads :
         g[x].task = g[y].task => x = y \/ g[x].task = NoTask \/ CyclicIn(P, g[x].task)
  <2>1. CASE CyclicIn(P, t)
    BY <1>2, <1>3, <2>1 DEF Shape, AllThreads
  <2>2. CASE Of(f, t) = {}
    <3>1. \A x \in Threads : f[x].task # t
      BY <2>2 DEF Of
    <3> QED
      BY <1>2, <1>3, <3>1 DEF Shape, AllThreads
  <2> QED
    BY <2>1, <2>2
<1>7. \A x \in AllThreads : Permitted(P, g[x])
  BY <1>2, <1>3 DEF Shape, Permitted, Controlling, Terminating
<1> QED
  BY <1>2, <1>4, <1>5, <1>6, <1>7 DEF Shape, g

LEMMA NewPlace ==
    ASSUME NEW f, NEW P, Shape(f, P), NEW n \in Threads, f[n].place = "none", NEW t \in Tasks,
           Of(f, t) = {} \/ CyclicIn(P, t), NEW s \in Tasks
    PROVE  LET g == [f EXCEPT ![n] = New(t)] IN
           /\ s # t => Place(g, s) = Place(f, s)
           /\ s = t /\ ~CyclicIn(P, s) => Place(g, s) = "entry"
           /\ Op(g, s) = Op(f, s) /\ (Activating(g, s) <=> Activating(f, s))
<1> DEFINE g == [f EXCEPT ![n] = New(t)]
<1>1. f \in [AllThreads -> Thread] /\ n \in AllThreads
  BY DEF Shape, AllThreads
<1>2. g[n] = New(t) /\ \A x \in AllThreads : x # n => g[x] = f[x]
  BY <1>1
<1>a. Shape(g, P)
  BY NewShape
<1> HIDE DEF g
<1>3. New(t).task = t /\ New(t).place = "entry" /\ f[n].task = NoTask /\ s # NoTask
  BY TaskingAssumption DEF New, Shape
<1>4. s # t => Of(g, s) = Of(f, s) /\ \A x \in Of(f, s) : g[x] = f[x]
  BY <1>2, <1>3 DEF Of, AllThreads
<1>5. s # t => Place(g, s) = Place(f, s)
  BY <1>4 DEF Place
<1>6. s = t /\ ~CyclicIn(P, s) => Place(g, s) = "entry"
  BY <1>2, <1>3, <1>a, OnlyThread
<1>7. On(g, s) = On(f, s) /\ \A x \in On(f, s) : g[x] = f[x]
  BY <1>1, <1>2, <1>3 DEF On, Controlling, Terminating
<1>8. Activating(g, s) <=> Activating(f, s)
  BY <1>1, <1>2, <1>3 DEF Activating
<1>9. Op(g, s) = Op(f, s)
  BY <1>7 DEF Op
<1> QED
  BY <1>5, <1>6, <1>8, <1>9 DEF g

-----------------------------------------------------------------------------
(* A task with control block r, whose thread is at place p, while operation *)
(* o is executed on it and, if a, it is being activated.                    *)

\* The state of the task tells where its thread is.  A task that is terminated while it is
\* blocked still has to see that.
PlaceOK(r, p, o, a) ==
    /\ p = "none" => r.taskState = "TERMINATED"
    /\ p = "entry" => r.taskState = "TERMINATED" /\ a
    /\ p \in Active => r.taskState = "RUNNING"
    /\ p \in AtPipe => r.taskState = "SUSPENDED"
    /\ p = "blocked" /\ r.semaBlock = 0 => r.taskState \in {"BLOCKED", "SUSPENDED_BLOCKED"}
    /\ p = "unblocked" \/ (p = "blocked" /\ r.semaBlock # 0) =>
         \/ r.taskState = "RUNNING"
         \/ /\ r.taskState \in {"TERMINATED", "SUSPENDED_BLOCKED"}
            /\ r.asyncTerminateRequested /\ o = "terminating"
    /\ r.semaBlock # 0 => r.semaBlock = 1 /\ p = "blocked"
    /\ r.activateDone = IF a /\ p # "entry" THEN 1 ELSE 0

\* Each waits for as many acknowledgements as he will get, and only for his own.
RequestOK(r, p, o) ==
    /\ r.suspendWaiters + r.suspendDone = IF o = "suspending" THEN 1 ELSE 0
    /\ r.continueWaiters + r.continueDone = IF o = "continuing" THEN 1 ELSE 0
    /\ r.terminateWaiters + r.terminateDone =
         IF o = "terminating" THEN 1 ELSE IF o \in Terminating THEN 2 ELSE 0
    /\ p \in {"none", "entry"} =>
         r.suspendWaiters = 0 /\ r.continueWaiters = 0 /\ r.terminateWaiters = 0
    /\ r.terminateDone # 0 => p = "none" /\ r.terminateWaiters = 0
    /\ o = "terminatedIt" => p = "none"

\* The pipe has at most one character, that of the operation under way.
PipeOK(r, p, o) ==
    /\ r.pipeResume \in {<<>>, <<"c">>, <<"t">>}
    /\ r.pipeResume # <<>> => p = "suspended"
    /\ r.continueWaiters # 0 <=> r.pipeResume = <<"c">> \/ p = "resumedC"
    /\ o = "terminatingTwice" /\ r.terminateDone = 0 <=> r.pipeResume = <<"t">> \/ p = "resumedT"
    /\ o = "terminatingSuspended" => p = "suspended"

Local(r, p, o, a) ==
    /\ r \in TCB /\ ~r.schedActivateOverrun
    /\ PlaceOK(r, p, o, a) /\ RequestOK(r, p, o) /\ PipeOK(r, p, o)

\* What a step leaves alone that concerns mutexTasks and the program.
Calm(r, q) ==
    /\ q.statements = r.statements
    /\ q.continueDone = r.continueDone
    /\ q.taskState = "SUSPENDED_BLOCKED" <=> r.taskState = "SUSPENDED_BLOCKED"

USE DEF Active, AtPipe, Controlling, Terminating

LEMMA LocalActive ==
    ASSUME NEW r, NEW p \in Active, NEW q \in Active, NEW o, NEW a, Local(r, p, o, a),
           o # "terminatedIt"
    PROVE  Local(r, q, o, a)
  BY DEF Local, PlaceOK, RequestOK, PipeOK

\* entry()
Entered(r) ==
    [r EXCEPT !.asyncTerminateRequested = FALSE, !.asyncSuspendRequested = FALSE,
              !.suspendWaiters = 0, !.continueWaiters = 0, !.terminateWaiters = 0,
              !.taskState = "RUNNING", !.activateDone = @ + 1]

LEMMA LocalEntry ==
    ASSUME NEW r, NEW o, NEW a, Local(r, "entry", o, a)
    PROVE  Local(Entered(r), "body", o, a) /\ Calm(r, Entered(r))
<1> DEFINE q == Entered(r)
<1>1. r \in TCB
  BY DEF Local
<1>2. /\ q \in TCB /\ q.taskState = "RUNNING" /\ q.statements = r.statements
      /\ q.suspendWaiters = 0 /\ q.continueWaiters = 0 /\ q.terminateWaiters = 0
      /\ q.suspendDone = r.suspendDone /\ q.continueDone = r.continueDone
      /\ q.terminateDone = r.terminateDone /\ q.activateDone = r.activateDone + 1
      /\ q.semaBlock = r.semaBlock /\ q.pipeResume = r.pipeResume
      /\ q.schedActivateOverrun = r.schedActivateOverrun
  <2>1. r.activateDone + 1 \in Nat
    BY <1>1 DEF TCB
  <2>2. q \in TCB
    BY <1>1, <2>1 DEF TCB, Entered, TaskStates
  <2> QED
    BY <1>1, <2>2 DEF TCB, Entered
<1> HIDE DEF q
<1>3. PlaceOK(q, "body", o, a)
  BY <1>2 DEF Local, PlaceOK
<1>4. RequestOK(q, "body", o)
  BY <1>1, <1>2 DEF Local, RequestOK
<1>5. PipeOK(q, "body", o)
  BY <1>2 DEF Local, PipeOK, RequestOK
<1>6. Calm(r, q)
  BY <1>2 DEF Calm, Local, PlaceOK
<1> QED
  BY <1>2, <1>3, <1>4, <1>5, <1>6 DEF Local, q

\* terminateMySelf().
LEMMA DoneFields ==
    ASSUME NEW r \in TCB
    PROVE  LET q == Done(r) IN
           /\ q \in TCB /\ q.taskState = "TERMINATED" /\ q.statements = r.statements
           /\ q.suspendWaiters = 0 /\ q.suspendDone = r.suspendDone + r.suspendWaiters
           /\ q.continueWaiters = r.continueWaiters /\ q.continueDone = r.continueDone
           /\ q.terminateWaiters = 0
           /\ q.terminateDone = r.terminateDone + r.terminateWaiters
           /\ q.activateDone = r.activateDone /\ q.semaBlock = r.semaBlock
           /\ q.pipeResume = r.pipeResume /\ ~q.schedActivateOverrun
           /\ q.asyncTerminateRequested = r.asyncTerminateRequested
           /\ q.asyncSuspendRequested = r.asyncSuspendRequested
<1>1. /\ r.suspendDone + r.suspendWaiters \in Nat
      /\ r.terminateDone + r.terminateWaiters \in Nat
  BY DEF TCB
<1> DEFINE k == Acknowledged(r)
<1>2. k \in TCB
  BY <1>1 DEF Acknowledged, TCB
<1>3. /\ k.statements = r.statements
      /\ k.suspendWaiters = 0 /\ k.suspendDone = r.suspendDone + r.suspendWaiters
      /\ k.continueWaiters = r.continueWaiters /\ k.continueDone = r.continueDone
      /\ k.terminateWaiters = 0 /\ k.terminateDone = r.terminateDone + r.terminateWaiters
      /\ k.activateDone = r.activateDone /\ k.semaBlock = r.semaBlock
      /\ k.pipeResume = r.pipeResume
      /\ k.asyncTerminateRequested = r.asyncTerminateRequested
      /\ k.asyncSuspendRequested = r.asyncSuspendRequested
  BY DEF Acknowledged, TCB
<1> HIDE DEF k
<1>4. Done(r) = [k EXCEPT !.taskState = "TERMINATED", !.schedActivateOverrun = FALSE]
  BY DEF Done, k
<1> QED
  BY <1>2, <1>3, <1>4 DEF TCB, TaskStates

\* r with the request to terminate it taken back.
Unasked(r) == [r EXCEPT !.asyncTerminateRequested = FALSE]

LEMMA UnaskedFields ==
    ASSUME NEW r \in TCB
    PROVE  LET q == Unasked(r) IN
           /\ q \in TCB /\ q.taskState = r.taskState /\ q.statements = r.statements
           /\ q.suspendWaiters = r.suspendWaiters /\ q.suspendDone = r.suspendDone
           /\ q.continueWaiters = r.continueWaiters /\ q.continueDone = r.continueDone
           /\ q.terminateWaiters = r.terminateWaiters /\ q.terminateDone = r.terminateDone
           /\ q.activateDone = r.activateDone /\ q.semaBlock = r.semaBlock
           /\ q.pipeResume = r.pipeResume /\ q.schedActivateOverrun = r.schedActivateOverrun
           /\ q.asyncSuspendRequested = r.asyncSuspendRequested /\ ~q.asyncTerminateRequested
  BY DEF Unasked, TCB

LEMMA LocalExit ==
    ASSUME NEW r, NEW p \in {"body", "stmt", "end", "unblocked", "resumedT"}, NEW o, NEW a,
           Local(r, p, o, a), r.taskState # "SUSPENDED_BLOCKED", NEW k \in {r, Unasked(r)}
    PROVE  Local(Done(k), "none", o, a) /\ Calm(r, Done(k)) /\ ~k.schedActivateOverrun
<1> DEFINE q == Done(k)
<1>1. r \in TCB /\ Unasked(r) \in TCB
  BY UnaskedFields DEF Local
<1>2. /\ q \in TCB /\ q.taskState = "TERMINATED" /\ q.statements = r.statements
      /\ q.suspendWaiters = 0 /\ q.suspendDone = r.suspendDone + r.suspendWaiters
      /\ q.continueWaiters = r.continueWaiters /\ q.continueDone = r.continueDone
      /\ q.terminateWaiters = 0 /\ q.terminateDone = r.terminateDone + r.terminateWaiters
      /\ q.activateDone = r.activateDone /\ q.semaBlock = r.semaBlock
      /\ q.pipeResume = r.pipeResume /\ ~q.schedActivateOverrun
      /\ k.schedActivateOverrun = r.schedActivateOverrun
  BY <1>1, DoneFields, UnaskedFields
<1> HIDE DEF q
<1>3. PlaceOK(q, "none", o, a)
  BY <1>2 DEF Local, PlaceOK
<1>4. r.continueWaiters = 0 /\ r.pipeResume = <<>>
  BY DEF Local, PipeOK
<1>5. RequestOK(q, "none", o)
  <2>1. RequestOK(r, p, o)
    BY DEF Local
  <2>2. /\ r.suspendWaiters \in Nat /\ r.suspendDone \in Nat
        /\ r.terminateWaiters \in Nat /\ r.terminateDone \in Nat /\ r.continueDone \in Nat
    BY <1>1 DEF TCB
  <2>3. q.suspendWaiters + q.suspendDone = r.suspendWaiters + r.suspendDone
    BY <1>2, <2>2
  <2>4. q.terminateWaiters + q.terminateDone = r.terminateWaiters + r.terminateDone
    BY <1>2, <2>2
  <2>5. q.continueWaiters + q.continueDone = r.continueWaiters + r.continueDone
    BY <1>2
  <2> QED
    BY <1>2, <1>4, <2>1, <2>3, <2>4, <2>5 DEF RequestOK
<1>6. PipeOK(q, "none", o)
  <2>1. o = "terminatingTwice" => q.terminateDone = 2
    BY <1>1, <1>2, <1>5 DEF RequestOK, TCB
  <2>2. o # "terminatingSuspended"
    BY DEF Local, PipeOK
  <2> QED
    BY <1>2, <1>4, <2>1, <2>2 DEF PipeOK
<1>7. Calm(r, q)
  BY <1>2 DEF Calm
<1> QED
  BY <1>2, <1>3, <1>5, <1>6, <1>7 DEF Local, q

\* suspendMySelf(), called for the own SUSPEND or in a callback.
LEMMA LocalSuspended ==
    ASSUME NEW r, NEW p \in {"body", "stmt", "unblocked"}, NEW o, NEW a, Local(r, p, o, a),
           r.taskState # "SUSPENDED_BLOCKED",
           NEW k \in {r, [Unasked(r) EXCEPT !.asyncSuspendRequested = FALSE]}
    PROVE  Local(Suspended(k), "suspended", o, a) /\ Calm(r, Suspended(k))
<1> DEFINE q == Suspended(k)
<1>1. r \in TCB /\ Unasked(r) \in TCB
  BY UnaskedFields DEF Local
<1>2. /\ k \in TCB /\ k.statements = r.statements
      /\ k.suspendWaiters = r.suspendWaiters /\ k.suspendDone = r.suspendDone
      /\ k.continueWaiters = r.continueWaiters /\ k.continueDone = r.continueDone
      /\ k.terminateWaiters = r.terminateWaiters /\ k.terminateDone = r.terminateDone
      /\ k.activateDone = r.activateDone /\ k.semaBlock = r.semaBlock
      /\ k.pipeResume = r.pipeResume /\ k.schedActivateOverrun = r.schedActivateOverrun
  <2>1. CASE k = r
    BY <1>1, <2>1
  <2>2. CASE k = [Unasked(r) EXCEPT !.asyncSuspendRequested = FALSE]
    <3>1. k \in TCB
      BY <1>1, <2>2 DEF TCB
    <3> QED
      BY <1>1, <2>2, <3>1, UnaskedFields DEF TCB
  <2> QED
    BY <2>1, <2>2
<1>3. /\ q \in TCB /\ q.taskState = "SUSPENDED" /\ q.statements = r.statements
      /\ q.suspendWaiters = 0 /\ q.suspendDone = r.suspendDone + r.suspendWaiters
      /\ q.continueWaiters = r.continueWaiters /\ q.continueDone = r.continueDone
      /\ q.terminateWaiters = r.terminateWaiters /\ q.terminateDone = r.terminateDone
      /\ q.activateDone = r.activateDone /\ q.semaBlock = r.semaBlock
      /\ q.pipeResume = r.pipeResume /\ q.schedActivateOverrun = r.schedActivateOverrun
  <2>1. k.suspendDone + k.suspendWaiters \in Nat
    BY <1>2 DEF TCB
  <2>2. q \in TCB
    BY <1>2, <2>1 DEF TCB, Suspended, TaskStates
  <2> QED
    BY <1>2, <2>2 DEF TCB, Suspended
<1> HIDE DEF q
<1>4. PlaceOK(q, "suspended", o, a)
  BY <1>3 DEF Local, PlaceOK
<1>5. RequestOK(q, "suspended", o)
  <2>1. q.suspendWaiters + q.suspendDone = r.suspendWaiters + r.suspendDone
    BY <1>1, <1>3 DEF TCB
  <2> QED
    BY <1>3, <2>1 DEF Local, RequestOK
<1>6. PipeOK(q, "suspended", o)
  BY <1>3 DEF Local, PipeOK
<1>7. Calm(r, q)
  BY <1>3 DEF Calm
<1> QED
  BY <1>3, <1>4, <1>5, <1>6, <1>7 DEF Local, q

\* A callback that finds nothing to do.
LEMMA LocalOnward ==
    ASSUME NEW r, NEW p \in {"body", "unblocked"}, NEW q \in {"body", "stmt"}, NEW o, NEW a,
           Local(r, p, o, a), ~r.asyncTerminateRequested
    PROVE  Local(r, q, o, a)
<1>1. PlaceOK(r, q, o, a)
  BY DEF Local, PlaceOK
<1>2. RequestOK(r, q, o)
  BY DEF Local, RequestOK
<1>3. PipeOK(r, q, o)
  BY DEF Local, PipeOK
<1> QED
  BY <1>1, <1>2, <1>3 DEF Local

LEMMA Characters ==
    /\ Tail(<<"c">>) = <<>> /\ Tail(<<"t">>) = <<>>
    /\ Head(<<"c">>) = "c" /\ Head(<<"t">>) = "t"
    /\ Append(<<>>, "c") = <<"c">> /\ Append(<<>>, "t") = <<"t">>
    /\ <<"c">> # <<"t">> /\ <<"c">> # <<>> /\ <<"t">> # <<>>
    /\ <<>> \in Seq({"c", "t"}) /\ <<"c">> \in Seq({"c", "t"}) /\ <<"t">> \in Seq({"c", "t"})
<1>1. Tail(<<"c">>) = <<>> /\ Tail(<<"t">>) = <<>>
  OBVIOUS
<1>2. Head(<<"c">>) = "c" /\ Head(<<"t">>) = "t"
  OBVIOUS
<1>3. Append(<<>>, "c") = <<"c">> /\ Append(<<>>, "t") = <<"t">>
  OBVIOUS
<1>4. <<"c">> # <<"t">> /\ <<"c">> # <<>> /\ <<"t">> # <<>>
  OBVIOUS
<1>5. <<>> \in Seq({"c", "t"}) /\ <<"c">> \in Seq({"c", "t"}) /\ <<"t">> \in Seq({"c", "t"})
  OBVIOUS
<1> QED
  BY <1>1, <1>2, <1>3, <1>4, <1>5

LEMMA LocalReadPipe ==
    ASSUME NEW r, NEW o, NEW a, Local(r, "suspended", o, a), r.pipeResume # <<>>
    PROVE  LET q == [r EXCEPT !.pipeResume = Tail(@)]
               p == IF Head(r.pipeResume) = "c" THEN "resumedC" ELSE "resumedT"
           IN  Local(q, p, o, a) /\ Calm(r, q)
<1> DEFINE q == [r EXCEPT !.pipeResume = Tail(@)]
           p == IF Head(r.pipeResume) = "c" THEN "resumedC" ELSE "resumedT"
<1>1. r \in TCB /\ r.pipeResume \in {<<"c">>, <<"t">>}
  BY DEF Local, PipeOK
<1>2. Tail(r.pipeResume) = <<>> /\ <<>> \in Seq({"c", "t"})
  BY <1>1, Characters
<1>3. q = [r EXCEPT !.pipeResume = <<>>]
  BY <1>2
<1>4. /\ q \in TCB /\ q.taskState = r.taskState /\ q.statements = r.statements
      /\ q.suspendWaiters = r.suspendWaiters /\ q.suspendDone = r.suspendDone
      /\ q.continueWaiters = r.continueWaiters /\ q.continueDone = r.continueDone
      /\ q.terminateWaiters = r.terminateWaiters /\ q.terminateDone = r.terminateDone
      /\ q.activateDone = r.activateDone /\ q.semaBlock = r.semaBlock
      /\ q.pipeResume = <<>> /\ q.schedActivateOverrun = r.schedActivateOverrun
  BY <1>1, <1>2, <1>3 DEF TCB
<1>5. \/ p = "resumedC" /\ r.pipeResume = <<"c">>
      \/ p = "resumedT" /\ r.pipeResume = <<"t">>
  BY <1>1, Characters
<1> HIDE DEF q, p
<1>6. PlaceOK(q, p, o, a)
  BY <1>4, <1>5 DEF Local, PlaceOK
<1>7. RequestOK(q, p, o)
  BY <1>4, <1>5 DEF Local, RequestOK
<1>8. PipeOK(q, p, o)
  <2>1. o # "terminatingSuspended"
    <3>1. r.pipeResume = <<"c">> => r.continueWaiters # 0
      BY DEF Local, PipeOK
    <3>2. r.pipeResume = <<"t">> => o = "terminatingTwice"
      BY Characters DEF Local, PipeOK
    <3>3. r.continueWaiters # 0 => o = "continuing"
      <4>1. /\ r.continueWaiters \in Nat /\ r.continueDone \in Nat
            /\ r.continueWaiters + r.continueDone = IF o = "continuing" THEN 1 ELSE 0
        BY DEF Local, RequestOK, TCB
      <4> QED
        BY <4>1
    <3> QED
      BY <1>5, <3>1, <3>2, <3>3
  <2> QED
    BY <1>4, <1>5, <2>1, Characters DEF Local, PipeOK
<1> QED
  BY <1>4, <1>6, <1>7, <1>8 DEF Local, Calm, q, p

\* suspendMySelf() goes on.
Resumed(r) ==
    [r EXCEPT !.taskState = IF @ = "SUSPENDED" THEN "RUNNING" ELSE "BLOCKED",
              !.continueDone = @ + r.continueWaiters, !.continueWaiters = 0]

LEMMA LocalResumed ==
    ASSUME NEW r, NEW p \in {"body", "stmt"}, NEW o, NEW a, Local(r, "resumedC", o, a)
    PROVE  LET q == Resumed(r) IN
           /\ r.taskState = "SUSPENDED" /\ o = "continuing"
           /\ Local(q, p, o, a) /\ q.taskState = "RUNNING"
           /\ q.continueDone = 1 /\ q.statements = r.statements
<1> DEFINE q == Resumed(r)
<1>1. r \in TCB /\ r.taskState = "SUSPENDED"
  BY DEF Local, PlaceOK
<1>2. o = "continuing" /\ r.continueWaiters + r.continueDone = 1
  BY <1>1 DEF Local, PipeOK, RequestOK, TCB
<1>3. /\ q \in TCB /\ q.taskState = "RUNNING" /\ q.statements = r.statements
      /\ q.suspendWaiters = r.suspendWaiters /\ q.suspendDone = r.suspendDone
      /\ q.continueWaiters = 0 /\ q.continueDone = 1
      /\ q.terminateWaiters = r.terminateWaiters /\ q.terminateDone = r.terminateDone
      /\ q.activateDone = r.activateDone /\ q.semaBlock = r.semaBlock
      /\ q.pipeResume = r.pipeResume /\ q.schedActivateOverrun = r.schedActivateOverrun
  <2>1. r.continueDone + r.continueWaiters = 1
    BY <1>1, <1>2 DEF TCB
  <2>2. q = [r EXCEPT !.taskState = "RUNNING", !.continueDone = 1, !.continueWaiters = 0]
    BY <1>1, <2>1 DEF Resumed
  <2> HIDE DEF q
  <2>3. 1 \in Nat /\ 0 \in Nat
    OBVIOUS
  <2>4. q \in TCB
    BY <1>1, <2>2, <2>3 DEF TCB, TaskStates
  <2> QED
    BY <1>1, <2>2, <2>4 DEF TCB
<1> HIDE DEF q
<1>4. PlaceOK(q, p, o, a)
  BY <1>3 DEF Local, PlaceOK
<1>5. RequestOK(q, p, o)
  BY <1>2, <1>3 DEF Local, RequestOK
<1>6. PipeOK(q, p, o)
  BY <1>2, <1>3, Characters DEF Local, PipeOK
<1> QED
  BY <1>1, <1>2, <1>3, <1>4, <1>5, <1>6 DEF Local, q

LEMMA LocalBlock ==
    ASSUME NEW r, NEW o, NEW a, Local(r, "stmt", o, a)
    PROVE  LET q == [r EXCEPT !.taskState = "BLOCKED"] IN
           Local(q, "blocked", o, a) /\ Calm(r, q)
<1> DEFINE q == [r EXCEPT !.taskState = "BLOCKED"]
<1>1. r \in TCB
  BY DEF Local
<1>2. /\ q \in TCB /\ q.taskState = "BLOCKED" /\ q.statements = r.statements
      /\ q.suspendWaiters = r.suspendWaiters /\ q.suspendDone = r.suspendDone
      /\ q.continueWaiters = r.continueWaiters /\ q.continueDone = r.continueDone
      /\ q.terminateWaiters = r.terminateWaiters /\ q.terminateDone = r.terminateDone
      /\ q.activateDone = r.activateDone /\ q.semaBlock = r.semaBlock
      /\ q.pipeResume = r.pipeResume /\ q.schedActivateOverrun = r.schedActivateOverrun
  BY <1>1 DEF TCB, TaskStates
<1> HIDE DEF q
<1>3. PlaceOK(q, "blocked", o, a)
  BY <1>2 DEF Local, PlaceOK
<1>4. RequestOK(q, "blocked", o)
  BY <1>2 DEF Local, RequestOK
<1>5. PipeOK(q, "blocked", o)
  BY <1>2 DEF Local, PipeOK
<1>6. Calm(r, q)
  BY <1>2 DEF Calm, Local, PlaceOK
<1> QED
  BY <1>2, <1>3, <1>4, <1>5, <1>6 DEF Local, q

LEMMA LocalWakeUp ==
    ASSUME NEW r, NEW o, NEW a, Local(r, "blocked", o, a), r.semaBlock > 0
    PROVE  LET q == [r EXCEPT !.semaBlock = @ - 1] IN
           Local(q, "unblocked", o, a) /\ Calm(r, q)
<1> DEFINE q == [r EXCEPT !.semaBlock = @ - 1]
<1>1. r \in TCB
  BY DEF Local
<1>2. r.semaBlock = 1
  BY <1>1 DEF Local, PlaceOK, TCB
<1>3. q = [r EXCEPT !.semaBlock = 0]
  BY <1>2
<1>4. /\ q \in TCB /\ q.taskState = r.taskState /\ q.statements = r.statements
      /\ q.suspendWaiters = r.suspendWaiters /\ q.suspendDone = r.suspendDone
      /\ q.continueWaiters = r.continueWaiters /\ q.continueDone = r.continueDone
      /\ q.terminateWaiters = r.terminateWaiters /\ q.terminateDone = r.terminateDone
      /\ q.activateDone = r.activateDone /\ q.semaBlock = 0
      /\ q.pipeResume = r.pipeResume /\ q.schedActivateOverrun = r.schedActivateOverrun
      /\ q.asyncTerminateRequested = r.asyncTerminateRequested
  BY <1>1, <1>3 DEF TCB
<1> HIDE DEF q
<1>5. PlaceOK(q, "unblocked", o, a)
  BY <1>2, <1>4 DEF Local, PlaceOK
<1>6. RequestOK(q, "unblocked", o)
  BY <1>4 DEF Local, RequestOK
<1>7. PipeOK(q, "unblocked", o)
  BY <1>4 DEF Local, PipeOK
<1> QED
  BY <1>4, <1>5, <1>6, <1>7 DEF Local, Calm, q

-----------------------------------------------------------------------------
(* The operations of other tasks.                                          *)

LEMMA Small == 0 \in Nat /\ 1 \in Nat /\ 2 \in Nat
  OBVIOUS

\* unblock(), also of a task that is suspended in its blocking.
LEMMA LocalUnblock ==
    ASSUME NEW r, NEW p \in Places, NEW o, NEW a, Local(r, p, o, a),
           r.taskState = "BLOCKED" \/ (r.taskState = "SUSPENDED_BLOCKED" /\ o = "idle")
    PROVE  LET q == Unblocked(r) IN
           Local(q, p, o, a)
           /\ q.statements = r.statements /\ q.continueDone = r.continueDone
           /\ q.taskState # "SUSPENDED_BLOCKED"
<1> DEFINE q == Unblocked(r)
<1>1. r \in TCB
  BY DEF Local
<1>2. p = "blocked" /\ r.semaBlock = 0
  BY <1>1 DEF Local, PlaceOK, TCB, Places
<1>3. /\ q \in TCB /\ q.taskState = "RUNNING" /\ q.statements = r.statements
      /\ q.suspendWaiters = r.suspendWaiters /\ q.suspendDone = r.suspendDone
      /\ q.continueWaiters = r.continueWaiters /\ q.continueDone = r.continueDone
      /\ q.terminateWaiters = r.terminateWaiters
      /\ q.terminateDone = r.terminateDone /\ q.activateDone = r.activateDone
      /\ q.semaBlock = 1 /\ q.pipeResume = r.pipeResume
      /\ q.schedActivateOverrun = r.schedActivateOverrun
      /\ q.asyncTerminateRequested = r.asyncTerminateRequested
  <2>1. q = [r EXCEPT !.taskState = "RUNNING", !.semaBlock = 1]
    BY <1>1, <1>2 DEF TCB, Unblocked
  <2> HIDE DEF q
  <2>2. q \in TCB
    BY <1>1, <2>1, Small, Characters DEF TCB, TaskStates
  <2> QED
    BY <1>1, <2>1, <2>2 DEF TCB
<1> HIDE DEF q
<1>4. PlaceOK(q, p, o, a)
  BY <1>2, <1>3 DEF Local, PlaceOK
<1>5. RequestOK(q, p, o)
  BY <1>2, <1>3 DEF Local, RequestOK
<1>6. PipeOK(q, p, o)
  BY <1>2, <1>3, Characters DEF Local, PipeOK, RequestOK
<1> QED
  BY <1>2, <1>3, <1>4, <1>5, <1>6 DEF Local, q

\* CONTINUE of a task that has to go on waiting.
LEMMA LocalBlockAgain ==
    ASSUME NEW r, NEW p \in Places, NEW a, Local(r, p, "idle", a), r.taskState = "SUSPENDED_BLOCKED"
    PROVE  LET q == [r EXCEPT !.taskState = "BLOCKED"] IN
           Local(q, p, "idle", a)
           /\ q.statements = r.statements /\ q.continueDone = r.continueDone
           /\ q.taskState # "SUSPENDED_BLOCKED"
<1> DEFINE q == [r EXCEPT !.taskState = "BLOCKED"]
<1>1. r \in TCB
  BY DEF Local
<1>2. p = "blocked" /\ r.semaBlock = 0
  BY <1>1 DEF Local, PlaceOK, TCB, Places
<1>3. /\ q \in TCB /\ q.taskState = "BLOCKED" /\ q.statements = r.statements
      /\ q.suspendWaiters = r.suspendWaiters /\ q.suspendDone = r.suspendDone
      /\ q.continueWaiters = r.continueWaiters /\ q.continueDone = r.continueDone
      /\ q.terminateWaiters = r.terminateWaiters
      /\ q.terminateDone = r.terminateDone /\ q.activateDone = r.activateDone
      /\ q.semaBlock = r.semaBlock /\ q.pipeResume = r.pipeResume
      /\ q.schedActivateOverrun = r.schedActivateOverrun
      /\ q.asyncTerminateRequested = r.asyncTerminateRequested
  <2>1. q = [r EXCEPT !.taskState = "BLOCKED"]
    BY <1>1, <1>2 DEF TCB
  <2> HIDE DEF q
  <2>2. q \in TCB
    BY <1>1, <2>1, Small, Characters DEF TCB, TaskStates
  <2> QED
    BY <1>1, <2>1, <2>2 DEF TCB
<1> HIDE DEF q
<1>4. PlaceOK(q, p, "idle", a)
  BY <1>2, <1>3 DEF Local, PlaceOK
<1>5. RequestOK(q, p, "idle")
  BY <1>2, <1>3 DEF Local, RequestOK
<1>6. PipeOK(q, p, "idle")
  BY <1>2, <1>3, Characters DEF Local, PipeOK, RequestOK
<1> QED
  BY <1>2, <1>3, <1>4, <1>5, <1>6 DEF Local, q

LEMMA LocalSuspendBlocked ==
    ASSUME NEW r, NEW p \in Places, NEW a, Local(r, p, "idle", a), r.taskState = "BLOCKED"
    PROVE  LET q == [r EXCEPT !.taskState = "SUSPENDED_BLOCKED"] IN
           Local(q, p, "idle", a)
           /\ q.statements = r.statements /\ q.continueDone = r.continueDone
<1> DEFINE q == [r EXCEPT !.taskState = "SUSPENDED_BLOCKED"]
<1>1. r \in TCB
  BY DEF Local
<1>2. p = "blocked" /\ r.semaBlock = 0
  BY <1>1 DEF Local, PlaceOK, TCB, Places
<1>3. /\ q \in TCB /\ q.taskState = "SUSPENDED_BLOCKED"
      /\ q.statements = r.statements /\ q.suspendWaiters = r.suspendWaiters
      /\ q.suspendDone = r.suspendDone /\ q.continueWaiters = r.continueWaiters
      /\ q.continueDone = r.continueDone /\ q.terminateWaiters = r.terminateWaiters
      /\ q.terminateDone = r.terminateDone /\ q.activateDone = r.activateDone
      /\ q.semaBlock = r.semaBlock /\ q.pipeResume = r.pipeResume
      /\ q.schedActivateOverrun = r.schedActivateOverrun
      /\ q.asyncTerminateRequested = r.asyncTerminateRequested
  <2>1. q = [r EXCEPT !.taskState = "SUSPENDED_BLOCKED"]
    BY <1>1, <1>2 DEF TCB
  <2> HIDE DEF q
  <2>2. q \in TCB
    BY <1>1, <2>1, Small, Characters DEF TCB, TaskStates
  <2> QED
    BY <1>1, <2>1, <2>2 DEF TCB
<1> HIDE DEF q
<1>4. PlaceOK(q, p, "idle", a)
  BY <1>2, <1>3 DEF Local, PlaceOK
<1>5. RequestOK(q, p, "idle")
  BY <1>2, <1>3 DEF Local, RequestOK
<1>6. PipeOK(q, p, "idle")
  BY <1>2, <1>3, Characters DEF Local, PipeOK, RequestOK
<1> QED
  BY <1>2, <1>3, <1>4, <1>5, <1>6 DEF Local, q

\* SUSPEND of a running task.
LEMMA LocalAskSuspend ==
    ASSUME NEW r, NEW p \in Places, NEW a, Local(r, p, "idle", a), r.taskState = "RUNNING"
    PROVE  LET q == [r EXCEPT !.asyncSuspendRequested = TRUE, !.suspendWaiters = @ + 1] IN
           Local(q, p, "suspending", a) /\ Calm(r, q)
<1> DEFINE q == [r EXCEPT !.asyncSuspendRequested = TRUE, !.suspendWaiters = @ + 1]
<1>1. r \in TCB
  BY DEF Local
<1>2. r.suspendWaiters = 0 /\ r.suspendDone = 0
  BY <1>1 DEF Local, RequestOK, TCB
<1>3. p # "none" /\ p # "entry"
  BY DEF Local, PlaceOK
<1>4. /\ q \in TCB /\ q.taskState = r.taskState /\ q.statements = r.statements
      /\ q.suspendWaiters = 1 /\ q.suspendDone = r.suspendDone
      /\ q.continueWaiters = r.continueWaiters /\ q.continueDone = r.continueDone
      /\ q.terminateWaiters = r.terminateWaiters
      /\ q.terminateDone = r.terminateDone /\ q.activateDone = r.activateDone
      /\ q.semaBlock = r.semaBlock /\ q.pipeResume = r.pipeResume
      /\ q.schedActivateOverrun = r.schedActivateOverrun
      /\ q.asyncTerminateRequested = r.asyncTerminateRequested
  <2>1. q = [r EXCEPT !.asyncSuspendRequested = TRUE, !.suspendWaiters = 1]
    BY <1>1, <1>2, <1>3 DEF TCB
  <2> HIDE DEF q
  <2>2. q \in TCB
    BY <1>1, <2>1, Small, Characters DEF TCB, TaskStates
  <2> QED
    BY <1>1, <2>1, <2>2 DEF TCB
<1> HIDE DEF q
<1>5. PlaceOK(q, p, "suspending", a)
  BY <1>2, <1>3, <1>4 DEF Local, PlaceOK
<1>6. RequestOK(q, p, "suspending")
  BY <1>2, <1>3, <1>4 DEF Local, RequestOK
<1>7. PipeOK(q, p, "suspending")
  BY <1>2, <1>3, <1>4, Characters DEF Local, PipeOK, RequestOK
<1>8. Calm(r, q)
  BY <1>2, <1>3, <1>4 DEF Calm, Local, PlaceOK
<1> QED
  BY <1>4, <1>5, <1>6, <1>7, <1>8 DEF Local, q

LEMMA LocalSuspendAcknowledged ==
    ASSUME NEW r, NEW p \in Places, NEW a, Local(r, p, "suspending", a), r.suspendDone > 0
    PROVE  LET q == [r EXCEPT !.suspendDone = @ - 1] IN
           Local(q, p, "suspendedIt", a) /\ Calm(r, q)
<1> DEFINE q == [r EXCEPT !.suspendDone = @ - 1]
<1>1. r \in TCB
  BY DEF Local
<1>2. r.suspendWaiters = 0 /\ r.suspendDone = 1
  BY <1>1 DEF Local, RequestOK, TCB
<1>3. /\ q \in TCB /\ q.taskState = r.taskState /\ q.statements = r.statements
      /\ q.suspendWaiters = r.suspendWaiters /\ q.suspendDone = 0
      /\ q.continueWaiters = r.continueWaiters /\ q.continueDone = r.continueDone
      /\ q.terminateWaiters = r.terminateWaiters
      /\ q.terminateDone = r.terminateDone /\ q.activateDone = r.activateDone
      /\ q.semaBlock = r.semaBlock /\ q.pipeResume = r.pipeResume
      /\ q.schedActivateOverrun = r.schedActivateOverrun
      /\ q.asyncTerminateRequested = r.asyncTerminateRequested
  <2>1. q = [r EXCEPT !.suspendDone = 0]
    BY <1>1, <1>2 DEF TCB
  <2> HIDE DEF q
  <2>2. q \in TCB
    BY <1>1, <2>1, Small, Characters DEF TCB, TaskStates
  <2> QED
    BY <1>1, <2>1, <2>2 DEF TCB
<1> HIDE DEF q
<1>4. PlaceOK(q, p, "suspendedIt", a)
  BY <1>2, <1>3 DEF Local, PlaceOK
<1>5. RequestOK(q, p, "suspendedIt")
  BY <1>2, <1>3 DEF Local, RequestOK
<1>6. PipeOK(q, p, "suspendedIt")
  BY <1>2, <1>3, Characters DEF Local, PipeOK, RequestOK
<1>7. Calm(r, q)
  BY <1>2, <1>3 DEF Calm, Local, PlaceOK
<1> QED
  BY <1>3, <1>4, <1>5, <1>6, <1>7 DEF Local, q

\* CONTINUE of a task at its pipe.
LEMMA LocalAskContinue ==
    ASSUME NEW r, NEW p \in Places, NEW a, Local(r, p, "idle", a), r.taskState = "SUSPENDED"
    PROVE  LET q == [r EXCEPT !.continueWaiters = @ + 1, !.pipeResume = Append(@, "c")] IN
           Local(q, p, "continuing", a) /\ Calm(r, q)
<1> DEFINE q == [r EXCEPT !.continueWaiters = @ + 1, !.pipeResume = Append(@, "c")]
<1>1. r \in TCB
  BY DEF Local
<1>2. r.continueWaiters = 0 /\ r.continueDone = 0
  BY <1>1 DEF Local, RequestOK, TCB
<1>3. r.terminateWaiters = 0 /\ r.terminateDone = 0
  BY <1>1 DEF Local, RequestOK, TCB
<1>4. p = "suspended" /\ r.pipeResume = <<>>
  BY <1>1, <1>2, <1>3 DEF Local, PlaceOK, PipeOK, Places, TCB
<1>5. Append(r.pipeResume, "c") = <<"c">> /\ <<"c">> \in Seq({"c", "t"})
  BY <1>4, Characters
<1>6. /\ q \in TCB /\ q.taskState = r.taskState /\ q.statements = r.statements
      /\ q.suspendWaiters = r.suspendWaiters /\ q.suspendDone = r.suspendDone
      /\ q.continueWaiters = 1 /\ q.continueDone = r.continueDone
      /\ q.terminateWaiters = r.terminateWaiters
      /\ q.terminateDone = r.terminateDone /\ q.activateDone = r.activateDone
      /\ q.semaBlock = r.semaBlock /\ q.pipeResume = <<"c">>
      /\ q.schedActivateOverrun = r.schedActivateOverrun
      /\ q.asyncTerminateRequested = r.asyncTerminateRequested
  <2>1. q = [r EXCEPT !.continueWaiters = 1, !.pipeResume = <<"c">>]
    BY <1>1, <1>2, <1>3, <1>4, <1>5 DEF TCB
  <2> HIDE DEF q
  <2>2. q \in TCB
    BY <1>1, <2>1, Small, Characters DEF TCB, TaskStates
  <2> QED
    BY <1>1, <2>1, <2>2 DEF TCB
<1> HIDE DEF q
<1>7. PlaceOK(q, p, "continuing", a)
  BY <1>2, <1>3, <1>4, <1>5, <1>6 DEF Local, PlaceOK
<1>8. RequestOK(q, p, "continuing")
  BY <1>2, <1>3, <1>4, <1>5, <1>6 DEF Local, RequestOK
<1>9. PipeOK(q, p, "continuing")
  BY <1>2, <1>3, <1>4, <1>5, <1>6, Characters DEF Local, PipeOK, RequestOK
<1>10. Calm(r, q)
  BY <1>2, <1>3, <1>4, <1>5, <1>6 DEF Calm, Local, PlaceOK
<1> QED
  BY <1>6, <1>7, <1>8, <1>9, <1>10 DEF Local, q

LEMMA LocalContinued ==
    ASSUME NEW r, NEW p \in Places, NEW a, Local(r, p, "continuing", a), r.continueDone > 0
    PROVE  LET q == [r EXCEPT !.continueDone = @ - 1] IN
           Local(q, p, "idle", a)
           /\ q.statements = r.statements /\ q.continueDone = 0 /\ q.taskState = r.taskState
<1> DEFINE q == [r EXCEPT !.continueDone = @ - 1]
<1>1. r \in TCB
  BY DEF Local
<1>2. r.continueWaiters = 0 /\ r.continueDone = 1
  BY <1>1 DEF Local, RequestOK, TCB
<1>3. /\ q \in TCB /\ q.taskState = r.taskState /\ q.statements = r.statements
      /\ q.suspendWaiters = r.suspendWaiters /\ q.suspendDone = r.suspendDone
      /\ q.continueWaiters = r.continueWaiters /\ q.continueDone = 0
      /\ q.terminateWaiters = r.terminateWaiters
      /\ q.terminateDone = r.terminateDone /\ q.activateDone = r.activateDone
      /\ q.semaBlock = r.semaBlock /\ q.pipeResume = r.pipeResume
      /\ q.schedActivateOverrun = r.schedActivateOverrun
      /\ q.asyncTerminateRequested = r.asyncTerminateRequested
  <2>1. q = [r EXCEPT !.continueDone = 0]
    BY <1>1, <1>2 DEF TCB
  <2> HIDE DEF q
  <2>2. q \in TCB
    BY <1>1, <2>1, Small, Characters DEF TCB, TaskStates
  <2> QED
    BY <1>1, <2>1, <2>2 DEF TCB
<1> HIDE DEF q
<1>4. PlaceOK(q, p, "idle", a)
  BY <1>2, <1>3 DEF Local, PlaceOK
<1>5. RequestOK(q, p, "idle")
  BY <1>2, <1>3 DEF Local, RequestOK
<1>6. PipeOK(q, p, "idle")
  BY <1>2, <1>3, Characters DEF Local, PipeOK, RequestOK
<1> QED
  BY <1>2, <1>3, <1>4, <1>5, <1>6 DEF Local, q

\* TERMINATE of a running task.
LEMMA LocalAskTermination ==
    ASSUME NEW r, NEW p \in Places, NEW a, Local(r, p, "idle", a), r.taskState = "RUNNING"
    PROVE  LET q == AskTermination(r, 1) IN
           Local(q, p, "terminating", a) /\ Calm(r, q)
<1> DEFINE q == AskTermination(r, 1)
<1>1. r \in TCB
  BY DEF Local
<1>2. r.terminateWaiters = 0 /\ r.terminateDone = 0
  BY <1>1 DEF Local, RequestOK, TCB
<1>3. p # "none" /\ p # "entry"
  BY DEF Local, PlaceOK
<1>4. /\ q \in TCB /\ q.taskState = r.taskState /\ q.statements = r.statements
      /\ q.suspendWaiters = r.suspendWaiters /\ q.suspendDone = r.suspendDone
      /\ q.continueWaiters = r.continueWaiters /\ q.continueDone = r.continueDone
      /\ q.terminateWaiters = 1 /\ q.terminateDone = r.terminateDone
      /\ q.activateDone = r.activateDone /\ q.semaBlock = r.semaBlock
      /\ q.pipeResume = r.pipeResume
      /\ q.schedActivateOverrun = r.schedActivateOverrun
      /\ q.asyncTerminateRequested = TRUE
  <2>1. q = [r EXCEPT !.asyncTerminateRequested = TRUE, !.terminateWaiters = 1]
    BY <1>1, <1>2, <1>3 DEF TCB, AskTermination
  <2> HIDE DEF q
  <2>2. q \in TCB
    BY <1>1, <2>1, Small, Characters DEF TCB, TaskStates
  <2> QED
    BY <1>1, <2>1, <2>2 DEF TCB
<1> HIDE DEF q
<1>5. PlaceOK(q, p, "terminating", a)
  BY <1>2, <1>3, <1>4 DEF Local, PlaceOK
<1>6. RequestOK(q, p, "terminating")
  BY <1>2, <1>3, <1>4 DEF Local, RequestOK
<1>7. PipeOK(q, p, "terminating")
  BY <1>2, <1>3, <1>4, Characters DEF Local, PipeOK, RequestOK
<1>8. Calm(r, q)
  BY <1>2, <1>3, <1>4 DEF Calm, Local, PlaceOK
<1> QED
  BY <1>4, <1>5, <1>6, <1>7, <1>8 DEF Local, q

\* TERMINATE of a blocked task: its thread goes on, and sees the request.
LEMMA LocalTerminateBlocked ==
    ASSUME NEW r, NEW p \in Places, NEW a, Local(r, p, "idle", a), r.taskState = "BLOCKED"
    PROVE  LET q == [AskTermination(r, 1) EXCEPT !.taskState = "TERMINATED", !.semaBlock = @ + 1] IN
           Local(q, p, "terminating", a) /\ Calm(r, q)
<1> DEFINE q == [AskTermination(r, 1) EXCEPT !.taskState = "TERMINATED", !.semaBlock = @ + 1]
<1>1. r \in TCB
  BY DEF Local
<1>2. p = "blocked" /\ r.semaBlock = 0
  BY <1>1 DEF Local, PlaceOK, TCB, Places
<1>3. r.terminateWaiters = 0 /\ r.terminateDone = 0
  BY <1>1 DEF Local, RequestOK, TCB
<1>4. /\ q \in TCB /\ q.taskState = "TERMINATED" /\ q.statements = r.statements
      /\ q.suspendWaiters = r.suspendWaiters /\ q.suspendDone = r.suspendDone
      /\ q.continueWaiters = r.continueWaiters /\ q.continueDone = r.continueDone
      /\ q.terminateWaiters = 1 /\ q.terminateDone = r.terminateDone
      /\ q.activateDone = r.activateDone /\ q.semaBlock = 1
      /\ q.pipeResume = r.pipeResume
      /\ q.schedActivateOverrun = r.schedActivateOverrun
      /\ q.asyncTerminateRequested = TRUE
  <2> DEFINE k == AskTermination(r, 1)
  <2>1. k = [r EXCEPT !.asyncTerminateRequested = TRUE, !.terminateWaiters = 1]
    BY <1>1, <1>3 DEF AskTermination
  <2> HIDE DEF k
  <2>2. k \in TCB
    BY <1>1, <2>1, Small DEF TCB
  <2>3. k.semaBlock + 1 = 1
    BY <1>1, <1>2, <2>1 DEF TCB
  <2>4. q = [k EXCEPT !.taskState = "TERMINATED", !.semaBlock = 1]
    BY <2>3, Zenon DEF k
  <2> HIDE DEF q
  <2>5. q \in TCB
    BY <2>2, <2>4, Small DEF TCB, TaskStates
  <2>6. /\ k.taskState = r.taskState /\ k.statements = r.statements
        /\ k.suspendWaiters = r.suspendWaiters /\ k.suspendDone = r.suspendDone
        /\ k.continueWaiters = r.continueWaiters /\ k.continueDone = r.continueDone
        /\ k.terminateWaiters = 1 /\ k.terminateDone = r.terminateDone
        /\ k.activateDone = r.activateDone /\ k.pipeResume = r.pipeResume
        /\ k.schedActivateOverrun = r.schedActivateOverrun /\ k.asyncTerminateRequested = TRUE
    BY <1>1, <2>1, <2>2 DEF TCB
  <2> QED
    BY <2>2, <2>4, <2>5, <2>6 DEF TCB
<1> HIDE DEF q
<1>5. PlaceOK(q, p, "terminating", a)
  BY <1>2, <1>3, <1>4 DEF Local, PlaceOK
<1>6. RequestOK(q, p, "terminating")
  BY <1>2, <1>3, <1>4 DEF Local, RequestOK
<1>7. PipeOK(q, p, "terminating")
  BY <1>2, <1>3, <1>4, Characters DEF Local, PipeOK, RequestOK
<1>8. Calm(r, q)
  BY <1>2, <1>3, <1>4 DEF Calm, Local, PlaceOK
<1> QED
  BY <1>4, <1>5, <1>6, <1>7, <1>8 DEF Local, q

LEMMA LocalTerminateSuspendedBlocked ==
    ASSUME NEW r, NEW p \in Places, NEW a, Local(r, p, "idle", a), r.taskState = "SUSPENDED_BLOCKED"
    PROVE  LET q == [AskTermination(r, 1) EXCEPT !.semaBlock = @ + 1] IN
           Local(q, p, "terminating", a) /\ Calm(r, q)
<1> DEFINE q == [AskTermination(r, 1) EXCEPT !.semaBlock = @ + 1]
<1>1. r \in TCB
  BY DEF Local
<1>2. p = "blocked" /\ r.semaBlock = 0
  BY <1>1 DEF Local, PlaceOK, TCB, Places
<1>3. r.terminateWaiters = 0 /\ r.terminateDone = 0
  BY <1>1 DEF Local, RequestOK, TCB
<1>4. /\ q \in TCB /\ q.taskState = r.taskState /\ q.statements = r.statements
      /\ q.suspendWaiters = r.suspendWaiters /\ q.suspendDone = r.suspendDone
      /\ q.continueWaiters = r.continueWaiters /\ q.continueDone = r.continueDone
      /\ q.terminateWaiters = 1 /\ q.terminateDone = r.terminateDone
      /\ q.activateDone = r.activateDone /\ q.semaBlock = 1
      /\ q.pipeResume = r.pipeResume
      /\ q.schedActivateOverrun = r.schedActivateOverrun
      /\ q.asyncTerminateRequested = TRUE
  <2> DEFINE k == AskTermination(r, 1)
  <2>1. k = [r EXCEPT !.asyncTerminateRequested = TRUE, !.terminateWaiters = 1]
    BY <1>1, <1>3 DEF AskTermination
  <2> HIDE DEF k
  <2>2. k \in TCB
    BY <1>1, <2>1, Small DEF TCB
  <2>3. k.semaBlock = 0
    BY <1>1, <1>2, <2>1 DEF TCB
  <2>4. q = [k EXCEPT !.semaBlock = 1]
    BY <2>3 DEF k
  <2> HIDE DEF q
  <2>5. q \in TCB
    BY <2>2, <2>4, Small DEF TCB, TaskStates
  <2>6. /\ k.taskState = r.taskState /\ k.statements = r.statements
        /\ k.suspendWaiters = r.suspendWaiters /\ k.suspendDone = r.suspendDone
        /\ k.continueWaiters = r.continueWaiters /\ k.continueDone = r.continueDone
        /\ k.terminateWaiters = 1 /\ k.terminateDone = r.terminateDone
        /\ k.activateDone = r.activateDone /\ k.pipeResume = r.pipeResume
        /\ k.schedActivateOverrun = r.schedActivateOverrun /\ k.asyncTerminateRequested = TRUE
    BY <1>1, <2>1, <2>2 DEF TCB
  <2> QED
    BY <2>2, <2>4, <2>5, <2>6 DEF TCB
<1> HIDE DEF q
<1>5. PlaceOK(q, p, "terminating", a)
  BY <1>2, <1>3, <1>4 DEF Local, PlaceOK
<1>6. RequestOK(q, p, "terminating")
  BY <1>2, <1>3, <1>4 DEF Local, RequestOK
<1>7. PipeOK(q, p, "terminating")
  BY <1>2, <1>3, <1>4, Characters DEF Local, PipeOK, RequestOK
<1>8. Calm(r, q)
  BY <1>2, <1>3, <1>4 DEF Calm, Local, PlaceOK
<1> QED
  BY <1>4, <1>5, <1>6, <1>7, <1>8 DEF Local, q

\* TERMINATE of a task at its pipe, and the character that is written there.
LEMMA LocalTerminateSuspended ==
    ASSUME NEW r, NEW p \in Places, NEW a, Local(r, p, "idle", a), r.taskState = "SUSPENDED"
    PROVE  LET q == AskTermination(r, 2) IN
           Local(q, p, "terminatingSuspended", a) /\ Calm(r, q)
<1> DEFINE q == AskTermination(r, 2)
<1>1. r \in TCB
  BY DEF Local
<1>2. r.continueWaiters = 0 /\ r.continueDone = 0
  BY <1>1 DEF Local, RequestOK, TCB
<1>3. r.terminateWaiters = 0 /\ r.terminateDone = 0
  BY <1>1 DEF Local, RequestOK, TCB
<1>4. p = "suspended" /\ r.pipeResume = <<>>
  BY <1>1, <1>2, <1>3 DEF Local, PlaceOK, PipeOK, Places, TCB
<1>5. /\ q \in TCB /\ q.taskState = r.taskState /\ q.statements = r.statements
      /\ q.suspendWaiters = r.suspendWaiters /\ q.suspendDone = r.suspendDone
      /\ q.continueWaiters = r.continueWaiters /\ q.continueDone = r.continueDone
      /\ q.terminateWaiters = 2 /\ q.terminateDone = r.terminateDone
      /\ q.activateDone = r.activateDone /\ q.semaBlock = r.semaBlock
      /\ q.pipeResume = r.pipeResume
      /\ q.schedActivateOverrun = r.schedActivateOverrun
      /\ q.asyncTerminateRequested = TRUE
  <2>1. q = [r EXCEPT !.asyncTerminateRequested = TRUE, !.terminateWaiters = 2]
    BY <1>1, <1>2, <1>3, <1>4 DEF TCB, AskTermination
  <2> HIDE DEF q
  <2>2. q \in TCB
    BY <1>1, <2>1, Small, Characters DEF TCB, TaskStates
  <2> QED
    BY <1>1, <2>1, <2>2 DEF TCB
<1> HIDE DEF q
<1>6. PlaceOK(q, p, "terminatingSuspended", a)
  BY <1>2, <1>3, <1>4, <1>5 DEF Local, PlaceOK
<1>7. RequestOK(q, p, "terminatingSuspended")
  BY <1>2, <1>3, <1>4, <1>5 DEF Local, RequestOK
<1>8. PipeOK(q, p, "terminatingSuspended")
  BY <1>2, <1>3, <1>4, <1>5, Characters DEF Local, PipeOK, RequestOK
<1>9. Calm(r, q)
  BY <1>2, <1>3, <1>4, <1>5 DEF Calm, Local, PlaceOK
<1> QED
  BY <1>5, <1>6, <1>7, <1>8, <1>9 DEF Local, q

LEMMA LocalWriteTerminate ==
    ASSUME NEW r, NEW p \in Places, NEW a, Local(r, p, "terminatingSuspended", a)
    PROVE  LET q == [r EXCEPT !.pipeResume = Append(@, "t")] IN
           Local(q, p, "terminatingTwice", a) /\ Calm(r, q)
<1> DEFINE q == [r EXCEPT !.pipeResume = Append(@, "t")]
<1>1. r \in TCB
  BY DEF Local
<1>2. p = "suspended" /\ r.terminateDone = 0
  BY <1>1 DEF Local, PipeOK, RequestOK, TCB
<1>3. r.continueWaiters = 0
  BY <1>1 DEF Local, RequestOK, TCB
<1>4. r.pipeResume = <<>>
  BY <1>1, <1>2, <1>3 DEF Local, PipeOK
<1>5. Append(r.pipeResume, "t") = <<"t">> /\ <<"t">> \in Seq({"c", "t"})
  BY <1>4, Characters
<1>6. /\ q \in TCB /\ q.taskState = r.taskState /\ q.statements = r.statements
      /\ q.suspendWaiters = r.suspendWaiters /\ q.suspendDone = r.suspendDone
      /\ q.continueWaiters = r.continueWaiters /\ q.continueDone = r.continueDone
      /\ q.terminateWaiters = r.terminateWaiters
      /\ q.terminateDone = r.terminateDone /\ q.activateDone = r.activateDone
      /\ q.semaBlock = r.semaBlock /\ q.pipeResume = <<"t">>
      /\ q.schedActivateOverrun = r.schedActivateOverrun
      /\ q.asyncTerminateRequested = r.asyncTerminateRequested
  <2>1. q = [r EXCEPT !.pipeResume = <<"t">>]
    BY <1>1, <1>2, <1>3, <1>4, <1>5 DEF TCB
  <2> HIDE DEF q
  <2>2. q \in TCB
    BY <1>1, <2>1, Small, Characters DEF TCB, TaskStates
  <2> QED
    BY <1>1, <2>1, <2>2 DEF TCB
<1> HIDE DEF q
<1>7. PlaceOK(q, p, "terminatingTwice", a)
  BY <1>2, <1>3, <1>4, <1>5, <1>6 DEF Local, PlaceOK
<1>8. RequestOK(q, p, "terminatingTwice")
  BY <1>2, <1>3, <1>4, <1>5, <1>6 DEF Local, RequestOK
<1>9. PipeOK(q, p, "terminatingTwice")
  BY <1>2, <1>3, <1>4, <1>5, <1>6, Characters DEF Local, PipeOK, RequestOK
<1>10. Calm(r, q)
  BY <1>2, <1>3, <1>4, <1>5, <1>6 DEF Calm, Local, PlaceOK
<1> QED
  BY <1>6, <1>7, <1>8, <1>9, <1>10 DEF Local, q

\* The two acknowledgements of a task that was terminated at its pipe.
LEMMA LocalFirstAcknowledged ==
    ASSUME NEW r, NEW p \in Places, NEW a, Local(r, p, "terminatingTwice", a), r.terminateDone > 0
    PROVE  LET q == [r EXCEPT !.terminateDone = @ - 1] IN
           Local(q, p, "terminating", a) /\ Calm(r, q)
<1> DEFINE q == [r EXCEPT !.terminateDone = @ - 1]
<1>1. r \in TCB
  BY DEF Local
<1>2. r.terminateWaiters = 0 /\ r.terminateDone = 2 /\ p = "none"
  BY <1>1 DEF Local, RequestOK, TCB
<1>3. /\ q \in TCB /\ q.taskState = r.taskState /\ q.statements = r.statements
      /\ q.suspendWaiters = r.suspendWaiters /\ q.suspendDone = r.suspendDone
      /\ q.continueWaiters = r.continueWaiters /\ q.continueDone = r.continueDone
      /\ q.terminateWaiters = r.terminateWaiters /\ q.terminateDone = 1
      /\ q.activateDone = r.activateDone /\ q.semaBlock = r.semaBlock
      /\ q.pipeResume = r.pipeResume
      /\ q.schedActivateOverrun = r.schedActivateOverrun
      /\ q.asyncTerminateRequested = r.asyncTerminateRequested
  <2>1. q = [r EXCEPT !.terminateDone = 1]
    BY <1>1, <1>2 DEF TCB
  <2> HIDE DEF q
  <2>2. q \in TCB
    BY <1>1, <2>1, Small, Characters DEF TCB, TaskStates
  <2> QED
    BY <1>1, <2>1, <2>2 DEF TCB
<1> HIDE DEF q
<1>4. PlaceOK(q, p, "terminating", a)
  BY <1>2, <1>3 DEF Local, PlaceOK
<1>5. RequestOK(q, p, "terminating")
  BY <1>2, <1>3 DEF Local, RequestOK
<1>6. PipeOK(q, p, "terminating")
  BY <1>2, <1>3, Characters DEF Local, PipeOK, RequestOK
<1>7. Calm(r, q)
  BY <1>2, <1>3 DEF Calm, Local, PlaceOK
<1> QED
  BY <1>3, <1>4, <1>5, <1>6, <1>7 DEF Local, q

LEMMA LocalTerminated ==
    ASSUME NEW r, NEW p \in Places, NEW a, Local(r, p, "terminating", a), r.terminateDone > 0
    PROVE  LET q == [r EXCEPT !.terminateDone = @ - 1] IN
           Local(q, p, "terminatedIt", a) /\ Calm(r, q) /\ r.taskState = "TERMINATED"
<1> DEFINE q == [r EXCEPT !.terminateDone = @ - 1]
<1>1. r \in TCB
  BY DEF Local
<1>2. r.terminateWaiters = 0 /\ r.terminateDone = 1 /\ p = "none"
  BY <1>1 DEF Local, RequestOK, TCB
<1>3. r.taskState = "TERMINATED"
  BY <1>2 DEF Local, PlaceOK
<1>4. /\ q \in TCB /\ q.taskState = r.taskState /\ q.statements = r.statements
      /\ q.suspendWaiters = r.suspendWaiters /\ q.suspendDone = r.suspendDone
      /\ q.continueWaiters = r.continueWaiters /\ q.continueDone = r.continueDone
      /\ q.terminateWaiters = r.terminateWaiters /\ q.terminateDone = 0
      /\ q.activateDone = r.activateDone /\ q.semaBlock = r.semaBlock
      /\ q.pipeResume = r.pipeResume
      /\ q.schedActivateOverrun = r.schedActivateOverrun
      /\ q.asyncTerminateRequested = r.asyncTerminateRequested
  <2>1. q = [r EXCEPT !.terminateDone = 0]
    BY <1>1, <1>2, <1>3 DEF TCB
  <2> HIDE DEF q
  <2>2. q \in TCB
    BY <1>1, <2>1, Small, Characters DEF TCB, TaskStates
  <2> QED
    BY <1>1, <2>1, <2>2 DEF TCB
<1> HIDE DEF q
<1>5. PlaceOK(q, p, "terminatedIt", a)
  BY <1>2, <1>3, <1>4 DEF Local, PlaceOK
<1>6. RequestOK(q, p, "terminatedIt")
  BY <1>2, <1>3, <1>4 DEF Local, RequestOK
<1>7. PipeOK(q, p, "terminatedIt")
  BY <1>2, <1>3, <1>4, Characters DEF Local, PipeOK, RequestOK
<1>8. Calm(r, q)
  BY <1>2, <1>3, <1>4 DEF Calm, Local, PlaceOK
<1> QED
  BY <1>2, <1>3, <1>4, <1>5, <1>6, <1>7, <1>8 DEF Local, q

\* terminateFromOtherTask() sets taskState once more, to what it is.
LEMMA LocalSetTerminated ==
    ASSUME NEW r, NEW p \in Places, NEW a, Local(r, p, "terminatedIt", a)
    PROVE  LET q == [r EXCEPT !.taskState = "TERMINATED"] IN
           Local(q, p, "idle", a) /\ Calm(r, q)
<1> DEFINE q == [r EXCEPT !.taskState = "TERMINATED"]
<1>1. r \in TCB
  BY DEF Local
<1>2. p = "none" /\ r.taskState = "TERMINATED"
  BY DEF Local, RequestOK, PlaceOK
<1>3. /\ q \in TCB /\ q.taskState = "TERMINATED" /\ q.statements = r.statements
      /\ q.suspendWaiters = r.suspendWaiters /\ q.suspendDone = r.suspendDone
      /\ q.continueWaiters = r.continueWaiters /\ q.continueDone = r.continueDone
      /\ q.terminateWaiters = r.terminateWaiters
      /\ q.terminateDone = r.terminateDone /\ q.activateDone = r.activateDone
      /\ q.semaBlock = r.semaBlock /\ q.pipeResume = r.pipeResume
      /\ q.schedActivateOverrun = r.schedActivateOverrun
      /\ q.asyncTerminateRequested = r.asyncTerminateRequested
  <2>1. q = [r EXCEPT !.taskState = "TERMINATED"]
    BY <1>1, <1>2 DEF TCB
  <2> HIDE DEF q
  <2>2. q \in TCB
    BY <1>1, <2>1, Small, Characters DEF TCB, TaskStates
  <2> QED
    BY <1>1, <2>1, <2>2 DEF TCB
<1> HIDE DEF q
<1>4. PlaceOK(q, p, "idle", a)
  BY <1>2, <1>3 DEF Local, PlaceOK
<1>5. RequestOK(q, p, "idle")
  BY <1>2, <1>3 DEF Local, RequestOK
<1>6. PipeOK(q, p, "idle")
  BY <1>2, <1>3, Characters DEF Local, PipeOK, RequestOK
<1>7. Calm(r, q)
  BY <1>2, <1>3 DEF Calm, Local, PlaceOK
<1> QED
  BY <1>3, <1>4, <1>5, <1>6, <1>7 DEF Local, q

\* suspendRunning() returns.
LEMMA LocalSuspendDone ==
    ASSUME NEW r, NEW p, NEW a, Local(r, p, "suspendedIt", a)
    PROVE  Local(r, p, "idle", a)
  BY DEF Local, PlaceOK, RequestOK, PipeOK

\* The new thread has announced itself.
LEMMA LocalActivated ==
    ASSUME NEW r, NEW p \in Places, NEW o, Local(r, p, o, TRUE), r.activateDone > 0
    PROVE  LET q == [r EXCEPT !.activateDone = @ - 1] IN
           Local(q, p, o, FALSE) /\ Calm(r, q)
<1> DEFINE q == [r EXCEPT !.activateDone = @ - 1]
<1>1. r \in TCB
  BY DEF Local
<1>2. r.activateDone = 1 /\ p # "entry"
  BY <1>1 DEF Local, PlaceOK, TCB
<1>3. /\ q \in TCB /\ q.taskState = r.taskState /\ q.statements = r.statements
      /\ q.suspendWaiters = r.suspendWaiters /\ q.suspendDone = r.suspendDone
      /\ q.continueWaiters = r.continueWaiters /\ q.continueDone = r.continueDone
      /\ q.terminateWaiters = r.terminateWaiters
      /\ q.terminateDone = r.terminateDone /\ q.activateDone = 0
      /\ q.semaBlock = r.semaBlock /\ q.pipeResume = r.pipeResume
      /\ q.schedActivateOverrun = r.schedActivateOverrun
      /\ q.asyncTerminateRequested = r.asyncTerminateRequested
  <2>1. q = [r EXCEPT !.activateDone = 0]
    BY <1>1, <1>2 DEF TCB
  <2> HIDE DEF q
  <2>2. q \in TCB
    BY <1>1, <2>1, Small, Characters DEF TCB, TaskStates
  <2> QED
    BY <1>1, <2>1, <2>2 DEF TCB
<1> HIDE DEF q
<1>4. PlaceOK(q, p, o, FALSE)
  BY <1>2, <1>3 DEF Local, PlaceOK
<1>5. RequestOK(q, p, o)
  BY <1>2, <1>3 DEF Local, RequestOK
<1>6. PipeOK(q, p, o)
  BY <1>2, <1>3, Characters DEF Local, PipeOK, RequestOK
<1>7. Calm(r, q)
  BY <1>2, <1>3 DEF Calm, Local, PlaceOK
<1> QED
  BY <1>3, <1>4, <1>5, <1>6, <1>7 DEF Local, q

\* ACTIVATE finds a task without a thread, unless somebody is terminating it.
LEMMA LocalActivate ==
    ASSUME NEW r, NEW p \in Places, NEW o, Local(r, p, o, FALSE), r.taskState = "TERMINATED",
           o \notin Terminating \cup {"terminatedIt"}
    PROVE  p = "none" /\ Local(r, "entry", o, TRUE)
<1>1. p = "none"
  BY DEF Local, PlaceOK, Places
<1>2. r.activateDone = 0 /\ r.semaBlock = 0 /\ r \in TCB
  BY <1>1 DEF Local, PlaceOK
<1>3. PlaceOK(r, "entry", o, TRUE)
  BY <1>2 DEF PlaceOK
<1>4. r.terminateDone = 0
  BY <1>2 DEF Local, RequestOK, TCB
<1>5. RequestOK(r, "entry", o)
  BY <1>1, <1>4 DEF Local, RequestOK
<1>6. PipeOK(r, "entry", o)
  BY <1>1, <1>4 DEF Local, PipeOK
<1> QED
  BY <1>1, <1>3, <1>5, <1>6 DEF Local

HIDE DEF Active, AtPipe, Controlling, Terminating

-----------------------------------------------------------------------------
(* The invariant.                                                          *)

\* A task that a timer activates is controlled by nobody.  It may have several threads,
\* of which its state tells nothing.
Undisturbed(r) ==
    /\ r \in TCB /\ ~r.asyncTerminateRequested /\ ~r.asyncSuspendRequested
    /\ r.taskState \in {"TERMINATED", "RUNNING", "BLOCKED"}
    /\ r.suspendWaiters = 0 /\ r.continueWaiters = 0 /\ r.terminateWaiters = 0
    /\ r.suspendDone = 0 /\ r.continueDone = 0 /\ r.terminateDone = 0

LEMMA UndisturbedEntry ==
    ASSUME NEW r, Undisturbed(r)
    PROVE  Undisturbed(Entered(r)) /\ Calm(r, Entered(r))
<1> DEFINE q == Entered(r)
<1>1. r \in TCB /\ r.activateDone + 1 \in Nat
  BY DEF Undisturbed, TCB
<1>2. q \in TCB
  BY <1>1 DEF TCB, Entered, TaskStates
<1>3. /\ q.taskState = "RUNNING" /\ q.statements = r.statements
      /\ q.suspendWaiters = 0 /\ q.continueWaiters = 0 /\ q.terminateWaiters = 0
      /\ q.suspendDone = r.suspendDone /\ q.continueDone = r.continueDone
      /\ q.terminateDone = r.terminateDone
      /\ ~q.asyncTerminateRequested /\ ~q.asyncSuspendRequested
  BY <1>1 DEF TCB, Entered
<1> HIDE DEF q
<1> QED
  BY <1>2, <1>3 DEF Undisturbed, Calm, q

LEMMA UndisturbedDone ==
    ASSUME NEW r, Undisturbed(r)
    PROVE  Undisturbed(Done(r)) /\ Calm(r, Done(r))
<1> DEFINE q == Done(r)
<1>1. r \in TCB
  BY DEF Undisturbed
<1>2. /\ q \in TCB /\ q.taskState = "TERMINATED" /\ q.statements = r.statements
      /\ q.suspendWaiters = 0 /\ q.suspendDone = r.suspendDone + r.suspendWaiters
      /\ q.continueWaiters = r.continueWaiters /\ q.continueDone = r.continueDone
      /\ q.terminateWaiters = 0 /\ q.terminateDone = r.terminateDone + r.terminateWaiters
      /\ q.asyncTerminateRequested = r.asyncTerminateRequested
      /\ q.asyncSuspendRequested = r.asyncSuspendRequested
  BY <1>1, DoneFields
<1> HIDE DEF q
<1> QED
  BY <1>2 DEF Undisturbed, Calm, q

\* A control block in which only the state, within these three, or fields of no concern differ.
LEMMA UndisturbedChange ==
    ASSUME NEW r, Undisturbed(r), NEW q \in TCB,
           q.taskState \in {"TERMINATED", "RUNNING", "BLOCKED"}, q.statements = r.statements,
           q.suspendWaiters = r.suspendWaiters, q.continueWaiters = r.continueWaiters,
           q.terminateWaiters = r.terminateWaiters, q.suspendDone = r.suspendDone,
           q.continueDone = r.continueDone, q.terminateDone = r.terminateDone,
           q.asyncTerminateRequested = r.asyncTerminateRequested,
           q.asyncSuspendRequested = r.asyncSuspendRequested
    PROVE  Undisturbed(q) /\ Calm(r, q)
  BY DEF Undisturbed, Calm

LEMMA UndisturbedBlock ==
    ASSUME NEW r, Undisturbed(r)
    PROVE  LET q == [r EXCEPT !.taskState = "BLOCKED"] IN Undisturbed(q) /\ Calm(r, q)
<1> DEFINE q == [r EXCEPT !.taskState = "BLOCKED"]
<1>1. r \in TCB
  BY DEF Undisturbed
<1>2. q \in TCB
  BY <1>1 DEF TCB, TaskStates
<1>3. /\ q.taskState = "BLOCKED" /\ q.statements = r.statements
      /\ q.suspendWaiters = r.suspendWaiters /\ q.continueWaiters = r.continueWaiters
      /\ q.terminateWaiters = r.terminateWaiters /\ q.suspendDone = r.suspendDone
      /\ q.continueDone = r.continueDone /\ q.terminateDone = r.terminateDone
      /\ q.asyncTerminateRequested = r.asyncTerminateRequested
      /\ q.asyncSuspendRequested = r.asyncSuspendRequested
  BY <1>1 DEF TCB
<1> HIDE DEF q
<1>4. Undisturbed(q) /\ Calm(r, q)
  BY <1>2, <1>3, UndisturbedChange
<1> QED
  BY <1>4 DEF q

LEMMA UndisturbedWakeUp ==
    ASSUME NEW r, Undisturbed(r), r.semaBlock > 0
    PROVE  LET q == [r EXCEPT !.semaBlock = @ - 1] IN Undisturbed(q) /\ Calm(r, q)
<1> DEFINE q == [r EXCEPT !.semaBlock = @ - 1]
<1>1. r \in TCB /\ r.semaBlock - 1 \in Nat
  BY DEF Undisturbed, TCB
<1>2. q \in TCB
  BY <1>1 DEF TCB
<1>3. /\ q.taskState = r.taskState /\ q.statements = r.statements
      /\ q.suspendWaiters = r.suspendWaiters /\ q.continueWaiters = r.continueWaiters
      /\ q.terminateWaiters = r.terminateWaiters /\ q.suspendDone = r.suspendDone
      /\ q.continueDone = r.continueDone /\ q.terminateDone = r.terminateDone
      /\ q.asyncTerminateRequested = r.asyncTerminateRequested
      /\ q.asyncSuspendRequested = r.asyncSuspendRequested
  BY <1>1 DEF TCB
<1>4. r.taskState \in {"TERMINATED", "RUNNING", "BLOCKED"}
  BY DEF Undisturbed
<1> HIDE DEF q
<1>5. Undisturbed(q) /\ Calm(r, q)
  BY <1>2, <1>3, <1>4, UndisturbedChange
<1> QED
  BY <1>5 DEF q

LEMMA UndisturbedUnblock ==
    ASSUME NEW r, Undisturbed(r)
    PROVE  Undisturbed(Unblocked(r)) /\ Calm(r, Unblocked(r))
<1> DEFINE q == Unblocked(r)
<1>1. r \in TCB /\ r.semaBlock + 1 \in Nat
  BY DEF Undisturbed, TCB
<1>2. q \in TCB
  BY <1>1 DEF TCB, TaskStates, Unblocked
<1>3. /\ q.taskState = "RUNNING" /\ q.statements = r.statements
      /\ q.suspendWaiters = r.suspendWaiters /\ q.continueWaiters = r.continueWaiters
      /\ q.terminateWaiters = r.terminateWaiters /\ q.suspendDone = r.suspendDone
      /\ q.continueDone = r.continueDone /\ q.terminateDone = r.terminateDone
      /\ q.asyncTerminateRequested = r.asyncTerminateRequested
      /\ q.asyncSuspendRequested = r.asyncSuspendRequested
  BY <1>1 DEF TCB, Unblocked
<1> HIDE DEF q
<1>4. Undisturbed(q) /\ Calm(r, q)
  BY <1>2, <1>3, UndisturbedChange
<1> QED
  BY <1>4 DEF q

LEMMA UndisturbedActivated ==
    ASSUME NEW r, Undisturbed(r), r.activateDone > 0
    PROVE  LET q == [r EXCEPT !.activateDone = @ - 1] IN
           Undisturbed(q) /\ Calm(r, q) /\ q.taskState = r.taskState
<1> DEFINE q == [r EXCEPT !.activateDone = @ - 1]
<1>1. r \in TCB /\ r.activateDone - 1 \in Nat
  BY DEF Undisturbed, TCB
<1>2. q \in TCB
  BY <1>1 DEF TCB
<1>3. /\ q.taskState = r.taskState /\ q.statements = r.statements
      /\ q.suspendWaiters = r.suspendWaiters /\ q.continueWaiters = r.continueWaiters
      /\ q.terminateWaiters = r.terminateWaiters /\ q.suspendDone = r.suspendDone
      /\ q.continueDone = r.continueDone /\ q.terminateDone = r.terminateDone
      /\ q.asyncTerminateRequested = r.asyncTerminateRequested
      /\ q.asyncSuspendRequested = r.asyncSuspendRequested
  BY <1>1 DEF TCB
<1>4. r.taskState \in {"TERMINATED", "RUNNING", "BLOCKED"}
  BY DEF Undisturbed
<1> HIDE DEF q
<1>5. Undisturbed(q) /\ Calm(r, q)
  BY <1>2, <1>3, <1>4, UndisturbedChange
<1> QED
  BY <1>3, <1>5 DEF q

LEMMA UndisturbedOverrun ==
    ASSUME NEW r, Undisturbed(r)
    PROVE  LET q == [r EXCEPT !.schedActivateOverrun = TRUE] IN Undisturbed(q) /\ Calm(r, q)
<1> DEFINE q == [r EXCEPT !.schedActivateOverrun = TRUE]
<1>1. r \in TCB
  BY DEF Undisturbed
<1>2. q \in TCB
  BY <1>1 DEF TCB
<1>3. /\ q.taskState = r.taskState /\ q.statements = r.statements
      /\ q.suspendWaiters = r.suspendWaiters /\ q.continueWaiters = r.continueWaiters
      /\ q.terminateWaiters = r.terminateWaiters /\ q.suspendDone = r.suspendDone
      /\ q.continueDone = r.continueDone /\ q.terminateDone = r.terminateDone
      /\ q.asyncTerminateRequested = r.asyncTerminateRequested
      /\ q.asyncSuspendRequested = r.asyncSuspendRequested
  BY <1>1 DEF TCB
<1>4. r.taskState \in {"TERMINATED", "RUNNING", "BLOCKED"}
  BY DEF Undisturbed
<1> HIDE DEF q
<1>5. Undisturbed(q) /\ Calm(r, q)
  BY <1>2, <1>3, <1>4, UndisturbedChange
<1> QED
  BY <1>5 DEF q

TaskOK(r, f, P, t) ==
    /\ ~CyclicIn(P, t) => Local(r, Place(f, t), Op(f, t), Activating(f, t))
    /\ CyclicIn(P, t) => Undisturbed(r) /\ \A th \in Of(f, t) : f[th].place \notin AtPipe

TasksOK(c, f, P) ==
    /\ c \in [Tasks -> TCB] /\ UNION {c[t].statements : t \in Tasks} = P
    /\ \A t \in Tasks : TaskOK(c[t], f, P, t)

\* The thread th keeps mutexTasks.
Keeps(c, f, th) ==
    \/ f[th].place = "activating"
    \/ f[th].place = "terminating" /\ c[f[th].on].taskState = "SUSPENDED_BLOCKED"

\* mutexTasks is free, or one thread keeps it, or one continued task has locked it.
LockOK(m, c, f) ==
    \/ /\ m = 1
       /\ \A th \in AllThreads : ~Keeps(c, f, th)
       /\ \A t \in Tasks : c[t].continueDone = 0
    \/ /\ m = 0
       /\ \E x \in AllThreads : \A th \in AllThreads : Keeps(c, f, th) <=> th = x
       /\ \A t \in Tasks : c[t].continueDone = 0
    \/ /\ m = 0
       /\ \A th \in AllThreads : ~Keeps(c, f, th)
       /\ \E u \in Tasks : \A t \in Tasks : c[t].continueDone = IF t = u THEN 1 ELSE 0

Good(m, c, f, P) == Shape(f, P) /\ TasksOK(c, f, P) /\ LockOK(m, c, f)

LEMMA LockKept ==
    ASSUME NEW m, NEW c, NEW f, LockOK(m, c, f), NEW d, NEW g,
           \A th \in AllThreads : Keeps(d, g, th) <=> Keeps(c, f, th),
           \A t \in Tasks : d[t].continueDone = c[t].continueDone
    PROVE  LockOK(m, d, g)
  BY DEF LockOK

LEMMA LockFree ==
    ASSUME NEW m, NEW c, NEW f, LockOK(m, c, f), m > 0
    PROVE  /\ m = 1
           /\ \A th \in AllThreads : ~Keeps(c, f, th)
           /\ \A t \in Tasks : c[t].continueDone = 0
  BY DEF LockOK

\* A step that concerns the control block of t only.
LEMMA OneTask ==
    ASSUME NEW c, NEW f, NEW g, NEW P, TasksOK(c, f, P), NEW t \in Tasks, NEW q \in TCB,
           q.statements = c[t].statements,
           TaskOK(q, g, P, t), \A s \in Tasks \ {t} : TaskOK(c[s], g, P, s)
    PROVE  TasksOK([c EXCEPT ![t] = q], g, P)
<1> DEFINE d == [c EXCEPT ![t] = q]
<1>1. c \in [Tasks -> TCB]
  BY DEF TasksOK
<1>2. d \in [Tasks -> TCB]
  BY <1>1
<1>3. d[t] = q /\ \A s \in Tasks \ {t} : d[s] = c[s]
  BY <1>1
<1> HIDE DEF d
<1>4. \A s \in Tasks : d[s].statements = c[s].statements
  BY <1>3
<1>5. UNION {d[s].statements : s \in Tasks} = UNION {c[s].statements : s \in Tasks}
  BY <1>4
<1>6. TasksOK(d, g, P)
  BY <1>2, <1>3, <1>5 DEF TasksOK
<1> QED
  BY <1>6 DEF d

\* Nobody else notices that th goes to another place: f becomes g.
LEMMA OthersOK ==
    ASSUME NEW f, NEW P, Orderly(P), Shape(f, P), NEW th \in AllThreads, NEW u \in Thread,
           Shape([f EXCEPT ![th] = u], P), u.task = f[th].task, NEW s \in Tasks, NEW r,
           TaskOK(r, f, P, s), s # u.task,
           f[th].place \in Controlling \cup {"activating"} => f[th].on # s,
           u.place \in Controlling \cup {"activating"} => u.on # s
    PROVE  TaskOK(r, [f EXCEPT ![th] = u], P, s)
<1> DEFINE g == [f EXCEPT ![th] = u]
<1>1. f \in [AllThreads -> Thread]
  BY DEF Shape
<1>2. Of(g, s) = Of(f, s) /\ Place(g, s) = Place(f, s)
  BY MovePlace
<1>3. Op(g, s) = Op(f, s)
  BY MoveOp
<1>4. g[th] = u /\ \A x \in AllThreads : x # th => g[x] = f[x]
  BY <1>1
<1>5. Activating(g, s) <=> Activating(f, s)
  <2> HIDE DEF g
  <2> QED
    BY <1>4 DEF Activating
<1>6. \A x \in Of(f, s) : g[x] = f[x]
  BY <1>4 DEF Of, AllThreads
<1> HIDE DEF g
<1>7. Activating(g, s) = Activating(f, s)
  BY <1>5 DEF Activating
<1>8. TaskOK(r, g, P, s)
  BY <1>2, <1>3, <1>6, <1>7 DEF TaskOK
<1> QED
  BY <1>8 DEF g

\* A thread of s does something that concerns only its own task.
LEMMA OwnTasks ==
    ASSUME NEW c, NEW f, NEW P, Orderly(P), Shape(f, P), TasksOK(c, f, P), NEW th \in Threads,
           NEW u \in Thread, NEW s \in Tasks, f[th].task = s, u.task = s,
           f[th].place \notin Controlling \cup {"activating", "none"},
           u.place \notin Controlling \cup {"activating", "none"},
           NEW q \in TCB, q.statements = c[s].statements,
           CyclicIn(P, s) => Undisturbed(q) /\ u.place \notin AtPipe,
           ~CyclicIn(P, s) => Local(q, u.place, Op(f, s), Activating(f, s))
    PROVE  Shape([f EXCEPT ![th] = u], P) /\ TasksOK([c EXCEPT ![s] = q], [f EXCEPT ![th] = u], P)
<1> DEFINE g == [f EXCEPT ![th] = u]
           d == [c EXCEPT ![s] = q]
<1>0. /\ th \in AllThreads /\ th # Timer /\ u.task = f[th].task
  BY TaskingAssumption DEF AllThreads
<1>1. f \in [AllThreads -> Thread] /\ c \in [Tasks -> TCB]
  BY DEF Shape, TasksOK
<1>2. Permitted(P, u)
  BY DEF Permitted, Controlling
<1>3. Shape(g, P)
  BY <1>0, <1>2, MoveShape
<1>4. g[th] = u /\ \A x \in AllThreads : x # th => g[x] = f[x]
  BY <1>0, <1>1
<1>b. /\ Of(g, s) = Of(f, s)
      /\ ~CyclicIn(P, s) => Place(g, s) = u.place
  BY <1>0, <1>3, MovePlace
<1>c. Op(g, s) = Op(f, s)
  BY <1>0, <1>3, MoveOp
<1>5. TaskOK(q, g, P, s)
  <2> HIDE DEF g
  <2>4. Activating(g, s) = Activating(f, s)
    BY <1>0, <1>1, <1>4 DEF Activating
  <2>5. CyclicIn(P, s) => \A x \in Of(f, s) : f[x].place \notin AtPipe
    BY <1>0, <1>1 DEF TasksOK, TaskOK
  <2>6. CyclicIn(P, s) => \A x \in Of(f, s) : g[x].place \notin AtPipe
    BY <1>0, <1>1, <1>4, <2>5 DEF Of, AllThreads
  <2> QED
    BY <1>b, <1>c, <2>4, <2>6 DEF TaskOK
<1>6. \A t \in Tasks \ {s} : TaskOK(c[t], g, P, t)
  <2>1. SUFFICES ASSUME NEW t \in Tasks \ {s} PROVE TaskOK(c[t], g, P, t)
    OBVIOUS
  <2>2. TaskOK(c[t], f, P, t)
    BY <1>0, <1>1 DEF TasksOK
  <2> QED
    BY <1>0, <1>3, <2>2, OthersOK
<1>7. TasksOK(d, g, P)
  BY <1>0, <1>5, <1>6, OneTask
<1> QED
  BY <1>3, <1>7

\* th goes on while the control block of t becomes q, and neither before nor afterwards it
\* keeps mutexTasks.
LEMMA LockCalm ==
    ASSUME NEW m, NEW c, NEW f, NEW P, TasksOK(c, f, P), Shape(f, P), LockOK(m, c, f),
           NEW t \in Tasks, NEW q, Calm(c[t], q), NEW th \in AllThreads, NEW u,
           ~Keeps(c, f, th), u.place # "activating",
           u.place = "terminating" => u.on = t /\ q.taskState # "SUSPENDED_BLOCKED"
    PROVE  LockOK(m, [c EXCEPT ![t] = q], [f EXCEPT ![th] = u])
<1> DEFINE g == [f EXCEPT ![th] = u]
           d == [c EXCEPT ![t] = q]
<1>1. f \in [AllThreads -> Thread] /\ c \in [Tasks -> TCB]
  BY DEF Shape, TasksOK
<1>2. \A x \in AllThreads : f[x].on \in Tasks
  BY <1>1 DEF Thread
<1>3. g[th] = u /\ \A x \in AllThreads : x # th => g[x] = f[x]
  BY <1>1
<1>4. d[t] = q /\ \A s \in Tasks : s # t => d[s] = c[s]
  BY <1>1
<1> HIDE DEF d, g
<1>5. \A s \in Tasks : /\ d[s].continueDone = c[s].continueDone
                       /\ d[s].taskState = "SUSPENDED_BLOCKED" <=> c[s].taskState = "SUSPENDED_BLOCKED"
  BY <1>4 DEF Calm
<1>6. ~Keeps(d, g, th)
  BY <1>3, <1>4 DEF Keeps
<1>7. \A x \in AllThreads : x # th => (Keeps(d, g, x) <=> Keeps(c, f, x))
  BY <1>2, <1>3, <1>5 DEF Keeps
<1>8. LockOK(m, d, g)
  BY <1>5, <1>6, <1>7, LockKept
<1> QED
  BY <1>8 DEF d, g

LEMMA OwnStep ==
    ASSUME NEW m, NEW c, NEW f, NEW P, Orderly(P), Good(m, c, f, P), NEW th \in Threads,
           NEW u \in Thread, NEW s \in Tasks, f[th].task = s, u.task = s,
           f[th].place \notin Controlling \cup {"activating", "none"},
           u.place \notin Controlling \cup {"activating", "none"},
           NEW q \in TCB, Calm(c[s], q),
           CyclicIn(P, s) => Undisturbed(q) /\ u.place \notin AtPipe,
           ~CyclicIn(P, s) => Local(q, u.place, Op(f, s), Activating(f, s))
    PROVE  Good(m, [c EXCEPT ![s] = q], [f EXCEPT ![th] = u], P)
<1>1. Shape(f, P) /\ TasksOK(c, f, P) /\ LockOK(m, c, f) /\ th \in AllThreads
  BY DEF Good, AllThreads
<1>2. q.statements = c[s].statements
  BY DEF Calm
<1>3. Shape([f EXCEPT ![th] = u], P) /\ TasksOK([c EXCEPT ![s] = q], [f EXCEPT ![th] = u], P)
  BY <1>1, <1>2, OwnTasks
<1>4. ~Keeps(c, f, th) /\ u.place # "activating" /\ u.place # "terminating"
  BY DEF Keeps, Controlling, Terminating
<1>5. LockOK(m, [c EXCEPT ![s] = q], [f EXCEPT ![th] = u])
  BY <1>1, <1>4, LockCalm
<1> QED
  BY <1>3, <1>5 DEF Good

\* terminateMySelf() ends the thread of s.
LEMMA EndStep ==
    ASSUME NEW m, NEW c, NEW f, NEW P, Orderly(P), Good(m, c, f, P), NEW th \in Threads,
           NEW s \in Tasks, f[th].task = s,
           f[th].place \notin Controlling \cup {"activating", "none"},
           NEW q \in TCB, Calm(c[s], q), CyclicIn(P, s) => Undisturbed(q),
           ~CyclicIn(P, s) => Local(q, "none", Op(f, s), Activating(f, s))
    PROVE  Good(m, [c EXCEPT ![s] = q], [f EXCEPT ![th] = Unused], P)
<1> DEFINE g == [f EXCEPT ![th] = Unused]
<1>1. Shape(f, P) /\ TasksOK(c, f, P) /\ LockOK(m, c, f) /\ th \in AllThreads
  BY DEF Good, AllThreads
<1>2. f \in [AllThreads -> Thread]
  BY <1>1 DEF Shape
<1>3. Shape(g, P)
  BY <1>1, EndShape
<1>4. /\ Unused.task = NoTask /\ Unused.place \notin AtPipe
      /\ Unused.place # "activating" /\ Unused.place # "terminating"
  BY DEF Unused, AtPipe
<1>5. f[th].place \notin Controlling /\ f[th].place # "activating"
  OBVIOUS
<1>6. \A t \in Tasks : Op(g, t) = Op(f, t) /\ (Activating(g, t) <=> Activating(f, t))
  BY <1>1, <1>2, <1>5, EndOp
<1>7. \A t \in Tasks : t # s => Place(g, t) = Place(f, t)
  BY <1>1, EndPlace
<1>8. ~CyclicIn(P, s) => Place(g, s) = "none"
  BY <1>1, EndPlace
<1>9. g[th] = Unused /\ \A x \in AllThreads : x # th => g[x] = f[x]
  BY <1>1, <1>2
<1>10. \A t \in Tasks : \A x \in Of(g, t) : x \in Of(f, t) /\ g[x] = f[x]
  <2> HIDE DEF g
  <2> QED
    BY <1>4, <1>9, TaskingAssumption DEF Of, AllThreads
<1>11. \A t \in Tasks : CyclicIn(P, t) => \A x \in Of(g, t) : g[x].place \notin AtPipe
  <2> HIDE DEF g
  <2> QED
    BY <1>1, <1>10 DEF TasksOK, TaskOK
<1> HIDE DEF g
<1>a. \A t \in Tasks : Activating(g, t) = Activating(f, t)
  BY <1>6 DEF Activating
<1>12. TaskOK(q, g, P, s)
  BY <1>6, <1>8, <1>11, <1>a DEF TaskOK
<1>13. \A t \in Tasks \ {s} : TaskOK(c[t], g, P, t)
  BY <1>1, <1>6, <1>7, <1>11, <1>a DEF TasksOK, TaskOK
<1>14. TasksOK([c EXCEPT ![s] = q], g, P)
  BY <1>1, <1>12, <1>13, OneTask DEF Calm
<1>15. ~Keeps(c, f, th)
  BY DEF Keeps, Controlling, Terminating
<1>16. LockOK(m, [c EXCEPT ![s] = q], g)
  BY <1>1, <1>4, <1>15, LockCalm DEF g
<1> QED
  BY <1>3, <1>14, <1>16 DEF Good, g

\* terminateMySelf() of a task that a timer activates creates another thread.
LEMMA RestartStep ==
    ASSUME NEW m, NEW c, NEW f, NEW P, Good(m, c, f, P), NEW n \in Threads,
           f[n].place = "none", NEW t \in Tasks, CyclicIn(P, t)
    PROVE  Good(m, c, [f EXCEPT ![n] = New(t)], P)
<1> DEFINE g == [f EXCEPT ![n] = New(t)]
<1>1. Shape(f, P) /\ TasksOK(c, f, P) /\ LockOK(m, c, f) /\ n \in AllThreads
  BY DEF Good, AllThreads
<1>2. f \in [AllThreads -> Thread]
  BY <1>1 DEF Shape
<1>3. Shape(g, P)
  BY <1>1, NewShape
<1>4. \A s \in Tasks :
           /\ s # t => Place(g, s) = Place(f, s)
           /\ Op(g, s) = Op(f, s) /\ (Activating(g, s) <=> Activating(f, s))
  BY <1>1, NewPlace
<1>5. g[n] = New(t) /\ \A x \in AllThreads : x # n => g[x] = f[x]
  BY <1>1, <1>2
<1>6. New(t).task = t /\ New(t).place = "entry"
  BY DEF New
<1> HIDE DEF g
<1>7. \A s \in Tasks : \A x \in Of(g, s) :
         (x \in Of(f, s) /\ g[x] = f[x]) \/ g[x].place = "entry"
  BY <1>5, <1>6 DEF Of, AllThreads
<1>8. \A s \in Tasks : CyclicIn(P, s) => \A x \in Of(g, s) : g[x].place \notin AtPipe
  BY <1>1, <1>7 DEF TasksOK, TaskOK, AtPipe
<1>9. \A s \in Tasks : Activating(g, s) = Activating(f, s)
  BY <1>4 DEF Activating
<1>10. \A s \in Tasks : TaskOK(c[s], g, P, s)
  BY <1>1, <1>4, <1>8, <1>9 DEF TasksOK, TaskOK
<1>11. TasksOK(c, g, P)
  BY <1>1, <1>10 DEF TasksOK
<1>12. \A x \in AllThreads : Keeps(c, g, x) <=> Keeps(c, f, x)
  BY <1>5, <1>6 DEF Keeps
<1>13. LockOK(m, c, g)
  BY <1>1, <1>12, LockKept
<1> QED
  BY <1>3, <1>11, <1>13 DEF Good, g

\* The thread th begins, goes on with or ends an operation on t: the other tasks, its own
\* among them, which remains RUNNING.
LEMMA OpOthers ==
    ASSUME NEW c, NEW f, NEW P, Orderly(P), Shape(f, P), TasksOK(c, f, P),
           NEW th \in AllThreads, NEW u \in Thread, u.task = f[th].task,
           f[th].place \in Active, u.place \in Active, th = Timer => u.place \in AtTimer,
           Permitted(P, u), NEW t \in Tasks,
           f[th].place \in Controlling \cup {"activating"} => f[th].on = t,
           u.place \in Controlling \cup {"activating"} => u.on = t
    PROVE  /\ Shape([f EXCEPT ![th] = u], P)
           /\ \A s \in Tasks \ {t} : TaskOK(c[s], [f EXCEPT ![th] = u], P, s)
<1> DEFINE g == [f EXCEPT ![th] = u]
<1>1. f[th].place # "none" /\ u.place # "none"
  BY DEF Active, Controlling, Terminating
<1>2. Shape(g, P)
  BY <1>1, MoveShape
<1>3. ASSUME NEW s \in Tasks \ {t} PROVE TaskOK(c[s], g, P, s)
  <2>1. TaskOK(c[s], f, P, s)
    BY DEF TasksOK
  <2>2. CASE s # u.task
    BY <1>2, <2>1, <2>2, OthersOK
  <2>3. CASE s = u.task
    <3>1. Of(g, s) = Of(f, s) /\ (~CyclicIn(P, s) => Place(g, s) = u.place)
      BY <1>2, <2>3, MovePlace
    <3>2. Op(g, s) = Op(f, s)
      BY <1>2, MoveOp
    <3>3. f \in [AllThreads -> Thread]
      BY DEF Shape
    <3>4. g[th] = u /\ \A x \in AllThreads : x # th => g[x] = f[x]
      BY <3>3
    <3> HIDE DEF g
    <3>5. Activating(g, s) = Activating(f, s)
      BY <3>4 DEF Activating
    <3>6. th \in Threads
      BY <2>3, TaskingAssumption DEF Shape, AllThreads
    <3>7. ASSUME ~CyclicIn(P, s) PROVE Local(c[s], u.place, Op(f, s), Activating(f, s))
      <4>1. Place(f, s) = f[th].place
        BY <2>3, <3>6, <3>7, OnlyThread
      <4>2. Local(c[s], f[th].place, Op(f, s), Activating(f, s))
        BY <2>1, <3>7, <4>1 DEF TaskOK
      <4>3. Op(f, s) # "terminatedIt"
        BY <1>1, <4>2 DEF Local, RequestOK
      <4> QED
        BY <4>2, <4>3, LocalActive
    <3>8. ASSUME CyclicIn(P, s) PROVE \A x \in Of(g, s) : g[x].place \notin AtPipe
      <4>1. u.place \notin AtPipe
        BY DEF Active, AtPipe, Controlling, Terminating
      <4> QED
        BY <2>1, <3>1, <3>4, <3>8, <4>1 DEF TaskOK, Of, AllThreads
    <3> QED
      BY <2>1, <3>1, <3>2, <3>5, <3>7, <3>8 DEF TaskOK
  <2> QED
    BY <2>2, <2>3
<1> QED
  BY <1>2, <1>3

\* And t, whose control block becomes q.
LEMMA OpTasks ==
    ASSUME NEW c, NEW f, NEW P, Orderly(P), Shape(f, P), TasksOK(c, f, P),
           NEW th \in AllThreads, NEW u \in Thread, u.task = f[th].task,
           f[th].place \in Active, u.place \in Active, th = Timer => u.place \in AtTimer,
           Permitted(P, u), NEW t \in Tasks, NEW q \in TCB, q.statements = c[t].statements,
           f[th].place \in Controlling \cup {"activating"} => f[th].on = t,
           u.place \in Controlling \cup {"activating"} => u.on = t,
           TaskOK(q, [f EXCEPT ![th] = u], P, t)
    PROVE  Shape([f EXCEPT ![th] = u], P) /\ TasksOK([c EXCEPT ![t] = q], [f EXCEPT ![th] = u], P)
<1>1. /\ Shape([f EXCEPT ![th] = u], P)
      /\ \A s \in Tasks \ {t} : TaskOK(c[s], [f EXCEPT ![th] = u], P, s)
  BY OpOthers
<1>2. TasksOK([c EXCEPT ![t] = q], [f EXCEPT ![th] = u], P)
  BY <1>1, OneTask
<1> QED
  BY <1>1, <1>2

\* The same where t is activated by a timer.
LEMMA CyclicTasks ==
    ASSUME NEW c, NEW f, NEW P, Orderly(P), Shape(f, P), TasksOK(c, f, P),
           NEW th \in AllThreads, NEW u \in Thread, u.task = f[th].task,
           f[th].place \in Active, u.place \in Active, th = Timer => u.place \in AtTimer,
           Permitted(P, u), NEW t \in Tasks, CyclicIn(P, t), NEW q, Undisturbed(q),
           q.statements = c[t].statements,
           f[th].place \in Controlling \cup {"activating"} => f[th].on = t,
           u.place \in Controlling \cup {"activating"} => u.on = t
    PROVE  Shape([f EXCEPT ![th] = u], P) /\ TasksOK([c EXCEPT ![t] = q], [f EXCEPT ![th] = u], P)
<1> DEFINE g == [f EXCEPT ![th] = u]
<1>1. f \in [AllThreads -> Thread] /\ TaskOK(c[t], f, P, t) /\ q \in TCB
  BY DEF Shape, TasksOK, Undisturbed
<1>2. g[th] = u /\ \A x \in AllThreads : x # th => g[x] = f[x]
  BY <1>1
<1>3. u.place \notin AtPipe
  BY DEF Active, AtPipe, Controlling, Terminating
<1>4. TaskOK(q, g, P, t)
  <2> HIDE DEF g
  <2> QED
    BY <1>1, <1>2, <1>3 DEF TaskOK, Of, AllThreads
<1> QED
  BY <1>1, <1>4, OpTasks

\* And where t is not activated by a timer, is not the thread's own task, and is not being
\* activated by it.
LEMMA ControlTasks ==
    ASSUME NEW c, NEW f, NEW P, Orderly(P), Shape(f, P), TasksOK(c, f, P),
           NEW th \in AllThreads, NEW u \in Thread, u.task = f[th].task,
           f[th].place \in Active, u.place \in Active, th = Timer => u.place \in AtTimer,
           f[th].place # "activating", u.place # "activating",
           Permitted(P, u), NEW t \in Tasks, t # u.task, ~CyclicIn(P, t),
           NEW q \in TCB, q.statements = c[t].statements,
           f[th].place \in Controlling => f[th].on = t,
           u.place \in Controlling => u.on = t,
           NEW o, o = IF u.place \in Controlling THEN u.place
                      ELSE IF f[th].place \in Controlling THEN "idle" ELSE Op(f, t),
           Local(q, Place(f, t), o, Activating(f, t))
    PROVE  Shape([f EXCEPT ![th] = u], P) /\ TasksOK([c EXCEPT ![t] = q], [f EXCEPT ![th] = u], P)
<1> DEFINE g == [f EXCEPT ![th] = u]
<1>1. f[th].place # "none" /\ u.place # "none"
  BY DEF Active, Controlling, Terminating
<1>2. Shape(g, P)
  BY <1>1, MoveShape
<1>3. Place(g, t) = Place(f, t)
  BY <1>2, MovePlace
<1>4. Op(g, t) = o
  BY <1>2, MoveOp
<1>5. f \in [AllThreads -> Thread]
  BY DEF Shape
<1>6. g[th] = u /\ \A x \in AllThreads : x # th => g[x] = f[x]
  BY <1>5
<1>7. Activating(g, t) = Activating(f, t)
  <2> HIDE DEF g
  <2> QED
    BY <1>6 DEF Activating
<1>8. TaskOK(q, g, P, t)
  <2> HIDE DEF g
  <2> QED
    BY <1>3, <1>4, <1>7 DEF TaskOK
<1> QED
  BY <1>8, OpTasks

\* mutexTasks remains free though t becomes or ceases to be SUSPENDED_BLOCKED: nobody
\* terminates it.
LEMMA LockUnneeded ==
    ASSUME NEW m, NEW c, NEW f, NEW P, TasksOK(c, f, P), Shape(f, P), LockOK(m, c, f), m > 0,
           NEW t \in Tasks, NEW q, q.continueDone = c[t].continueDone, On(f, t) = {},
           NEW th \in AllThreads, NEW u, u.place \notin {"activating", "terminating"}
    PROVE  LockOK(m, [c EXCEPT ![t] = q], [f EXCEPT ![th] = u])
<1> DEFINE g == [f EXCEPT ![th] = u]
           d == [c EXCEPT ![t] = q]
<1>1. f \in [AllThreads -> Thread] /\ c \in [Tasks -> TCB]
  BY DEF Shape, TasksOK
<1>2. \A x \in AllThreads : f[x].on \in Tasks
  BY <1>1 DEF Thread
<1>3. g[th] = u /\ \A x \in AllThreads : x # th => g[x] = f[x]
  BY <1>1
<1>4. d[t] = q /\ \A s \in Tasks : s # t => d[s] = c[s]
  BY <1>1
<1>5. /\ m = 1 /\ \A x \in AllThreads : ~Keeps(c, f, x)
      /\ \A s \in Tasks : c[s].continueDone = 0
  BY LockFree
<1> HIDE DEF d, g
<1>6. \A x \in AllThreads : f[x].place = "terminating" => f[x].on # t
  BY DEF On, Controlling, Terminating
<1>7. \A x \in AllThreads : ~Keeps(d, g, x)
  BY <1>2, <1>3, <1>4, <1>5, <1>6 DEF Keeps
<1>8. \A s \in Tasks : d[s].continueDone = 0
  BY <1>4, <1>5
<1>9. LockOK(m, d, g)
  BY <1>5, <1>7, <1>8 DEF LockOK
<1> QED
  BY <1>9 DEF d, g

\* th locks mutexTasks and keeps it.
LEMMA LockTaken ==
    ASSUME NEW m, NEW c, NEW f, NEW P, TasksOK(c, f, P), Shape(f, P), LockOK(m, c, f), m > 0,
           NEW t \in Tasks, NEW q, q.continueDone = c[t].continueDone,
           q.taskState = c[t].taskState, NEW th \in AllThreads, NEW u,
           u.on = t,
           u.place = "activating" \/ (u.place = "terminating" /\ q.taskState = "SUSPENDED_BLOCKED")
    PROVE  LockOK(m - 1, [c EXCEPT ![t] = q], [f EXCEPT ![th] = u])
<1> DEFINE g == [f EXCEPT ![th] = u]
           d == [c EXCEPT ![t] = q]
<1>1. f \in [AllThreads -> Thread] /\ c \in [Tasks -> TCB]
  BY DEF Shape, TasksOK
<1>2. \A x \in AllThreads : f[x].on \in Tasks
  BY <1>1 DEF Thread
<1>3. g[th] = u /\ \A x \in AllThreads : x # th => g[x] = f[x]
  BY <1>1
<1>4. d[t] = q /\ \A s \in Tasks : s # t => d[s] = c[s]
  BY <1>1
<1>5. /\ m = 1 /\ \A x \in AllThreads : ~Keeps(c, f, x)
      /\ \A s \in Tasks : c[s].continueDone = 0
  BY LockFree
<1> HIDE DEF d, g
<1>6. \A s \in Tasks : d[s].taskState = c[s].taskState
  BY <1>4
<1>7. Keeps(d, g, th) /\ \A x \in AllThreads : x # th => ~Keeps(d, g, x)
  BY <1>2, <1>3, <1>4, <1>5, <1>6 DEF Keeps
<1>8. \A s \in Tasks : d[s].continueDone = 0
  BY <1>4, <1>5
<1>9. m - 1 = 0
  BY <1>5
<1>10. LockOK(m - 1, d, g)
  BY <1>7, <1>8, <1>9 DEF LockOK
<1> QED
  BY <1>10 DEF d, g

\* th unlocks mutexTasks, which it kept or which the continued task t has locked for it.
LEMMA LockReturned ==
    ASSUME NEW m, NEW c, NEW f, NEW P, TasksOK(c, f, P), Shape(f, P), LockOK(m, c, f),
           NEW t \in Tasks, NEW q, q.continueDone = 0, q.taskState = c[t].taskState,
           NEW th \in AllThreads, NEW u, u.place \notin {"activating", "terminating"},
           Keeps(c, f, th) \/ c[t].continueDone # 0
    PROVE  m = 0 /\ LockOK(m + 1, [c EXCEPT ![t] = q], [f EXCEPT ![th] = u])
<1> DEFINE g == [f EXCEPT ![th] = u]
           d == [c EXCEPT ![t] = q]
<1>1. f \in [AllThreads -> Thread] /\ c \in [Tasks -> TCB]
  BY DEF Shape, TasksOK
<1>2. \A x \in AllThreads : f[x].on \in Tasks
  BY <1>1 DEF Thread
<1>3. g[th] = u /\ \A x \in AllThreads : x # th => g[x] = f[x]
  BY <1>1
<1>4. d[t] = q /\ \A s \in Tasks : s # t => d[s] = c[s]
  BY <1>1
<1> HIDE DEF d, g
<1>5. /\ m = 0 /\ \A x \in AllThreads : x # th => ~Keeps(c, f, x)
      /\ \A s \in Tasks : s # t => c[s].continueDone = 0
  BY DEF LockOK
<1>6. \A s \in Tasks : d[s].taskState = c[s].taskState
  BY <1>4
<1>7. \A x \in AllThreads : ~Keeps(d, g, x)
  BY <1>2, <1>3, <1>5, <1>6 DEF Keeps
<1>8. \A s \in Tasks : d[s].continueDone = 0
  BY <1>4, <1>5
<1>9. m + 1 = 1
  BY <1>5
<1>10. LockOK(m + 1, d, g)
  BY <1>7, <1>8, <1>9 DEF LockOK
<1> QED
  BY <1>5, <1>10 DEF d, g

\* The continued task t locks mutexTasks for the one that continued it.
LEMMA LockLent ==
    ASSUME NEW m, NEW c, NEW f, NEW P, TasksOK(c, f, P), Shape(f, P), LockOK(m, c, f), m > 0,
           NEW t \in Tasks, NEW q, q.continueDone = 1, q.taskState # "SUSPENDED_BLOCKED",
           NEW th \in AllThreads, NEW u, u.place \notin {"activating", "terminating"}
    PROVE  LockOK(m - 1, [c EXCEPT ![t] = q], [f EXCEPT ![th] = u])
<1> DEFINE g == [f EXCEPT ![th] = u]
           d == [c EXCEPT ![t] = q]
<1>1. f \in [AllThreads -> Thread] /\ c \in [Tasks -> TCB]
  BY DEF Shape, TasksOK
<1>2. \A x \in AllThreads : f[x].on \in Tasks
  BY <1>1 DEF Thread
<1>3. g[th] = u /\ \A x \in AllThreads : x # th => g[x] = f[x]
  BY <1>1
<1>4. d[t] = q /\ \A s \in Tasks : s # t => d[s] = c[s]
  BY <1>1
<1>5. /\ m = 1 /\ \A x \in AllThreads : ~Keeps(c, f, x)
      /\ \A s \in Tasks : c[s].continueDone = 0
  BY LockFree
<1> HIDE DEF d, g
<1>6. \A x \in AllThreads : ~Keeps(d, g, x)
  BY <1>2, <1>3, <1>4, <1>5 DEF Keeps
<1>7. \A s \in Tasks : d[s].continueDone = IF s = t THEN 1 ELSE 0
  BY <1>4, <1>5
<1>8. m - 1 = 0
  BY <1>5
<1>9. LockOK(m - 1, d, g)
  BY <1>6, <1>7, <1>8 DEF LockOK
<1> QED
  BY <1>9 DEF d, g

-----------------------------------------------------------------------------
(* The steps of a thread for its own task.                                 *)

Holds(P) == P \subseteq Statements /\ Orderly(P) /\ Good(mutexTasks, tcb, thr, P)

LEMMA Facts ==
    ASSUME NEW P, Holds(P)
    PROVE  /\ Program = P /\ Shape(thr, P) /\ TasksOK(tcb, thr, P)
           /\ LockOK(mutexTasks, tcb, thr)
           /\ thr \in [AllThreads -> Thread] /\ tcb \in [Tasks -> TCB]
  BY DEF Holds, Good, Shape, TasksOK, Program

\* What a thread at a place knows of its task.
LEMMA OwnFacts ==
    ASSUME NEW P, Holds(P), NEW th \in AllThreads, thr[th].place # "none",
           th # Timer \/ thr[th].place \notin AtTimer
    PROVE  LET s == thr[th].task IN
           /\ th \in Threads /\ s \in Tasks /\ s # NoTask /\ tcb[s] \in TCB
           /\ ~CyclicIn(P, s) => Local(tcb[s], thr[th].place, Op(thr, s), Activating(thr, s))
           /\ CyclicIn(P, s) => Undisturbed(tcb[s]) /\ thr[th].place \notin AtPipe
<1> DEFINE s == thr[th].task
<1>1. /\ Shape(thr, P) /\ TasksOK(tcb, thr, P)
      /\ thr \in [AllThreads -> Thread] /\ tcb \in [Tasks -> TCB]
  BY Facts
<1>2. th \in Threads
  BY <1>1 DEF Shape, AllThreads
<1>3. s \in Tasks /\ s # NoTask
  BY <1>1, <1>2 DEF Shape, Thread
<1> HIDE DEF s
<1>4. TaskOK(tcb[s], thr, P, s)
  BY <1>1, <1>3 DEF TasksOK
<1>5. ASSUME ~CyclicIn(P, s)
      PROVE  Local(tcb[s], thr[th].place, Op(thr, s), Activating(thr, s))
  <2>1. Place(thr, s) = thr[th].place
    BY <1>1, <1>2, <1>3, <1>5, OnlyThread DEF s
  <2> QED
    BY <1>4, <1>5, <2>1 DEF TaskOK
<1>6. ASSUME CyclicIn(P, s)
      PROVE  Undisturbed(tcb[s]) /\ thr[th].place \notin AtPipe
  BY <1>2, <1>4, <1>6 DEF TaskOK, Of, s
<1> QED
  BY <1>1, <1>2, <1>3, <1>5, <1>6 DEF s

\* Nobody controls a task that a timer activates, and it controls nobody.
LEMMA CyclicUncontrolled ==
    ASSUME NEW P, Orderly(P), NEW t, CyclicIn(P, t), NEW b, NEW op \in Control, NEW on
    PROVE  /\ [by |-> b, op |-> op, on |-> t] \notin P
           /\ [by |-> t, op |-> op, on |-> on] \notin P
  BY DEF Orderly, CyclicIn

Moved(v, place) == [v EXCEPT !.place = place]

LEMMA MovedFields ==
    ASSUME NEW v \in Thread, NEW place \in Places
    PROVE  LET u == Moved(v, place) IN
           u \in Thread /\ u.place = place /\ u.task = v.task /\ u.on = v.on
  BY DEF Thread, Moved

\* The thread goes to another place, and its task's control block becomes q.
LEMMA OwnHolds ==
    ASSUME NEW P, Holds(P), NEW th \in Threads, NEW s \in Tasks, thr[th].task = s,
           thr[th].place \notin Controlling \cup {"activating", "none"},
           NEW place \in Places, place \notin Controlling \cup {"activating", "none"},
           NEW q, q \in TCB, Calm(tcb[s], q),
           CyclicIn(P, s) => Undisturbed(q) /\ place \notin AtPipe,
           ~CyclicIn(P, s) => Local(q, place, Op(thr, s), Activating(thr, s)),
           mutexTasks' = mutexTasks, tcb' = [tcb EXCEPT ![s] = q],
           NEW u \in Thread, u.place = place, u.task = s, thr' = [thr EXCEPT ![th] = u]
    PROVE  Holds(P)'
<1>1. Good(mutexTasks, tcb, thr, P) /\ Orderly(P)
  BY DEF Holds
<1>2. Good(mutexTasks, [tcb EXCEPT ![s] = q], [thr EXCEPT ![th] = u], P)
  BY <1>1, OwnStep
<1> QED
  BY <1>2 DEF Holds

LEMMA EntryHolds ==
    ASSUME NEW P, Holds(P), NEW th \in AllThreads, Entry(th)
    PROVE  Holds(P)'
<1> DEFINE s == thr[th].task
           r == tcb[s]
           q == Entered(r)
           u == Moved(thr[th], "body")
<1>1. thr[th].place = "entry" /\ thr[th] \in Thread
  BY Facts DEF Entry
<1>2. /\ th \in Threads /\ s \in Tasks /\ r \in TCB
      /\ ~CyclicIn(P, s) => Local(r, thr[th].place, Op(thr, s), Activating(thr, s))
      /\ CyclicIn(P, s) => Undisturbed(r)
  BY <1>1, OwnFacts DEF AtTimer, Controlling, Terminating
<1>3. mutexTasks' = mutexTasks /\ tcb' = [tcb EXCEPT ![s] = q] /\ thr' = [thr EXCEPT ![th] = u]
  BY DEF Entry, GoTo, Moved, Entered
<1>4. u \in Thread /\ u.place = "body" /\ u.task = s
  BY <1>1, MovedFields DEF Places
<1> HIDE DEF u
<1>5. ~CyclicIn(P, s) => Local(q, "body", Op(thr, s), Activating(thr, s)) /\ Calm(r, q)
  BY <1>1, <1>2, LocalEntry
<1>6. CyclicIn(P, s) => Undisturbed(q) /\ Calm(r, q)
  BY <1>2, UndisturbedEntry
<1> HIDE DEF q
<1>7. q \in TCB
  BY <1>5, <1>6 DEF Local, Undisturbed
<1>8. /\ "body" \in Places /\ "body" \notin AtPipe
      /\ "body" \notin Controlling \cup {"activating", "none"}
      /\ thr[th].place \notin Controlling \cup {"activating", "none"}
  BY <1>1 DEF Places, AtPipe, Controlling, Terminating
<1> QED
  BY <1>2, <1>3, <1>4, <1>5, <1>6, <1>7, <1>8, OwnHolds

\* The thread only goes on; nothing happens to its task.
LEMMA StayHolds ==
    ASSUME NEW P, Holds(P), NEW th \in Threads, NEW s \in Tasks, thr[th].task = s,
           thr[th].place \notin Controlling \cup {"activating", "none"},
           NEW place \in Places, place \notin Controlling \cup {"activating", "none"},
           place \notin AtPipe, CyclicIn(P, s) => Undisturbed(tcb[s]),
           ~CyclicIn(P, s) => Local(tcb[s], place, Op(thr, s), Activating(thr, s)),
           UNCHANGED <<mutexTasks, tcb>>, GoTo(th, place)
    PROVE  Holds(P)'
<1> DEFINE u == Moved(thr[th], place)
<1>1. thr[th] \in Thread /\ tcb \in [Tasks -> TCB] /\ tcb[s] \in TCB
  BY Facts DEF AllThreads
<1>2. u \in Thread /\ u.place = place /\ u.task = s
  BY <1>1, MovedFields
<1>3. thr' = [thr EXCEPT ![th] = u]
  BY DEF GoTo, Moved
<1> HIDE DEF u
<1>4. tcb' = [tcb EXCEPT ![s] = tcb[s]]
  BY <1>1
<1>5. Calm(tcb[s], tcb[s])
  BY DEF Calm
<1>6. mutexTasks' = mutexTasks
  OBVIOUS
<1> QED
  BY <1>1, <1>2, <1>3, <1>4, <1>5, <1>6, OwnHolds

\* A task whose thread is at one of these places goes on at any of them.
LEMMA StatementFacts ==
    ASSUME NEW P, Holds(P), NEW th \in AllThreads, th # Timer, thr[th].place = "stmt"
    PROVE  LET s == thr[th].task IN
           /\ th \in Threads /\ s \in Tasks /\ s # NoTask
           /\ CyclicIn(P, s) => Undisturbed(tcb[s])
           /\ ~CyclicIn(P, s) =>
                /\ Local(tcb[s], "stmt", Op(thr, s), Activating(thr, s))
                /\ tcb[s].taskState = "RUNNING"
                /\ \A place \in Active : Local(tcb[s], place, Op(thr, s), Activating(thr, s))
<1> DEFINE s == thr[th].task
<1>1. /\ th \in Threads /\ s \in Tasks /\ s # NoTask
      /\ ~CyclicIn(P, s) => Local(tcb[s], "stmt", Op(thr, s), Activating(thr, s))
      /\ CyclicIn(P, s) => Undisturbed(tcb[s])
  BY OwnFacts
<1> HIDE DEF s
<1>2. "stmt" \in Active
  BY DEF Active
<1>3. ASSUME ~CyclicIn(P, s)
      PROVE  /\ tcb[s].taskState = "RUNNING"
             /\ \A place \in Active : Local(tcb[s], place, Op(thr, s), Activating(thr, s))
  <2>1. Local(tcb[s], "stmt", Op(thr, s), Activating(thr, s))
    BY <1>1, <1>3
  <2>2. tcb[s].taskState = "RUNNING" /\ Op(thr, s) # "terminatedIt"
    BY <1>2, <2>1 DEF Local, PlaceOK, RequestOK
  <2> QED
    BY <1>2, <2>1, <2>2, LocalActive
<1> QED
  BY <1>1, <1>3 DEF s

LEMMA PlainPlaces ==
    /\ {"body", "stmt", "end"} \subseteq Active
    /\ \A place \in {"entry", "body", "stmt", "end", "blocked", "unblocked"} :
         /\ place \in Places /\ place \notin AtPipe
         /\ place \notin Controlling \cup {"activating", "none"}
    /\ \A place \in AtPipe :
         /\ place \in Places /\ place \notin AtTimer
         /\ place \notin Controlling \cup {"activating", "none"}
    /\ \A place \in {"entry", "body", "end", "blocked", "unblocked"} : place \notin AtTimer
  BY DEF Active, Places, AtPipe, AtTimer, Controlling, Terminating

LEMMA ComputeHolds ==
    ASSUME NEW P, Holds(P), NEW th \in AllThreads, Compute(th)
    PROVE  Holds(P)'
<1> DEFINE s == thr[th].task
<1>1. /\ thr[th].place = "stmt" /\ th # Timer /\ GoTo(th, "body")
      /\ UNCHANGED <<mutexTasks, tcb>>
  BY DEF Compute
<1>2. /\ th \in Threads /\ s \in Tasks
      /\ CyclicIn(P, s) => Undisturbed(tcb[s])
      /\ ~CyclicIn(P, s) =>
           \A place \in Active : Local(tcb[s], place, Op(thr, s), Activating(thr, s))
  BY <1>1, StatementFacts
<1>3. ~CyclicIn(P, s) => Local(tcb[s], "body", Op(thr, s), Activating(thr, s))
  BY <1>2, PlainPlaces
<1> QED
  BY <1>1, <1>2, <1>3, PlainPlaces, StayHolds

LEMMA TimerThread ==
    ASSUME NEW P, Holds(P), NEW th \in AllThreads, thr[th].task \in Tasks
    PROVE  th # Timer
  BY Facts, TaskingAssumption DEF Shape

LEMMA EndHolds ==
    ASSUME NEW P, Holds(P), NEW th \in AllThreads, End(th)
    PROVE  Holds(P)'
<1> DEFINE s == thr[th].task
<1>1. /\ thr[th].place = "stmt" /\ GoTo(th, "end") /\ UNCHANGED <<mutexTasks, tcb>>
      /\ [by |-> s, op |-> "end", on |-> s] \in P
  BY Facts DEF End
<1>2. s \in Tasks
  BY <1>1 DEF Holds, Statements
<1>3. th # Timer
  BY <1>2, TimerThread
<1>4. /\ th \in Threads
      /\ CyclicIn(P, s) => Undisturbed(tcb[s])
      /\ ~CyclicIn(P, s) =>
           \A place \in Active : Local(tcb[s], place, Op(thr, s), Activating(thr, s))
  BY <1>1, <1>3, StatementFacts
<1>5. ~CyclicIn(P, s) => Local(tcb[s], "end", Op(thr, s), Activating(thr, s))
  BY <1>4, PlainPlaces
<1> QED
  BY <1>1, <1>2, <1>4, <1>5, PlainPlaces, StayHolds

LEMMA BlockHolds ==
    ASSUME NEW P, Holds(P), NEW th \in AllThreads, Block(th)
    PROVE  Holds(P)'
<1> DEFINE s == thr[th].task
           q == [tcb[s] EXCEPT !.taskState = "BLOCKED"]
           u == Moved(thr[th], "blocked")
<1>1. /\ thr[th].place = "stmt" /\ s # NoTask /\ thr[th] \in Thread /\ s \in Tasks
      /\ tcb \in [Tasks -> TCB]
  BY Facts DEF Block, Executes, Thread
<1>2. mutexTasks' = mutexTasks /\ tcb' = [tcb EXCEPT ![s] = q] /\ thr' = [thr EXCEPT ![th] = u]
  BY DEF Block, GoTo, Moved
<1>3. th # Timer
  BY <1>1, TimerThread
<1>4. /\ th \in Threads
      /\ CyclicIn(P, s) => Undisturbed(tcb[s])
      /\ ~CyclicIn(P, s) => Local(tcb[s], "stmt", Op(thr, s), Activating(thr, s))
  BY <1>1, <1>3, StatementFacts
<1>5. u \in Thread /\ u.place = "blocked" /\ u.task = s
  BY <1>1, MovedFields, PlainPlaces
<1>6. ~CyclicIn(P, s) => Local(q, "blocked", Op(thr, s), Activating(thr, s)) /\ Calm(tcb[s], q)
  BY <1>4, LocalBlock
<1>7. CyclicIn(P, s) => Undisturbed(q) /\ Calm(tcb[s], q)
  BY <1>4, UndisturbedBlock
<1> HIDE DEF q, u
<1>8. q \in TCB
  BY <1>6, <1>7 DEF Local, Undisturbed
<1> QED
  BY <1>1, <1>2, <1>4, <1>5, <1>6, <1>7, <1>8, PlainPlaces, OwnHolds

LEMMA WakeUpHolds ==
    ASSUME NEW P, Holds(P), NEW th \in AllThreads, WakeUp(th)
    PROVE  Holds(P)'
<1> DEFINE s == thr[th].task
           q == [tcb[s] EXCEPT !.semaBlock = @ - 1]
           u == Moved(thr[th], "unblocked")
<1>1. thr[th].place = "blocked" /\ tcb[s].semaBlock > 0 /\ thr[th] \in Thread
  BY Facts DEF WakeUp
<1>2. mutexTasks' = mutexTasks /\ tcb' = [tcb EXCEPT ![s] = q] /\ thr' = [thr EXCEPT ![th] = u]
  BY DEF WakeUp, GoTo, Moved
<1>3. /\ th \in Threads /\ s \in Tasks
      /\ CyclicIn(P, s) => Undisturbed(tcb[s])
      /\ ~CyclicIn(P, s) => Local(tcb[s], "blocked", Op(thr, s), Activating(thr, s))
  BY <1>1, PlainPlaces, OwnFacts
<1>4. u \in Thread /\ u.place = "unblocked" /\ u.task = s
  BY <1>1, MovedFields, PlainPlaces
<1>5. ~CyclicIn(P, s) => Local(q, "unblocked", Op(thr, s), Activating(thr, s)) /\ Calm(tcb[s], q)
  BY <1>1, <1>3, LocalWakeUp
<1>6. CyclicIn(P, s) => Undisturbed(q) /\ Calm(tcb[s], q)
  BY <1>1, <1>3, UndisturbedWakeUp
<1> HIDE DEF q, u
<1>7. q \in TCB
  BY <1>5, <1>6 DEF Local, Undisturbed
<1> QED
  BY <1>1, <1>2, <1>3, <1>4, <1>5, <1>6, <1>7, PlainPlaces, OwnHolds

LEMMA ReadPipeHolds ==
    ASSUME NEW P, Holds(P), NEW th \in AllThreads, ReadPipe(th)
    PROVE  Holds(P)'
<1> DEFINE s == thr[th].task
           q == [tcb[s] EXCEPT !.pipeResume = Tail(@)]
           place == IF Head(tcb[s].pipeResume) = "c" THEN "resumedC" ELSE "resumedT"
           u == Moved(thr[th], place)
<1>1. thr[th].place = "suspended" /\ tcb[s].pipeResume # <<>> /\ thr[th] \in Thread
  BY Facts DEF ReadPipe
<1>2. mutexTasks' = mutexTasks /\ tcb' = [tcb EXCEPT ![s] = q] /\ thr' = [thr EXCEPT ![th] = u]
  BY DEF ReadPipe, GoTo, Moved
<1>3. thr[th].place \in AtPipe /\ place \in AtPipe
  BY <1>1 DEF AtPipe
<1>4. /\ th \in Threads /\ s \in Tasks /\ ~CyclicIn(P, s)
      /\ Local(tcb[s], "suspended", Op(thr, s), Activating(thr, s))
  BY <1>1, <1>3, PlainPlaces, OwnFacts
<1>5. Local(q, place, Op(thr, s), Activating(thr, s)) /\ Calm(tcb[s], q)
  BY <1>1, <1>4, LocalReadPipe
<1> HIDE DEF q, place
<1>6. u \in Thread /\ u.place = place /\ u.task = s
  BY <1>1, <1>3, MovedFields, PlainPlaces
<1> HIDE DEF u
<1>7. q \in TCB
  BY <1>5 DEF Local
<1> QED
  BY <1>2, <1>3, <1>4, <1>5, <1>6, <1>7, PlainPlaces, OwnHolds

\* suspendMySelf(), of a task that no timer activates.
LEMMA SuspendHolds ==
    ASSUME NEW P, Holds(P), NEW th \in AllThreads, NEW s \in Tasks, thr[th].task = s,
           ~CyclicIn(P, s), thr[th].place \in {"body", "stmt", "unblocked"},
           tcb[s].taskState # "SUSPENDED_BLOCKED",
           NEW r \in {tcb[s], [Unasked(tcb[s]) EXCEPT !.asyncSuspendRequested = FALSE]},
           NEW return \in {"body", "stmt", "own"}, SuspendMySelf(th, r, return)
    PROVE  Holds(P)'
<1> DEFINE q == Suspended(r)
           u == Waiting(th, return)
<1>1. thr[th] \in Thread /\ th # Timer /\ thr[th].place # "none"
  BY Facts, TimerThread
<1>2. mutexTasks' = mutexTasks /\ tcb' = [tcb EXCEPT ![s] = q] /\ thr' = [thr EXCEPT ![th] = u]
  BY DEF SuspendMySelf
<1>3. th \in Threads /\ Local(tcb[s], thr[th].place, Op(thr, s), Activating(thr, s))
  BY <1>1, OwnFacts
<1>4. Local(q, "suspended", Op(thr, s), Activating(thr, s)) /\ Calm(tcb[s], q)
  BY <1>3, LocalSuspended
<1>5. u \in Thread /\ u.place = "suspended" /\ u.task = s
  BY <1>1 DEF Waiting, Thread, Places
<1> HIDE DEF q, u
<1>6. q \in TCB
  BY <1>4 DEF Local
<1>7. "suspended" \in AtPipe
  BY DEF AtPipe
<1> QED
  BY <1>2, <1>3, <1>4, <1>5, <1>6, <1>7, PlainPlaces, OwnHolds

LEMMA SuspendOwnHolds ==
    ASSUME NEW P, Holds(P), NEW th \in AllThreads, SuspendOwn(th)
    PROVE  Holds(P)'
<1> DEFINE s == thr[th].task
<1>1. /\ thr[th].place = "stmt" /\ s # NoTask /\ thr[th] \in Thread
      /\ [by |-> s, op |-> "suspend", on |-> s] \in P /\ SuspendMySelf(th, tcb[s], "own")
  BY Facts DEF SuspendOwn, Executes
<1>2. s \in Tasks
  BY <1>1 DEF Thread
<1>3. ~CyclicIn(P, s)
  BY <1>1, CyclicUncontrolled DEF Holds, Control
<1>4. tcb[s].taskState = "RUNNING"
  BY <1>1, <1>2, <1>3, TimerThread, StatementFacts
<1> QED
  BY <1>1, <1>2, <1>3, <1>4, SuspendHolds

\* terminateMySelf() of a task that has missed no activation.
LEMMA ExitHolds ==
    ASSUME NEW P, Holds(P), NEW th \in AllThreads, NEW s \in Tasks, thr[th].task = s,
           ~CyclicIn(P, s), thr[th].place \in {"body", "stmt", "end", "unblocked", "resumedT"},
           tcb[s].taskState # "SUSPENDED_BLOCKED",
           NEW r \in {tcb[s], Unasked(tcb[s])}, Exit(th, r)
    PROVE  Holds(P)'
<1> DEFINE q == Done(r)
<1>1. th # Timer /\ thr[th].place # "none"
  BY TimerThread
<1>2. mutexTasks' = mutexTasks /\ tcb' = [tcb EXCEPT ![s] = q] /\ thr' = [thr EXCEPT ![th] = Unused]
  BY DEF Exit
<1>3. th \in Threads /\ Local(tcb[s], thr[th].place, Op(thr, s), Activating(thr, s))
  BY <1>1, OwnFacts
<1>4. Local(q, "none", Op(thr, s), Activating(thr, s)) /\ Calm(tcb[s], q)
  BY <1>3, LocalExit
<1> HIDE DEF q
<1>5. q \in TCB
  BY <1>4 DEF Local
<1>6. thr[th].place \notin Controlling \cup {"activating", "none"}
  BY DEF Controlling, Terminating
<1>7. Good(mutexTasks, [tcb EXCEPT ![s] = q], [thr EXCEPT ![th] = Unused], P)
  BY <1>3, <1>4, <1>5, <1>6, EndStep DEF Holds
<1> QED
  BY <1>2, <1>7 DEF Holds

\* It has missed none.
LEMMA TerminateMySelfHolds ==
    ASSUME NEW P, Holds(P), NEW th \in AllThreads, NEW s \in Tasks, thr[th].task = s,
           ~CyclicIn(P, s), thr[th].place \in {"body", "stmt", "end", "unblocked", "resumedT"},
           tcb[s].taskState # "SUSPENDED_BLOCKED", NEW next,
           TerminateMySelf(th, tcb[s], next)
    PROVE  Holds(P)'
<1>1. th # Timer /\ thr[th].place # "none"
  BY TimerThread
<1>2. Local(tcb[s], thr[th].place, Op(thr, s), Activating(thr, s))
  BY <1>1, OwnFacts
<1>3. ~tcb[s].schedActivateOverrun
  BY <1>2 DEF Local
<1>4. Exit(th, tcb[s])
  BY <1>3 DEF TerminateMySelf
<1> QED
  BY <1>4, ExitHolds

LEMMA TerminateOwnHolds ==
    ASSUME NEW P, Holds(P), NEW th \in AllThreads, TerminateOwn(th)
    PROVE  Holds(P)'
<1> DEFINE s == thr[th].task
<1>1. /\ thr[th].place = "stmt" /\ s # NoTask /\ thr[th] \in Thread
      /\ [by |-> s, op |-> "terminate", on |-> s] \in P
      /\ TerminateMySelf(th, tcb[s], At(th, "body"))
  BY Facts DEF TerminateOwn, Executes
<1>2. s \in Tasks
  BY <1>1 DEF Thread
<1>3. ~CyclicIn(P, s)
  BY <1>1, CyclicUncontrolled DEF Holds, Control
<1>4. tcb[s].taskState = "RUNNING"
  BY <1>1, <1>2, <1>3, TimerThread, StatementFacts
<1> QED
  BY <1>1, <1>2, <1>3, <1>4, TerminateMySelfHolds

LEMMA ResumeTerminatedHolds ==
    ASSUME NEW P, Holds(P), NEW th \in AllThreads, ResumeTerminated(th)
    PROVE  Holds(P)'
<1> DEFINE s == thr[th].task
<1>1. thr[th].place = "resumedT" /\ TerminateMySelf(th, tcb[s], At(th, Back(th)))
  BY DEF ResumeTerminated
<1>2. thr[th].place \in AtPipe
  BY <1>1 DEF AtPipe
<1>3. /\ th \in Threads /\ s \in Tasks /\ ~CyclicIn(P, s)
      /\ Local(tcb[s], thr[th].place, Op(thr, s), Activating(thr, s))
  BY <1>1, <1>2, PlainPlaces, OwnFacts
<1>4. tcb[s].taskState = "SUSPENDED"
  BY <1>2, <1>3 DEF Local, PlaceOK
<1> QED
  BY <1>1, <1>3, <1>4, TerminateMySelfHolds

\* The end of the body; here a task that a timer activates may start again.
LEMMA TerminateAtEndHolds ==
    ASSUME NEW P, Holds(P), NEW th \in AllThreads, TerminateAtEnd(th)
    PROVE  Holds(P)'
<1> DEFINE s == thr[th].task
           q == Done(tcb[s])
           g == [thr EXCEPT ![th] = Unused]
<1>1. thr[th].place = "end" /\ TerminateMySelf(th, tcb[s], Unused)
  BY DEF TerminateAtEnd
<1>2. /\ th \in Threads /\ s \in Tasks
      /\ CyclicIn(P, s) => Undisturbed(tcb[s])
      /\ ~CyclicIn(P, s) => Local(tcb[s], "end", Op(thr, s), Activating(thr, s))
  BY <1>1, PlainPlaces, OwnFacts
<1>3. CASE ~CyclicIn(P, s)
  <2>1. tcb[s].taskState = "RUNNING"
    BY <1>2, <1>3, PlainPlaces DEF Local, PlaceOK
  <2> QED
    BY <1>1, <1>2, <1>3, <2>1, TerminateMySelfHolds
<1>4. CASE CyclicIn(P, s)
  <2>1. Undisturbed(q) /\ Calm(tcb[s], q)
    BY <1>2, <1>4, UndisturbedDone
  <2>2. q \in TCB
    BY <2>1 DEF Undisturbed
  <2>3. thr[th].place \notin Controlling \cup {"activating", "none"}
    BY <1>1, PlainPlaces
  <2>4. Good(mutexTasks, [tcb EXCEPT ![s] = q], g, P)
    BY <1>2, <1>4, <2>1, <2>2, <2>3, EndStep DEF Holds
  <2>5. CASE Exit(th, tcb[s])
    BY <2>4, <2>5 DEF Exit, Holds
  <2>6. CASE Restart(th, q, Unused, 0)
    <3> DEFINE n == CHOOSE x \in Free(g) : TRUE
    <3>1. /\ tcb' = [tcb EXCEPT ![s] = q] /\ mutexTasks' = mutexTasks + 0
          /\ Free(g) # {} /\ thr' = [g EXCEPT ![n] = New(s)]
      BY <2>6 DEF Restart, DirectActivate, New
    <3>2. n \in Free(g)
      BY <3>1
    <3> HIDE DEF n, g
    <3>3. n \in Threads /\ g[n].place = "none"
      BY <3>2 DEF Free
    <3>4. Good(mutexTasks, [tcb EXCEPT ![s] = q], [g EXCEPT ![n] = New(s)], P)
      BY <1>2, <1>4, <2>4, <3>3, RestartStep
    <3>5. mutexTasks' = mutexTasks
      <4>1. mutexTasks \in {0, 1}
        BY Facts DEF LockOK
      <4> QED
        BY <3>1, <4>1
    <3> QED
      BY <3>1, <3>4, <3>5 DEF Holds
  <2> QED
    BY <1>1, <2>5, <2>6 DEF TerminateMySelf
<1> QED
  BY <1>3, <1>4

\* A task in state SUSPENDED_BLOCKED does not reach its callback while mutexTasks is free:
\* who has let it go on in order to terminate it keeps mutexTasks.
LEMMA NotSuspendedBlocked ==
    ASSUME NEW P, Holds(P), NEW th \in AllThreads, NEW s \in Tasks, thr[th].task = s,
           ~CyclicIn(P, s), thr[th].place \in {"body", "unblocked"}, mutexTasks > 0
    PROVE  tcb[s].taskState # "SUSPENDED_BLOCKED"
<1>1. th # Timer /\ thr[th].place # "none"
  BY TimerThread
<1>2. Local(tcb[s], thr[th].place, Op(thr, s), Activating(thr, s))
  BY <1>1, OwnFacts
<1>3. CASE thr[th].place = "body"
  BY <1>2, <1>3, PlainPlaces DEF Local, PlaceOK
<1>4. ASSUME thr[th].place = "unblocked", tcb[s].taskState = "SUSPENDED_BLOCKED" PROVE FALSE
  <2>1. Op(thr, s) = "terminating"
    BY <1>2, <1>4 DEF Local, PlaceOK
  <2>2. On(thr, s) # {}
    BY <2>1 DEF Op
  <2>3. PICK x \in On(thr, s) : TRUE
    BY <2>2
  <2>4. thr[x].place = "terminating"
    BY <2>1, <2>3, Facts, OnlyController DEF Holds
  <2>5. x \in AllThreads /\ thr[x].on = s
    BY <2>3 DEF On
  <2>6. Keeps(tcb, thr, x)
    BY <1>4, <2>4, <2>5 DEF Keeps
  <2> QED
    BY <2>5, <2>6, Facts, LockFree
<1> QED
  BY <1>3, <1>4

\* scheduleCallback().  Nobody asks a task that a timer activates.
LEMMA CallbackHolds ==
    ASSUME NEW P, Holds(P), NEW th \in AllThreads, thr[th].place \in {"body", "unblocked"},
           NEW return \in {"body", "stmt"}, Callback(th, return)
    PROVE  Holds(P)'
<1> DEFINE s == thr[th].task
           r == Unasked(tcb[s])
<1>1. thr[th].place \notin AtTimer /\ thr[th].place # "none"
  BY DEF AtTimer, Controlling, Terminating
<1>2. /\ th \in Threads /\ s \in Tasks /\ tcb[s] \in TCB
      /\ CyclicIn(P, s) => Undisturbed(tcb[s])
      /\ ~CyclicIn(P, s) => Local(tcb[s], thr[th].place, Op(thr, s), Activating(thr, s))
  BY <1>1, OwnFacts
<1>3. mutexTasks > 0
  BY DEF Callback
<1>4. ~CyclicIn(P, s) => tcb[s].taskState # "SUSPENDED_BLOCKED"
  BY <1>2, <1>3, NotSuspendedBlocked
<1>5. CASE tcb[s].asyncTerminateRequested
  <2>1. ~CyclicIn(P, s)
    BY <1>2, <1>5 DEF Undisturbed
  <2>2. ~tcb[s].schedActivateOverrun
    BY <1>2, <2>1 DEF Local
  <2>3. ~r.schedActivateOverrun
    BY <1>2, <2>2, UnaskedFields
  <2>4. Exit(th, r)
    BY <1>5, <2>3 DEF Callback, Unasked
  <2> QED
    BY <1>2, <1>4, <2>1, <2>4, ExitHolds
<1>6. CASE ~tcb[s].asyncTerminateRequested /\ tcb[s].asyncSuspendRequested
  <2>1. ~CyclicIn(P, s)
    BY <1>2, <1>6 DEF Undisturbed
  <2>2. SuspendMySelf(th, [r EXCEPT !.asyncSuspendRequested = FALSE], return)
    BY <1>6 DEF Callback, Unasked
  <2> QED
    BY <1>2, <1>4, <2>1, <2>2, SuspendHolds
<1>7. CASE ~tcb[s].asyncTerminateRequested /\ ~tcb[s].asyncSuspendRequested
  <2>1. GoTo(th, return) /\ UNCHANGED <<mutexTasks, tcb>>
    BY <1>7 DEF Callback
  <2>2. ~CyclicIn(P, s) => Local(tcb[s], return, Op(thr, s), Activating(thr, s))
    BY <1>2, <1>7, LocalOnward
  <2> QED
    BY <1>2, <2>1, <2>2, PlainPlaces, StayHolds
<1> QED
  BY <1>5, <1>6, <1>7

LEMMA SetLocationHolds ==
    ASSUME NEW P, Holds(P), NEW th \in AllThreads, SetLocation(th) \/ AfterBlock(th)
    PROVE  Holds(P)'
  BY CallbackHolds DEF SetLocation, AfterBlock

\* A continued task goes on, and has locked mutexTasks for the one that continued it.
LEMMA ResumeContinuedHolds ==
    ASSUME NEW P, Holds(P), NEW th \in AllThreads, ResumeContinued(th)
    PROVE  Holds(P)'
<1> DEFINE s == thr[th].task
           q == Resumed(tcb[s])
           place == Back(th)
           u == Moved(thr[th], place)
<1>1. thr[th].place = "resumedC" /\ mutexTasks > 0 /\ thr[th] \in Thread
  BY Facts DEF ResumeContinued
<1>2. thr[th].place \in AtPipe
  BY <1>1 DEF AtPipe
<1>3. /\ th \in Threads /\ s \in Tasks /\ ~CyclicIn(P, s)
      /\ Local(tcb[s], "resumedC", Op(thr, s), Activating(thr, s))
  BY <1>1, <1>2, PlainPlaces, OwnFacts
<1>4. place \in {"body", "stmt"}
  BY <1>1 DEF Back, Thread
<1>5. /\ tcb[s].taskState = "SUSPENDED" /\ q.taskState = "RUNNING"
      /\ Local(q, place, Op(thr, s), Activating(thr, s))
      /\ q.continueDone = 1 /\ q.statements = tcb[s].statements
  <2> HIDE DEF place
  <2>1. Local(tcb[s], "resumedC", Op(thr, s), Activating(thr, s))
    BY <1>3
  <2> HIDE DEF s
  <2> QED
    BY <1>4, <2>1, LocalResumed
<1>6. mutexTasks' = mutexTasks - 1 /\ tcb' = [tcb EXCEPT ![s] = q] /\ thr' = [thr EXCEPT ![th] = u]
  BY <1>5 DEF ResumeContinued, State, GoTo, Moved, Resumed
<1> HIDE DEF q, place
<1>7. u \in Thread /\ u.place = place /\ u.task = s
  <2>1. place \in Places
    BY <1>4 DEF Places
  <2> QED
    BY <1>1, <2>1, MovedFields
<1> HIDE DEF u
<1>8. q \in TCB
  BY <1>5 DEF Local
<1>9. Shape([thr EXCEPT ![th] = u], P) /\ TasksOK([tcb EXCEPT ![s] = q], [thr EXCEPT ![th] = u], P)
  <2>1. /\ u.place \notin Controlling \cup {"activating", "none"}
        /\ thr[th].place \notin Controlling \cup {"activating", "none"}
    BY <1>2, <1>4, <1>7, PlainPlaces
  <2>2. Orderly(P) /\ Shape(thr, P) /\ TasksOK(tcb, thr, P)
    BY Facts DEF Holds
  <2> QED
    BY <1>3, <1>5, <1>7, <1>8, <2>1, <2>2, OwnTasks
<1>10. LockOK(mutexTasks - 1, [tcb EXCEPT ![s] = q], [thr EXCEPT ![th] = u])
  <2>1. u.place \notin {"activating", "terminating"} /\ q.taskState # "SUSPENDED_BLOCKED"
    BY <1>4, <1>5, <1>7
  <2>2. Shape(thr, P) /\ TasksOK(tcb, thr, P) /\ LockOK(mutexTasks, tcb, thr) /\ th \in AllThreads
    BY Facts
  <2> QED
    BY <1>1, <1>3, <1>5, <2>1, <2>2, LockLent
<1>11. Good(mutexTasks - 1, [tcb EXCEPT ![s] = q], [thr EXCEPT ![th] = u], P)
  BY <1>9, <1>10 DEF Good
<1> QED
  BY <1>6, <1>11 DEF Holds

-----------------------------------------------------------------------------
(* The operations on another task.                                         *)

LEMMA TargetFacts ==
    ASSUME NEW P, Holds(P), NEW t \in Tasks
    PROVE  /\ Place(thr, t) \in Places /\ tcb[t] \in TCB
           /\ ~CyclicIn(P, t) => Local(tcb[t], Place(thr, t), Op(thr, t), Activating(thr, t))
           /\ CyclicIn(P, t) => Undisturbed(tcb[t])
<1>1. TaskOK(tcb[t], thr, P, t) /\ tcb[t] \in TCB /\ thr \in [AllThreads -> Thread]
  BY Facts DEF TasksOK
<1>2. Place(thr, t) \in Places
  <2>1. CASE Of(thr, t) = {}
    BY <2>1 DEF Place, Places
  <2>2. CASE Of(thr, t) # {}
    <3>1. PICK x \in Of(thr, t) : Place(thr, t) = thr[x].place
      BY <2>2 DEF Place
    <3> QED
      BY <1>1, <3>1 DEF Of, AllThreads, Thread
  <2> QED
    BY <2>1, <2>2
<1> QED
  BY <1>1, <1>2 DEF TaskOK

\* A thread at a statement whose own task is t, that no timer activates: t is RUNNING.
LEMMA OwnIsRunning ==
    ASSUME NEW P, Holds(P), NEW th \in AllThreads, thr[th].place = "stmt", NEW t \in Tasks,
           ~CyclicIn(P, t), tcb[t].taskState # "RUNNING"
    PROVE  thr[th].task # t
  BY StatementFacts, TimerThread

\* A thread that is about to control t: nobody else does.
LEMMA BeginFacts ==
    ASSUME NEW P, Holds(P), NEW th \in AllThreads, NEW t \in Tasks, NEW op \in Control,
           Executes(th, op, t), thr[th].task # t \/ tcb[t].taskState # "RUNNING"
    PROVE  /\ thr[th].place = "stmt" /\ thr[th].task # t /\ thr[th] \in Thread
           /\ [by |-> thr[th].task, op |-> op, on |-> t] \in P
           /\ mutexTasks > 0 /\ On(thr, t) = {} /\ Op(thr, t) = "idle" /\ ~CyclicIn(P, t)
           /\ Place(thr, t) \in Places /\ tcb[t] \in TCB
           /\ Local(tcb[t], Place(thr, t), "idle", Activating(thr, t))
<1>1. /\ thr[th].place = "stmt" /\ thr[th] \in Thread /\ mutexTasks > 0
      /\ [by |-> thr[th].task, op |-> op, on |-> t] \in P /\ Shape(thr, P) /\ Orderly(P)
  BY Facts DEF Executes, Holds
<1>2. ~CyclicIn(P, t)
  BY <1>1, CyclicUncontrolled
<1>3. thr[th].task # t
  BY <1>1, <1>2, OwnIsRunning
<1>4. On(thr, t) = {} /\ Op(thr, t) = "idle"
  BY <1>1, <1>3, ControllerIdle
<1> QED
  BY <1>1, <1>2, <1>3, <1>4, TargetFacts

\* A thread that controls the task it is on.
LEMMA OngoingFacts ==
    ASSUME NEW P, Holds(P), NEW th \in AllThreads, thr[th].place \in Controlling
    PROVE  LET t == thr[th].on IN
           /\ t \in Tasks /\ thr[th].task # t /\ ~CyclicIn(P, t) /\ thr[th] \in Thread
           /\ Permitted(P, thr[th]) /\ Op(thr, t) = thr[th].place
           /\ Place(thr, t) \in Places /\ tcb[t] \in TCB
           /\ Local(tcb[t], Place(thr, t), thr[th].place, Activating(thr, t))
<1> DEFINE t == thr[th].on
<1>1. /\ thr[th] \in Thread /\ Shape(thr, P) /\ Orderly(P) /\ t \in Tasks
  BY Facts DEF Holds, Thread
<1>2. Permitted(P, thr[th])
  BY <1>1 DEF Shape
<1>3. thr[th].task # t /\ \E op \in Control : [by |-> thr[th].task, op |-> op, on |-> t] \in P
  BY <1>2 DEF Permitted
<1>4. ~CyclicIn(P, t)
  BY <1>1, <1>3, CyclicUncontrolled
<1>5. th \in On(thr, t)
  BY DEF On
<1>6. Op(thr, t) = thr[th].place
  BY <1>1, <1>5, OnlyController
<1> QED
  BY <1>1, <1>2, <1>3, <1>4, <1>6, TargetFacts

\* A thread that begins, goes on with or ends a statement that controls t.
LEMMA ControlHolds ==
    ASSUME NEW P, Holds(P), NEW th \in AllThreads, NEW t \in Tasks, ~CyclicIn(P, t),
           thr[th].place \in Controlling \cup {"stmt"}, thr[th].task # t,
           thr[th].place \in Controlling => thr[th].on = t, ~Keeps(tcb, thr, th),
           NEW u \in Thread, u.task = thr[th].task, Permitted(P, u),
           u.place \in Controlling \cup {NextPlace(th)},
           u.place \in Controlling => u.on = t,
           NEW o, o = IF u.place \in Controlling THEN u.place
                      ELSE IF thr[th].place \in Controlling THEN "idle" ELSE Op(thr, t),
           NEW q, Local(q, Place(thr, t), o, Activating(thr, t)), Calm(tcb[t], q),
           u.place = "terminating" => q.taskState # "SUSPENDED_BLOCKED",
           mutexTasks' = mutexTasks, tcb' = [tcb EXCEPT ![t] = q], thr' = [thr EXCEPT ![th] = u]
    PROVE  Holds(P)'
<1>1. Orderly(P) /\ Shape(thr, P) /\ TasksOK(tcb, thr, P) /\ LockOK(mutexTasks, tcb, thr)
  BY Facts DEF Holds
<1>2. /\ thr[th].place \in Active /\ u.place \in Active
      /\ thr[th].place # "activating" /\ u.place # "activating"
      /\ th = Timer => u.place \in AtTimer
  BY DEF Active, AtTimer, Controlling, Terminating, NextPlace
<1>3. q \in TCB /\ q.statements = tcb[t].statements
  BY DEF Local, Calm
<1>4. Shape([thr EXCEPT ![th] = u], P) /\ TasksOK([tcb EXCEPT ![t] = q], [thr EXCEPT ![th] = u], P)
  BY <1>1, <1>2, <1>3, ControlTasks
<1>5. u.place = "terminating" => u.on = t /\ q.taskState # "SUSPENDED_BLOCKED"
  BY DEF Controlling, Terminating
<1>6. LockOK(mutexTasks, [tcb EXCEPT ![t] = q], [thr EXCEPT ![th] = u])
  BY <1>1, <1>2, <1>5, LockCalm
<1>7. Good(mutexTasks, [tcb EXCEPT ![t] = q], [thr EXCEPT ![th] = u], P)
  BY <1>4, <1>6 DEF Good
<1> QED
  BY <1>7 DEF Holds

Sent(v, place, t) == [v EXCEPT !.place = place, !.on = t]

LEMMA SentFields ==
    ASSUME NEW v \in Thread, NEW place \in Places, NEW t \in Tasks
    PROVE  LET u == Sent(v, place, t) IN
           u \in Thread /\ u.place = place /\ u.task = v.task /\ u.on = t
  BY DEF Thread, Sent

LEMMA ControlPlaces ==
    /\ Terminating \subseteq Controlling
    /\ \A place \in Controlling : place \in Places /\ place \notin {"stmt", "body", "activating", "none"}
    /\ {"suspending", "suspendedIt", "continuing", "terminatedIt", "terminatingSuspended",
        "terminatingTwice", "terminating"} \subseteq Controlling
    /\ \A th : NextPlace(th) \in Places /\ NextPlace(th) \notin Controlling
  BY DEF Controlling, Terminating, Places, NextPlace

LEMMA BeginHolds ==
    ASSUME NEW P, Holds(P), NEW th \in AllThreads, NEW t \in Tasks, NEW op \in Control,
           Executes(th, op, t), thr[th].task # t \/ tcb[t].taskState # "RUNNING",
           NEW place \in Controlling,
           place \in Terminating \cup {"terminatedIt"} => op = "terminate",
           NEW q, Local(q, Place(thr, t), place, Activating(thr, t)), Calm(tcb[t], q),
           place = "terminating" => q.taskState # "SUSPENDED_BLOCKED",
           mutexTasks' = mutexTasks, tcb' = [tcb EXCEPT ![t] = q], WaitFor(th, place, t)
    PROVE  Holds(P)'
<1> DEFINE u == Sent(thr[th], place, t)
<1>1. /\ thr[th].place = "stmt" /\ thr[th].task # t /\ thr[th] \in Thread
      /\ [by |-> thr[th].task, op |-> op, on |-> t] \in P /\ ~CyclicIn(P, t)
  BY BeginFacts
<1>a. place \in Places
  BY ControlPlaces
<1>2. u \in Thread /\ u.place = place /\ u.task = thr[th].task /\ u.on = t
  BY <1>1, <1>a, SentFields
<1>3. thr' = [thr EXCEPT ![th] = u]
  BY DEF WaitFor, Sent
<1> HIDE DEF u
<1>4. Permitted(P, u)
  BY <1>1, <1>2 DEF Permitted
<1>5. ~Keeps(tcb, thr, th)
  BY <1>1 DEF Keeps
<1>6. thr[th].place \in Controlling \cup {"stmt"} /\ thr[th].place \notin Controlling
  BY <1>1, ControlPlaces
<1> QED
  BY <1>1, <1>2, <1>3, <1>4, <1>5, <1>6, ControlHolds

LEMMA SuspendRunningHolds ==
    ASSUME NEW P, Holds(P), NEW th \in AllThreads, NEW t \in Tasks, SuspendRunning(th, t)
    PROVE  Holds(P)'
<1> DEFINE q == [tcb[t] EXCEPT !.asyncSuspendRequested = TRUE, !.suspendWaiters = @ + 1]
<1>1. /\ Executes(th, "suspend", t) /\ thr[th].task # t /\ tcb[t].taskState = "RUNNING"
      /\ mutexTasks' = mutexTasks /\ tcb' = [tcb EXCEPT ![t] = q]
      /\ WaitFor(th, "suspending", t)
  BY DEF SuspendRunning, State
<1>2. "suspend" \in Control /\ "suspending" \in Controlling
  BY ControlPlaces DEF Control
<1>3. Place(thr, t) \in Places /\ Local(tcb[t], Place(thr, t), "idle", Activating(thr, t))
  BY <1>1, <1>2, BeginFacts
<1>4. Local(q, Place(thr, t), "suspending", Activating(thr, t)) /\ Calm(tcb[t], q)
  BY <1>1, <1>3, LocalAskSuspend
<1> HIDE DEF q
<1>5. "suspending" \notin Terminating \cup {"terminatedIt"}
  BY DEF Terminating
<1> QED
  BY <1>1, <1>2, <1>4, <1>5, BeginHolds

LEMMA ContinueSuspendedHolds ==
    ASSUME NEW P, Holds(P), NEW th \in AllThreads, NEW t \in Tasks, ContinueSuspended(th, t)
    PROVE  Holds(P)'
<1> DEFINE q == [tcb[t] EXCEPT !.continueWaiters = @ + 1, !.pipeResume = Append(@, "c")]
<1>1. /\ tcb[t].taskState = "SUSPENDED"
      /\ mutexTasks' = mutexTasks /\ tcb' = [tcb EXCEPT ![t] = q]
      /\ WaitFor(th, "continuing", t)
  BY DEF ContinueSuspended, State
<1>2. PICK op \in Control : Executes(th, op, t)
  BY DEF ContinueSuspended, Continues, Control
<1>3. Place(thr, t) \in Places /\ Local(tcb[t], Place(thr, t), "idle", Activating(thr, t))
  BY <1>1, <1>2, BeginFacts
<1>4. Local(q, Place(thr, t), "continuing", Activating(thr, t)) /\ Calm(tcb[t], q)
  BY <1>1, <1>3, LocalAskContinue
<1> HIDE DEF q
<1>5. "continuing" \notin Terminating \cup {"terminatedIt"} /\ "continuing" \in Controlling
  BY DEF Terminating, Controlling
<1> QED
  BY <1>1, <1>2, <1>4, <1>5, BeginHolds

LEMMA TerminateRunningHolds ==
    ASSUME NEW P, Holds(P), NEW th \in AllThreads, NEW t \in Tasks, TerminateRunning(th, t)
    PROVE  Holds(P)'
<1> DEFINE q == AskTermination(tcb[t], 1)
<1>1. /\ Executes(th, "terminate", t) /\ thr[th].task # t /\ tcb[t].taskState = "RUNNING"
      /\ mutexTasks' = mutexTasks /\ tcb' = [tcb EXCEPT ![t] = q]
      /\ WaitFor(th, "terminating", t)
  BY Facts DEF TerminateRunning, Terminates, State
<1>2. "terminate" \in Control /\ "terminating" \in Controlling
  BY ControlPlaces DEF Control
<1>3. /\ Place(thr, t) \in Places /\ tcb[t] \in TCB
      /\ Local(tcb[t], Place(thr, t), "idle", Activating(thr, t))
  BY <1>1, <1>2, BeginFacts
<1>4. Local(q, Place(thr, t), "terminating", Activating(thr, t)) /\ Calm(tcb[t], q)
  BY <1>1, <1>3, LocalAskTermination
<1> HIDE DEF q
<1>5. q.taskState # "SUSPENDED_BLOCKED"
  BY <1>1, <1>4 DEF Calm
<1> QED
  BY <1>1, <1>2, <1>4, <1>5, BeginHolds

LEMMA TerminateBlockedHolds ==
    ASSUME NEW P, Holds(P), NEW th \in AllThreads, NEW t \in Tasks, TerminateBlocked(th, t)
    PROVE  Holds(P)'
<1> DEFINE q == [AskTermination(tcb[t], 1) EXCEPT !.taskState = "TERMINATED", !.semaBlock = @ + 1]
<1>1. /\ Executes(th, "terminate", t) /\ thr[th].task # t /\ tcb[t].taskState = "BLOCKED"
      /\ mutexTasks' = mutexTasks /\ tcb' = [tcb EXCEPT ![t] = q]
      /\ WaitFor(th, "terminating", t)
  BY DEF TerminateBlocked, Terminates, State
<1>2. "terminate" \in Control /\ "terminating" \in Controlling
  BY ControlPlaces DEF Control
<1>3. Place(thr, t) \in Places /\ Local(tcb[t], Place(thr, t), "idle", Activating(thr, t))
  BY <1>1, <1>2, BeginFacts
<1>4. Local(q, Place(thr, t), "terminating", Activating(thr, t)) /\ Calm(tcb[t], q)
  BY <1>1, <1>3, LocalTerminateBlocked
<1> HIDE DEF q
<1>5. q.taskState # "SUSPENDED_BLOCKED"
  BY <1>1, <1>4 DEF Calm
<1> QED
  BY <1>1, <1>2, <1>4, <1>5, BeginHolds

LEMMA TerminateSuspendedHolds ==
    ASSUME NEW P, Holds(P), NEW th \in AllThreads, NEW t \in Tasks, TerminateSuspended(th, t)
    PROVE  Holds(P)'
<1> DEFINE q == AskTermination(tcb[t], 2)
<1>1. /\ Executes(th, "terminate", t) /\ thr[th].task # t /\ tcb[t].taskState = "SUSPENDED"
      /\ mutexTasks' = mutexTasks /\ tcb' = [tcb EXCEPT ![t] = q]
      /\ WaitFor(th, "terminatingSuspended", t)
  BY Facts DEF TerminateSuspended, Terminates, State
<1>2. "terminate" \in Control /\ "terminatingSuspended" \in Controlling
  BY ControlPlaces DEF Control
<1>3. Place(thr, t) \in Places /\ Local(tcb[t], Place(thr, t), "idle", Activating(thr, t))
  BY <1>1, <1>2, BeginFacts
<1>4. Local(q, Place(thr, t), "terminatingSuspended", Activating(thr, t)) /\ Calm(tcb[t], q)
  BY <1>1, <1>3, LocalTerminateSuspended
<1> HIDE DEF q
<1> QED
  BY <1>1, <1>2, <1>4, BeginHolds

\* The thread goes on with its operation.
LEMMA OngoingHolds ==
    ASSUME NEW P, Holds(P), NEW th \in AllThreads, thr[th].place \in Controlling,
           NEW t \in Tasks, thr[th].on = t, ~Keeps(tcb, thr, th), NEW place \in Controlling,
           place \in Terminating \cup {"terminatedIt"} =>
             thr[th].place \in Terminating \cup {"terminatedIt"},
           NEW q, Local(q, Place(thr, t), place, Activating(thr, t)), Calm(tcb[t], q),
           place = "terminating" => q.taskState # "SUSPENDED_BLOCKED",
           mutexTasks' = mutexTasks, tcb' = [tcb EXCEPT ![t] = q], GoTo(th, place)
    PROVE  Holds(P)'
<1> DEFINE u == Moved(thr[th], place)
<1>1. thr[th].task # t /\ thr[th] \in Thread /\ ~CyclicIn(P, t) /\ Permitted(P, thr[th])
  BY OngoingFacts
<1>2. u \in Thread /\ u.place = place /\ u.task = thr[th].task /\ u.on = t
  BY <1>1, ControlPlaces, MovedFields
<1>3. thr' = [thr EXCEPT ![th] = u]
  BY DEF GoTo, Moved
<1> HIDE DEF u
<1>4. Permitted(P, u)
  BY <1>1, <1>2 DEF Permitted
<1> QED
  BY <1>1, <1>2, <1>3, <1>4, ControlHolds

\* The operation returns.
LEMMA ReturnHolds ==
    ASSUME NEW P, Holds(P), NEW th \in AllThreads, thr[th].place \in Controlling,
           NEW t \in Tasks, thr[th].on = t, ~Keeps(tcb, thr, th),
           NEW q, Local(q, Place(thr, t), "idle", Activating(thr, t)), Calm(tcb[t], q),
           mutexTasks' = mutexTasks, tcb' = [tcb EXCEPT ![t] = q], GoTo(th, NextPlace(th))
    PROVE  Holds(P)'
<1> DEFINE u == Moved(thr[th], NextPlace(th))
<1>1. thr[th].task # t /\ thr[th] \in Thread /\ ~CyclicIn(P, t)
  BY OngoingFacts
<1>2. NextPlace(th) \in Places /\ NextPlace(th) \notin Controlling
  BY ControlPlaces
<1>3. u \in Thread /\ u.place = NextPlace(th) /\ u.task = thr[th].task
  BY <1>1, <1>2, MovedFields
<1>4. thr' = [thr EXCEPT ![th] = u]
  BY DEF GoTo, Moved
<1> HIDE DEF u
<1>5. Permitted(P, u) /\ u.place # "terminating"
  BY <1>2, <1>3 DEF Permitted, Controlling, Terminating
<1> QED
  BY <1>1, <1>2, <1>3, <1>4, <1>5, ControlHolds

LEMMA SuspendAcknowledgedHolds ==
    ASSUME NEW P, Holds(P), NEW th \in AllThreads, SuspendAcknowledged(th)
    PROVE  Holds(P)'
<1> DEFINE t == thr[th].on
           q == [tcb[t] EXCEPT !.suspendDone = @ - 1]
<1>1. /\ thr[th].place = "suspending" /\ tcb[t].suspendDone > 0
      /\ mutexTasks' = mutexTasks /\ tcb' = [tcb EXCEPT ![t] = q] /\ GoTo(th, "suspendedIt")
  BY DEF SuspendAcknowledged
<1>2. /\ thr[th].place \in Controlling /\ "suspendedIt" \in Controlling
      /\ "suspendedIt" \notin Terminating \cup {"terminatedIt"} /\ ~Keeps(tcb, thr, th)
  BY <1>1 DEF Controlling, Terminating, Keeps
<1>3. /\ t \in Tasks /\ Place(thr, t) \in Places
      /\ Local(tcb[t], Place(thr, t), "suspending", Activating(thr, t))
  BY <1>1, <1>2, OngoingFacts
<1>4. Local(q, Place(thr, t), "suspendedIt", Activating(thr, t)) /\ Calm(tcb[t], q)
  BY <1>1, <1>3, LocalSuspendAcknowledged
<1> HIDE DEF q
<1> QED
  BY <1>1, <1>2, <1>3, <1>4, OngoingHolds

LEMMA SuspendDoneHolds ==
    ASSUME NEW P, Holds(P), NEW th \in AllThreads, SuspendDone(th)
    PROVE  Holds(P)'
<1> DEFINE t == thr[th].on
<1>1. /\ thr[th].place = "suspendedIt" /\ mutexTasks' = mutexTasks
      /\ tcb' = tcb /\ GoTo(th, NextPlace(th))
  BY DEF SuspendDone
<1>2. thr[th].place \in Controlling /\ ~Keeps(tcb, thr, th)
  BY <1>1 DEF Controlling, Terminating, Keeps
<1>3. /\ t \in Tasks /\ Place(thr, t) \in Places
      /\ Local(tcb[t], Place(thr, t), "suspendedIt", Activating(thr, t))
  BY <1>1, <1>2, OngoingFacts
<1>4. Local(tcb[t], Place(thr, t), "idle", Activating(thr, t)) /\ Calm(tcb[t], tcb[t])
  BY <1>3, LocalSuspendDone DEF Calm
<1>5. tcb' = [tcb EXCEPT ![t] = tcb[t]]
  BY <1>1, Facts
<1> QED
  BY <1>1, <1>2, <1>3, <1>4, <1>5, ReturnHolds

LEMMA WriteTerminateHolds ==
    ASSUME NEW P, Holds(P), NEW th \in AllThreads, WriteTerminate(th)
    PROVE  Holds(P)'
<1> DEFINE t == thr[th].on
           q == [tcb[t] EXCEPT !.pipeResume = Append(@, "t")]
<1>1. /\ thr[th].place = "terminatingSuspended" /\ mutexTasks' = mutexTasks
      /\ tcb' = [tcb EXCEPT ![t] = q] /\ GoTo(th, "terminatingTwice")
  BY DEF WriteTerminate
<1>2. /\ thr[th].place \in Controlling /\ "terminatingTwice" \in Controlling
      /\ thr[th].place \in Terminating /\ ~Keeps(tcb, thr, th)
  BY <1>1 DEF Controlling, Terminating, Keeps
<1>3. /\ t \in Tasks /\ Place(thr, t) \in Places
      /\ Local(tcb[t], Place(thr, t), "terminatingSuspended", Activating(thr, t))
  BY <1>1, <1>2, OngoingFacts
<1>4. Local(q, Place(thr, t), "terminatingTwice", Activating(thr, t)) /\ Calm(tcb[t], q)
  BY <1>3, LocalWriteTerminate
<1> HIDE DEF q
<1> QED
  BY <1>1, <1>2, <1>3, <1>4, OngoingHolds

LEMMA TerminateAcknowledgedHolds ==
    ASSUME NEW P, Holds(P), NEW th \in AllThreads, TerminateAcknowledged(th)
    PROVE  Holds(P)'
<1> DEFINE t == thr[th].on
           q == [tcb[t] EXCEPT !.terminateDone = @ - 1]
<1>1. /\ thr[th].place \in {"terminatingTwice", "terminating"} /\ tcb[t].terminateDone > 0
      /\ mutexTasks' = mutexTasks /\ tcb' = [tcb EXCEPT ![t] = q]
      /\ GoTo(th, IF thr[th].place = "terminating" THEN "terminatedIt" ELSE "terminating")
  BY DEF TerminateAcknowledged
<1>2. /\ thr[th].place \in Controlling /\ thr[th].place \in Terminating
      /\ "terminating" \in Controlling /\ "terminatedIt" \in Controlling
  BY <1>1 DEF Controlling, Terminating
<1>3. /\ t \in Tasks /\ Place(thr, t) \in Places /\ tcb[t] \in TCB
      /\ Local(tcb[t], Place(thr, t), thr[th].place, Activating(thr, t))
  BY <1>1, <1>2, OngoingFacts
<1>4. tcb[t].taskState = "TERMINATED"
  <2>1. tcb[t].terminateDone # 0
    <3>1. tcb[t].terminateDone > 0
      BY <1>1
    <3> QED
      BY <3>1
  <2>2. Place(thr, t) = "none"
    BY <1>3, <2>1 DEF Local, RequestOK
  <2> QED
    BY <1>3, <2>2 DEF Local, PlaceOK
<1>5. ~Keeps(tcb, thr, th)
  BY <1>1, <1>4 DEF Keeps
<1>6. CASE thr[th].place = "terminating"
  <2>1. Local(q, Place(thr, t), "terminatedIt", Activating(thr, t)) /\ Calm(tcb[t], q)
    BY <1>1, <1>3, <1>6, LocalTerminated
  <2> HIDE DEF q
  <2> QED
    BY <1>1, <1>2, <1>3, <1>5, <1>6, <2>1, OngoingHolds
<1>7. CASE thr[th].place = "terminatingTwice"
  <2>1. Local(q, Place(thr, t), "terminating", Activating(thr, t)) /\ Calm(tcb[t], q)
    BY <1>1, <1>3, <1>7, LocalFirstAcknowledged
  <2>2. q.taskState # "SUSPENDED_BLOCKED"
    BY <1>4, <2>1 DEF Calm
  <2> HIDE DEF q
  <2> QED
    BY <1>1, <1>2, <1>3, <1>5, <1>7, <2>1, <2>2, OngoingHolds
<1> QED
  BY <1>1, <1>6, <1>7

LEMMA SetTerminatedHolds ==
    ASSUME NEW P, Holds(P), NEW th \in AllThreads, SetTerminated(th)
    PROVE  Holds(P)'
<1> DEFINE t == thr[th].on
           q == [tcb[t] EXCEPT !.taskState = "TERMINATED"]
<1>1. /\ thr[th].place = "terminatedIt" /\ mutexTasks' = mutexTasks
      /\ tcb' = [tcb EXCEPT ![t] = q] /\ GoTo(th, NextPlace(th))
  BY DEF SetTerminated
<1>2. thr[th].place \in Controlling /\ ~Keeps(tcb, thr, th)
  BY <1>1 DEF Controlling, Terminating, Keeps
<1>3. /\ t \in Tasks /\ Place(thr, t) \in Places
      /\ Local(tcb[t], Place(thr, t), "terminatedIt", Activating(thr, t))
  BY <1>1, <1>2, OngoingFacts
<1>4. Local(q, Place(thr, t), "idle", Activating(thr, t)) /\ Calm(tcb[t], q)
  BY <1>3, LocalSetTerminated
<1> HIDE DEF q
<1> QED
  BY <1>1, <1>2, <1>3, <1>4, ReturnHolds

\* Who continued a task gives mutexTasks back, which that task has locked.
LEMMA ContinuedHolds ==
    ASSUME NEW P, Holds(P), NEW th \in AllThreads, Continued(th)
    PROVE  Holds(P)'
<1> DEFINE t == thr[th].on
           q == [tcb[t] EXCEPT !.continueDone = @ - 1]
           u == Moved(thr[th], NextPlace(th))
<1>1. /\ thr[th].place = "continuing" /\ tcb[t].continueDone > 0
      /\ mutexTasks' = mutexTasks + 1 /\ tcb' = [tcb EXCEPT ![t] = q]
      /\ thr' = [thr EXCEPT ![th] = u]
  BY DEF Continued, GoTo, Moved
<1>2. thr[th].place \in Controlling
  BY <1>1, ControlPlaces
<1>3. /\ t \in Tasks /\ Place(thr, t) \in Places /\ thr[th] \in Thread /\ thr[th].task # t
      /\ ~CyclicIn(P, t) /\ Local(tcb[t], Place(thr, t), "continuing", Activating(thr, t))
  BY <1>1, <1>2, OngoingFacts
<1>4. /\ Local(q, Place(thr, t), "idle", Activating(thr, t)) /\ q.statements = tcb[t].statements
      /\ q.continueDone = 0 /\ q.taskState = tcb[t].taskState
  BY <1>1, <1>3, LocalContinued
<1>5. NextPlace(th) \in Places /\ NextPlace(th) \notin Controlling
  BY ControlPlaces
<1>6. u \in Thread /\ u.place = NextPlace(th) /\ u.task = thr[th].task
  BY <1>3, <1>5, MovedFields
<1> HIDE DEF q, u
<1>7. /\ thr[th].place \in Active /\ u.place \in Active
      /\ thr[th].place # "activating" /\ u.place # "activating"
      /\ th = Timer => u.place \in AtTimer
      /\ u.place \notin {"activating", "terminating"}
  BY <1>1, <1>6 DEF Active, AtTimer, Controlling, NextPlace
<1>8. Permitted(P, u)
  BY <1>5, <1>6 DEF Permitted, Controlling, Terminating
<1>9. q \in TCB
  BY <1>4 DEF Local
<1>10. Orderly(P) /\ Shape(thr, P) /\ TasksOK(tcb, thr, P) /\ LockOK(mutexTasks, tcb, thr)
  BY Facts DEF Holds
<1>11. Shape([thr EXCEPT ![th] = u], P) /\ TasksOK([tcb EXCEPT ![t] = q], [thr EXCEPT ![th] = u], P)
  BY <1>2, <1>3, <1>4, <1>5, <1>6, <1>7, <1>8, <1>9, <1>10, ControlTasks
<1>12. tcb[t].continueDone # 0
  BY <1>1
<1>13. LockOK(mutexTasks + 1, [tcb EXCEPT ![t] = q], [thr EXCEPT ![th] = u])
  BY <1>3, <1>4, <1>7, <1>10, <1>12, LockReturned
<1>14. Good(mutexTasks + 1, [tcb EXCEPT ![t] = q], [thr EXCEPT ![th] = u], P)
  BY <1>11, <1>13 DEF Good
<1> QED
  BY <1>1, <1>14 DEF Holds

\* Operations on a blocked task, which need no help of its thread.
LEMMA BlockedHolds ==
    ASSUME NEW P, Holds(P), NEW th \in AllThreads, NEW t \in Tasks, NEW op \in Control,
           Executes(th, op, t), tcb[t].taskState # "RUNNING",
           NEW q, Local(q, Place(thr, t), "idle", Activating(thr, t)),
           q.statements = tcb[t].statements, q.continueDone = tcb[t].continueDone,
           mutexTasks' = mutexTasks, tcb' = [tcb EXCEPT ![t] = q], GoTo(th, NextPlace(th))
    PROVE  Holds(P)'
<1> DEFINE u == Moved(thr[th], NextPlace(th))
<1>1. /\ thr[th].place = "stmt" /\ thr[th].task # t /\ thr[th] \in Thread /\ mutexTasks > 0
      /\ On(thr, t) = {} /\ Op(thr, t) = "idle" /\ ~CyclicIn(P, t)
  BY BeginFacts
<1>2. NextPlace(th) \in Places /\ NextPlace(th) \notin Controlling
  BY ControlPlaces
<1>3. u \in Thread /\ u.place = NextPlace(th) /\ u.task = thr[th].task
  BY <1>1, <1>2, MovedFields
<1>4. thr' = [thr EXCEPT ![th] = u]
  BY DEF GoTo, Moved
<1> HIDE DEF u
<1>5. /\ thr[th].place \in Active /\ u.place \in Active
      /\ thr[th].place # "activating" /\ u.place # "activating"
      /\ th = Timer => u.place \in AtTimer /\ thr[th].place \notin Controlling
      /\ u.place \notin {"activating", "terminating"}
  BY <1>1, <1>3 DEF Active, AtTimer, Controlling, Terminating, NextPlace
<1>6. thr[th].place \notin Controlling
  BY <1>1, ControlPlaces
<1>7. Permitted(P, u)
  BY <1>2, <1>3 DEF Permitted, Controlling, Terminating
<1>8. q \in TCB
  BY DEF Local
<1>9. Orderly(P) /\ Shape(thr, P) /\ TasksOK(tcb, thr, P) /\ LockOK(mutexTasks, tcb, thr)
  BY Facts DEF Holds
<1>10. Shape([thr EXCEPT ![th] = u], P) /\ TasksOK([tcb EXCEPT ![t] = q], [thr EXCEPT ![th] = u], P)
  BY <1>1, <1>2, <1>3, <1>5, <1>6, <1>7, <1>8, <1>9, ControlTasks
<1>11. LockOK(mutexTasks, [tcb EXCEPT ![t] = q], [thr EXCEPT ![th] = u])
  BY <1>1, <1>5, <1>9, LockUnneeded
<1>12. Good(mutexTasks, [tcb EXCEPT ![t] = q], [thr EXCEPT ![th] = u], P)
  BY <1>10, <1>11 DEF Good
<1> QED
  BY <1>4, <1>12 DEF Holds

LEMMA SuspendBlockedHolds ==
    ASSUME NEW P, Holds(P), NEW th \in AllThreads, NEW t \in Tasks, SuspendBlocked(th, t)
    PROVE  Holds(P)'
<1> DEFINE q == [tcb[t] EXCEPT !.taskState = "SUSPENDED_BLOCKED"]
<1>1. /\ Executes(th, "suspend", t) /\ tcb[t].taskState = "BLOCKED"
      /\ mutexTasks' = mutexTasks /\ tcb' = [tcb EXCEPT ![t] = q] /\ GoTo(th, NextPlace(th))
  BY DEF SuspendBlocked, State
<1>2. "suspend" \in Control
  BY DEF Control
<1>3. Place(thr, t) \in Places /\ Local(tcb[t], Place(thr, t), "idle", Activating(thr, t))
  BY <1>1, <1>2, BeginFacts
<1>4. /\ Local(q, Place(thr, t), "idle", Activating(thr, t))
      /\ q.statements = tcb[t].statements /\ q.continueDone = tcb[t].continueDone
  BY <1>1, <1>3, LocalSuspendBlocked
<1> HIDE DEF q
<1> QED
  BY <1>1, <1>2, <1>4, BlockedHolds

LEMMA ContinueSuspendedBlockedHolds ==
    ASSUME NEW P, Holds(P), NEW th \in AllThreads, NEW t \in Tasks, ContinueSuspendedBlocked(th, t)
    PROVE  Holds(P)'
<1>1. /\ tcb[t].taskState = "SUSPENDED_BLOCKED" /\ mutexTasks' = mutexTasks
      /\ GoTo(th, NextPlace(th))
  BY DEF ContinueSuspendedBlocked, State
<1>2. PICK op \in Control : Executes(th, op, t)
  BY DEF ContinueSuspendedBlocked, Continues, Control
<1>3. Place(thr, t) \in Places /\ Local(tcb[t], Place(thr, t), "idle", Activating(thr, t))
  BY <1>1, <1>2, BeginFacts
<1>4. CASE tcb' = [tcb EXCEPT ![t] = Unblocked(tcb[t])]
  <2>1. LET q == Unblocked(tcb[t]) IN
        /\ Local(q, Place(thr, t), "idle", Activating(thr, t))
        /\ q.statements = tcb[t].statements /\ q.continueDone = tcb[t].continueDone
    BY <1>1, <1>3, LocalUnblock
  <2> QED
    BY <1>1, <1>2, <1>4, <2>1, BlockedHolds
<1>5. CASE tcb' = [tcb EXCEPT ![t] = [tcb[t] EXCEPT !.taskState = "BLOCKED"]]
  <2> DEFINE q == [tcb[t] EXCEPT !.taskState = "BLOCKED"]
  <2>1. /\ Local(q, Place(thr, t), "idle", Activating(thr, t))
        /\ q.statements = tcb[t].statements /\ q.continueDone = tcb[t].continueDone
    BY <1>1, <1>3, LocalBlockAgain
  <2>2. tcb' = [tcb EXCEPT ![t] = q]
    BY <1>5
  <2> HIDE DEF q
  <2> QED
    BY <1>1, <1>2, <2>1, <2>2, BlockedHolds
<1>6. \/ tcb' = [tcb EXCEPT ![t] = Unblocked(tcb[t])]
      \/ tcb' = [tcb EXCEPT ![t] = [tcb[t] EXCEPT !.taskState = "BLOCKED"]]
  BY Facts DEF ContinueSuspendedBlocked
<1> QED
  BY <1>4, <1>5, <1>6

\* The thread keeps mutexTasks until the target has ended.
LEMMA TerminateSuspendedBlockedHolds ==
    ASSUME NEW P, Holds(P), NEW th \in AllThreads, NEW t \in Tasks,
           TerminateSuspendedBlocked(th, t)
    PROVE  Holds(P)'
<1> DEFINE q == [AskTermination(tcb[t], 1) EXCEPT !.semaBlock = @ + 1]
           u == Sent(thr[th], "terminating", t)
<1>1. /\ Executes(th, "terminate", t) /\ tcb[t].taskState = "SUSPENDED_BLOCKED"
      /\ mutexTasks' = mutexTasks - 1 /\ tcb' = [tcb EXCEPT ![t] = q]
      /\ thr' = [thr EXCEPT ![th] = u]
  BY DEF TerminateSuspendedBlocked, Terminates, State, WaitFor, Sent
<1>2. "terminate" \in Control /\ "terminating" \in Controlling /\ "terminating" \in Places
  BY ControlPlaces DEF Control, Places
<1>3. /\ thr[th].place = "stmt" /\ thr[th].task # t /\ thr[th] \in Thread /\ mutexTasks > 0
      /\ [by |-> thr[th].task, op |-> "terminate", on |-> t] \in P /\ ~CyclicIn(P, t)
      /\ Place(thr, t) \in Places /\ Local(tcb[t], Place(thr, t), "idle", Activating(thr, t))
  BY <1>1, <1>2, BeginFacts
<1>4. Local(q, Place(thr, t), "terminating", Activating(thr, t)) /\ Calm(tcb[t], q)
  BY <1>1, <1>3, LocalTerminateSuspendedBlocked
<1>5. u \in Thread /\ u.place = "terminating" /\ u.task = thr[th].task /\ u.on = t
  BY <1>2, <1>3, SentFields
<1> HIDE DEF q, u
<1>6. /\ thr[th].place \in Active /\ u.place \in Active
      /\ thr[th].place # "activating" /\ u.place # "activating"
      /\ u.place \in AtTimer /\ thr[th].place \notin Controlling
  BY <1>3, <1>5 DEF Active, AtTimer, Controlling, Terminating
<1>7. Permitted(P, u)
  BY <1>2, <1>3, <1>5 DEF Permitted
<1>8. /\ q \in TCB /\ q.statements = tcb[t].statements
      /\ q.continueDone = tcb[t].continueDone /\ q.taskState = "SUSPENDED_BLOCKED"
  BY <1>1, <1>4 DEF Local, Calm
<1>9. Orderly(P) /\ Shape(thr, P) /\ TasksOK(tcb, thr, P) /\ LockOK(mutexTasks, tcb, thr)
  BY Facts DEF Holds
<1>10. Shape([thr EXCEPT ![th] = u], P) /\ TasksOK([tcb EXCEPT ![t] = q], [thr EXCEPT ![th] = u], P)
  BY <1>2, <1>3, <1>4, <1>5, <1>6, <1>7, <1>8, <1>9, ControlTasks
<1>11. LockOK(mutexTasks - 1, [tcb EXCEPT ![t] = q], [thr EXCEPT ![th] = u])
  BY <1>1, <1>3, <1>5, <1>8, <1>9, LockTaken
<1>12. Good(mutexTasks - 1, [tcb EXCEPT ![t] = q], [thr EXCEPT ![th] = u], P)
  BY <1>10, <1>11 DEF Good
<1> QED
  BY <1>1, <1>12 DEF Holds

LEMMA UnblockHolds ==
    ASSUME NEW P, Holds(P), NEW th \in AllThreads, NEW t \in Tasks, Unblock(th, t)
    PROVE  Holds(P)'
<1> DEFINE q == Unblocked(tcb[t])
           u == Moved(thr[th], NextPlace(th))
<1>1. /\ thr[th].place = "stmt" /\ tcb[t].taskState = "BLOCKED" /\ thr[th] \in Thread
      /\ mutexTasks' = mutexTasks /\ tcb' = [tcb EXCEPT ![t] = q] /\ thr' = [thr EXCEPT ![th] = u]
  BY Facts DEF Unblock, Executes, State, GoTo, Moved
<1>2. NextPlace(th) \in Places /\ NextPlace(th) \notin Controlling
  BY ControlPlaces
<1>3. u \in Thread /\ u.place = NextPlace(th) /\ u.task = thr[th].task
  BY <1>1, <1>2, MovedFields
<1> HIDE DEF u
<1>4. Permitted(P, u)
  BY <1>2, <1>3 DEF Permitted, Controlling, Terminating
<1>5. ~Keeps(tcb, thr, th) /\ thr[th].place \notin Controlling
  BY <1>1, ControlPlaces DEF Keeps
<1>6. /\ Place(thr, t) \in Places
      /\ ~CyclicIn(P, t) => Local(tcb[t], Place(thr, t), Op(thr, t), Activating(thr, t))
      /\ CyclicIn(P, t) => Undisturbed(tcb[t])
  BY TargetFacts
<1>7. u.place \notin {"activating", "terminating"}
  BY <1>3 DEF NextPlace
<1>8. CASE ~CyclicIn(P, t)
  <2>1. thr[th].task # t
    BY <1>1, <1>8, OwnIsRunning
  <2>2. /\ Local(q, Place(thr, t), Op(thr, t), Activating(thr, t))
        /\ q.statements = tcb[t].statements /\ q.continueDone = tcb[t].continueDone
        /\ q.taskState # "SUSPENDED_BLOCKED"
    BY <1>1, <1>6, <1>8, LocalUnblock
  <2> HIDE DEF q
  <2>3. Calm(tcb[t], q)
    BY <1>1, <2>2 DEF Calm
  <2> QED
    BY <1>1, <1>2, <1>3, <1>4, <1>5, <1>7, <1>8, <2>1, <2>2, <2>3, ControlHolds
<1>9. CASE CyclicIn(P, t)
  <2>1. Undisturbed(q) /\ Calm(tcb[t], q)
    BY <1>6, <1>9, UndisturbedUnblock
  <2> HIDE DEF q
  <2>2. /\ thr[th].place \in Active /\ u.place \in Active /\ (th = Timer => u.place \in AtTimer)
        /\ thr[th].place \notin Controlling \cup {"activating"}
        /\ u.place \notin Controlling \cup {"activating"} /\ q.statements = tcb[t].statements
    BY <1>1, <1>2, <1>3, <1>5, <1>7, <2>1 DEF Active, AtTimer, NextPlace, Calm
  <2>3. Orderly(P) /\ Shape(thr, P) /\ TasksOK(tcb, thr, P) /\ LockOK(mutexTasks, tcb, thr)
    BY Facts DEF Holds
  <2>4. Shape([thr EXCEPT ![th] = u], P) /\ TasksOK([tcb EXCEPT ![t] = q], [thr EXCEPT ![th] = u], P)
    BY <1>3, <1>4, <1>9, <2>1, <2>2, <2>3, CyclicTasks
  <2>5. LockOK(mutexTasks, [tcb EXCEPT ![t] = q], [thr EXCEPT ![th] = u])
    BY <1>5, <1>7, <2>1, <2>3, LockCalm
  <2>6. Good(mutexTasks, [tcb EXCEPT ![t] = q], [thr EXCEPT ![th] = u], P)
    BY <2>4, <2>5 DEF Good
  <2> QED
    BY <1>1, <2>6 DEF Holds
<1> QED
  BY <1>8, <1>9

LEMMA TimedActivateOverrunHolds ==
    ASSUME NEW P, Holds(P), NEW th \in AllThreads, NEW t \in Tasks, TimedActivateOverrun(th, t)
    PROVE  Holds(P)'
<1> DEFINE q == [tcb[t] EXCEPT !.schedActivateOverrun = TRUE]
           u == Moved(thr[th], NextPlace(th))
<1>1. /\ thr[th].place = "stmt" /\ thr[th] \in Thread
      /\ [by |-> thr[th].task, op |-> "timedActivate", on |-> t] \in P
      /\ mutexTasks' = mutexTasks /\ tcb' = [tcb EXCEPT ![t] = q] /\ thr' = [thr EXCEPT ![th] = u]
  BY Facts DEF TimedActivateOverrun, Executes, GoTo, Moved
<1>2. CyclicIn(P, t)
  BY <1>1 DEF Holds, Orderly, CyclicIn
<1>3. Undisturbed(tcb[t])
  BY <1>2, TargetFacts
<1>4. Undisturbed(q) /\ Calm(tcb[t], q)
  BY <1>3, UndisturbedOverrun
<1>5. NextPlace(th) \in Places /\ NextPlace(th) \notin Controlling
  BY ControlPlaces
<1>6. u \in Thread /\ u.place = NextPlace(th) /\ u.task = thr[th].task
  BY <1>1, <1>5, MovedFields
<1> HIDE DEF q, u
<1>7. Permitted(P, u)
  BY <1>5, <1>6 DEF Permitted, Controlling, Terminating
<1>8. ~Keeps(tcb, thr, th) /\ thr[th].place \notin Controlling
  BY <1>1, ControlPlaces DEF Keeps
<1>9. /\ thr[th].place \in Active /\ u.place \in Active /\ (th = Timer => u.place \in AtTimer)
      /\ thr[th].place \notin Controlling \cup {"activating"}
      /\ u.place \notin {"activating", "terminating"}
      /\ u.place \notin Controlling \cup {"activating"} /\ q.statements = tcb[t].statements
  BY <1>1, <1>4, <1>5, <1>6, <1>8 DEF Active, AtTimer, NextPlace, Calm
<1>10. Orderly(P) /\ Shape(thr, P) /\ TasksOK(tcb, thr, P) /\ LockOK(mutexTasks, tcb, thr)
  BY Facts DEF Holds
<1>11. Shape([thr EXCEPT ![th] = u], P) /\ TasksOK([tcb EXCEPT ![t] = q], [thr EXCEPT ![th] = u], P)
  BY <1>2, <1>4, <1>6, <1>7, <1>9, <1>10, CyclicTasks
<1>12. LockOK(mutexTasks, [tcb EXCEPT ![t] = q], [thr EXCEPT ![th] = u])
  BY <1>4, <1>8, <1>9, <1>10, LockCalm
<1>13. Good(mutexTasks, [tcb EXCEPT ![t] = q], [thr EXCEPT ![th] = u], P)
  BY <1>11, <1>12 DEF Good
<1> QED
  BY <1>1, <1>13 DEF Holds

\* The new thread has announced itself; who created it unlocks mutexTasks.
LEMMA ActivatedHolds ==
    ASSUME NEW P, Holds(P), NEW th \in AllThreads, Activated(th)
    PROVE  Holds(P)'
<1> DEFINE t == thr[th].on
           q == [tcb[t] EXCEPT !.activateDone = @ - 1]
           u == Moved(thr[th], NextPlace(th))
           g == [thr EXCEPT ![th] = u]
<1>1. /\ thr[th].place = "activating" /\ tcb[t].activateDone > 0 /\ thr[th] \in Thread
      /\ t \in Tasks /\ mutexTasks' = mutexTasks + 1
      /\ tcb' = [tcb EXCEPT ![t] = q] /\ thr' = g
  BY Facts DEF Activated, GoTo, Moved, Thread
<1>2. Orderly(P) /\ Shape(thr, P) /\ TasksOK(tcb, thr, P) /\ LockOK(mutexTasks, tcb, thr)
  BY Facts DEF Holds
<1>3. NextPlace(th) \in Places /\ NextPlace(th) \notin Controlling
  BY ControlPlaces
<1>4. u \in Thread /\ u.place = NextPlace(th) /\ u.task = thr[th].task
  BY <1>1, <1>3, MovedFields
<1>5. Keeps(tcb, thr, th)
  BY <1>1 DEF Keeps
<1> HIDE DEF u
<1>6. /\ thr[th].place \in Active /\ u.place \in Active /\ (th = Timer => u.place \in AtTimer)
      /\ thr[th].place \notin Controlling /\ u.place # "activating" /\ u.place # "terminating"
      /\ u.place \notin Controlling \cup {"activating"} /\ u.place # "none" /\ u.place # "entry"
  BY <1>1, <1>3, <1>4 DEF Active, AtTimer, NextPlace, Controlling, Terminating
<1>7. Permitted(P, u)
  BY <1>3, <1>4 DEF Permitted, Controlling, Terminating
<1>8. ASSUME CyclicIn(P, t)
      PROVE  /\ Shape(g, P) /\ TasksOK([tcb EXCEPT ![t] = q], g, P)
             /\ q.continueDone = tcb[t].continueDone /\ q.taskState = tcb[t].taskState
  <2>1. Undisturbed(q) /\ Calm(tcb[t], q) /\ q.taskState = tcb[t].taskState
    BY <1>1, <1>8, TargetFacts, UndisturbedActivated
  <2> HIDE DEF q
  <2>2. q.statements = tcb[t].statements /\ q.continueDone = tcb[t].continueDone
    BY <2>1 DEF Calm
  <2> QED
    BY <1>1, <1>2, <1>4, <1>6, <1>7, <1>8, <2>1, <2>2, CyclicTasks
<1>9. ASSUME ~CyclicIn(P, t)
      PROVE  /\ Shape(g, P) /\ TasksOK([tcb EXCEPT ![t] = q], g, P)
             /\ q.continueDone = tcb[t].continueDone /\ q.taskState = tcb[t].taskState
  <2> DEFINE p == IF t = u.task THEN u.place ELSE Place(thr, t)
  <2>1. Shape(g, P)
    BY <1>1, <1>2, <1>4, <1>6, <1>7, MoveShape
  <2>a. /\ t \in Tasks /\ u \in Thread /\ u.task = thr[th].task
        /\ Orderly(P) /\ Shape(thr, P) /\ Shape([thr EXCEPT ![th] = u], P)
    BY <1>1, <1>2, <1>4, <2>1
  <2>b. ~(thr[th].place \in Controlling /\ thr[th].on = t)
        /\ ~(u.place \in Controlling /\ u.on = t)
    BY <1>6
  <2> HIDE DEF t
  <2>2. Place(g, t) = p
    BY <1>9, <2>a, MovePlace
  <2>3. Op(g, t) = Op(thr, t)
    BY <2>a, <2>b, MoveOp
  <2> USE DEF t
  <2>4. thr \in [AllThreads -> Thread]
    BY <1>2 DEF Shape
  <2>5. g[th] = u /\ \A x \in AllThreads : x # th => g[x] = thr[x]
    BY <2>4
  <2> HIDE DEF g
  <2>6. \A x \in AllThreads : x # th => thr[x].place # "activating"
    BY <1>2, <1>5 DEF LockOK, Keeps
  <2>7. Activating(g, t) = FALSE /\ Activating(thr, t) = TRUE
    BY <1>1, <1>6, <2>5, <2>6 DEF Activating
  <2>8. /\ Place(thr, t) \in Places /\ tcb[t] \in TCB
        /\ Local(tcb[t], Place(thr, t), Op(thr, t), TRUE)
    BY <1>1, <1>9, <2>7, TargetFacts
  <2>9. Local(tcb[t], p, Op(thr, t), TRUE) /\ p \in Places
    <3>1. CASE t # u.task
      BY <2>8, <3>1
    <3>2. CASE t = u.task
      <4>1. th \in Threads
        BY <1>1, <1>2, <1>4, <3>2, TaskingAssumption DEF Shape, AllThreads
      <4>2. Place(thr, t) = thr[th].place
        BY <1>1, <1>2, <1>4, <1>9, <3>2, <4>1, OnlyThread
      <4>3. Local(tcb[t], thr[th].place, Op(thr, t), TRUE)
        BY <2>8, <4>2
      <4>4. Op(thr, t) # "terminatedIt"
        BY <1>1, <4>3 DEF Local, RequestOK
      <4>5. Local(tcb[t], u.place, Op(thr, t), TRUE)
        BY <1>6, <4>3, <4>4, LocalActive
      <4> QED
        BY <1>3, <1>4, <3>2, <4>5
    <3> QED
      BY <3>1, <3>2
  <2> HIDE DEF p
  <2>10. Local(q, p, Op(thr, t), FALSE) /\ Calm(tcb[t], q)
    BY <1>1, <2>9, LocalActivated
  <2>11. q.taskState = tcb[t].taskState
    BY <2>8 DEF TCB
  <2> HIDE DEF q
  <2>12. /\ q \in TCB /\ q.statements = tcb[t].statements
         /\ q.continueDone = tcb[t].continueDone
    BY <2>10 DEF Local, Calm
  <2>13. TaskOK(q, g, P, t)
    BY <1>9, <2>2, <2>3, <2>7, <2>10 DEF TaskOK
  <2>14. TasksOK([tcb EXCEPT ![t] = q], g, P)
    BY <1>1, <1>2, <1>4, <1>6, <1>7, <2>12, <2>13, OpTasks DEF g
  <2> QED
    BY <2>1, <2>11, <2>12, <2>14
<1>10. /\ Shape(g, P) /\ TasksOK([tcb EXCEPT ![t] = q], g, P)
       /\ q.continueDone = tcb[t].continueDone /\ q.taskState = tcb[t].taskState
  BY <1>8, <1>9
<1>11. tcb[t].continueDone = 0
  BY <1>1, <1>2, <1>5 DEF LockOK
<1> HIDE DEF q
<1>12. LockOK(mutexTasks + 1, [tcb EXCEPT ![t] = q], g)
  <2>1. /\ t \in Tasks /\ q.continueDone = 0 /\ q.taskState = tcb[t].taskState
        /\ u.place \notin {"activating", "terminating"}
    BY <1>1, <1>6, <1>10, <1>11
  <2> HIDE DEF t
  <2> QED
    BY <1>2, <1>5, <2>1, LockReturned
<1>13. Good(mutexTasks + 1, [tcb EXCEPT ![t] = q], g, P)
  BY <1>10, <1>12 DEF Good
<1> QED
  BY <1>1, <1>13 DEF Holds

\* The creation of a thread for t is nothing to another task.
LEMMA NewOthers ==
    ASSUME NEW f, NEW P, Shape(f, P), NEW n \in Threads, f[n].place = "none", NEW t \in Tasks,
           Of(f, t) = {} \/ CyclicIn(P, t), NEW s \in Tasks, s # t, NEW r, TaskOK(r, f, P, s)
    PROVE  TaskOK(r, [f EXCEPT ![n] = New(t)], P, s)
<1> DEFINE g == [f EXCEPT ![n] = New(t)]
<1>1. /\ Place(g, s) = Place(f, s) /\ Op(g, s) = Op(f, s)
      /\ Activating(g, s) <=> Activating(f, s)
  BY NewPlace
<1>2. f \in [AllThreads -> Thread] /\ n \in AllThreads
  BY DEF Shape, AllThreads
<1>3. g[n] = New(t) /\ \A x \in AllThreads : x # n => g[x] = f[x]
  BY <1>2
<1> HIDE DEF g
<1>4. New(t).task = t
  BY DEF New
<1>5. \A x \in Of(g, s) : x \in Of(f, s) /\ g[x] = f[x]
  BY <1>3, <1>4 DEF Of, AllThreads
<1>6. Activating(g, s) = Activating(f, s)
  BY <1>1 DEF Activating
<1>7. TaskOK(r, g, P, s)
  BY <1>1, <1>5, <1>6 DEF TaskOK
<1> QED
  BY <1>7 DEF g

\* Who activates a task does not terminate it at the same time, and nobody else does.
LEMMA NobodyTerminates ==
    ASSUME NEW P, Holds(P), NEW th \in AllThreads, NEW t \in Tasks, thr[th].place = "stmt",
           [by |-> thr[th].task, op |-> "activate", on |-> t] \in P
    PROVE  Op(thr, t) \notin Terminating \cup {"terminatedIt"}
<1>1. Shape(thr, P) /\ Orderly(P)
  BY Facts DEF Holds
<1>2. SUFFICES ASSUME Op(thr, t) \in Terminating \cup {"terminatedIt"} PROVE FALSE
  OBVIOUS
<1>3. On(thr, t) # {}
  BY <1>2 DEF Op, Terminating
<1>4. PICK x \in On(thr, t) : TRUE
  BY <1>3
<1>5. thr[x].place \in Terminating \cup {"terminatedIt"}
  BY <1>1, <1>2, <1>4, OnlyController
<1>6. x \in AllThreads /\ thr[x].on = t /\ thr[x].place \in Controlling
  BY <1>4 DEF On
<1>7. thr[x].task # t /\ [by |-> thr[x].task, op |-> "terminate", on |-> t] \in P
  BY <1>1, <1>5, <1>6 DEF Shape, Permitted
<1>8. thr[x].task = thr[th].task
  BY <1>1, <1>7 DEF Orderly, Control
<1>9. ~CyclicIn(P, thr[x].task)
  BY <1>1, <1>7 DEF Orderly, CyclicIn, Control
<1>10. thr[x].place # "stmt" /\ thr[x].place # "none"
  BY <1>6, ControlPlaces
<1>11. CASE thr[th].task = NoTask
  BY <1>1, <1>6, <1>8, <1>10, <1>11 DEF Shape, AllThreads
<1>12. CASE thr[th].task # NoTask
  BY <1>1, <1>6, <1>8, <1>9, <1>10, <1>12 DEF Shape, AllThreads
<1> QED
  BY <1>11, <1>12

\* ACTIVATE creates a thread for a task that has none, and keeps mutexTasks.
LEMMA ActivateHolds ==
    ASSUME NEW P, Holds(P), NEW th \in AllThreads, NEW t \in Tasks, Activate(th, t)
    PROVE  Holds(P)'
<1> DEFINE u == Sent(thr[th], "activating", t)
           f == [thr EXCEPT ![th] = u]
           n == CHOOSE x \in Free(f) : TRUE
           g == [f EXCEPT ![n] = New(t)]
<1>1. /\ thr[th].place = "stmt" /\ thr[th] \in Thread /\ mutexTasks > 0
      /\ \/ [by |-> thr[th].task, op |-> "activate", on |-> t] \in P
         \/ [by |-> thr[th].task, op |-> "timedActivate", on |-> t] \in P
      /\ tcb[t].taskState = "TERMINATED" /\ mutexTasks' = mutexTasks - 1 /\ tcb' = tcb
  BY Facts DEF Activate, Executes, State
<1>2. Free(f) # {} /\ thr' = g
  BY DEF Activate, DirectActivate, Sent, New
<1>3. /\ Orderly(P) /\ Shape(thr, P) /\ TasksOK(tcb, thr, P) /\ LockOK(mutexTasks, tcb, thr)
      /\ tcb \in [Tasks -> TCB]
  BY Facts DEF Holds
<1>4. u \in Thread /\ u.place = "activating" /\ u.task = thr[th].task /\ u.on = t
  <2>1. "activating" \in Places
    BY DEF Places
  <2> QED
    BY <1>1, <2>1, SentFields
<1>5. n \in Free(f)
  BY <1>2
<1>6. n \in Threads /\ f[n].place = "none"
  BY <1>5 DEF Free
<1> HIDE DEF u, n
<1>7. /\ thr[th].place \in Active /\ u.place \in Active /\ u.place \in AtTimer
      /\ thr[th].place \notin Controlling \cup {"activating"}
      /\ u.place # "none" /\ u.place \notin AtPipe /\ u.place \notin Controlling
  BY <1>1, <1>4 DEF Active, AtTimer, AtPipe, Controlling, Terminating
<1>8. Permitted(P, u)
  BY <1>4, <1>7 DEF Permitted, Controlling, Terminating
<1>9. Shape(f, P) /\ \A s \in Tasks \ {t} : TaskOK(tcb[s], f, P, s)
  BY <1>3, <1>4, <1>7, <1>8, OpOthers
<1>10. thr \in [AllThreads -> Thread]
  BY <1>3 DEF Shape
<1>11. f[th] = u /\ \A x \in AllThreads : x # th => f[x] = thr[x]
  BY <1>10
<1>12. /\ ~CyclicIn(P, t) => Local(tcb[t], Place(thr, t), Op(thr, t), Activating(thr, t))
       /\ CyclicIn(P, t) => Undisturbed(tcb[t])
       /\ Place(thr, t) \in Places
  BY TargetFacts
<1>13. ASSUME ~CyclicIn(P, t) PROVE Of(f, t) = {} /\ TaskOK(tcb[t], g, P, t)
  <2>1. [by |-> thr[th].task, op |-> "activate", on |-> t] \in P
    BY <1>1, <1>3, <1>13 DEF Orderly, CyclicIn
  <2>2. Op(thr, t) \notin Terminating \cup {"terminatedIt"}
    BY <1>1, <2>1, NobodyTerminates
  <2>3. \A x \in AllThreads : ~Keeps(tcb, thr, x)
    BY <1>1, <1>3, LockFree
  <2>4. Activating(thr, t) = FALSE
    BY <2>3 DEF Activating, Keeps
  <2>5. Place(thr, t) = "none" /\ Local(tcb[t], "entry", Op(thr, t), TRUE)
    BY <1>1, <1>12, <1>13, <2>2, <2>4, LocalActivate
  <2>6. thr[th].task # t
    BY <1>1, <1>13, OwnIsRunning
  <2>7. Of(thr, t) = {}
    <3>1. SUFFICES ASSUME NEW x \in Of(thr, t) PROVE FALSE
      OBVIOUS
    <3>2. x \in Threads /\ thr[x].task = t
      BY <3>1 DEF Of
    <3>3. thr[x].place = "none"
      BY <1>3, <1>13, <2>5, <3>2, OnlyThread
    <3> QED
      BY <1>3, <3>2, <3>3, TaskingAssumption DEF Shape
  <2>8. Of(f, t) = Of(thr, t)
    BY <1>3, <1>4, <1>9, MovePlace
  <2>9. Op(f, t) = Op(thr, t)
    <3>1. /\ Orderly(P) /\ Shape(thr, P) /\ Shape(f, P) /\ u \in Thread
          /\ u.place \notin Controlling /\ thr[th].place \notin Controlling
      BY <1>3, <1>4, <1>7, <1>9
    <3> QED
      BY <3>1, MoveOp
  <2>10. Activating(f, t)
    <3> HIDE DEF f
    <3> QED
      BY <1>4, <1>11 DEF Activating
  <2> HIDE DEF f
  <2>11. Place(g, t) = "entry" /\ Op(g, t) = Op(f, t) /\ (Activating(g, t) <=> Activating(f, t))
    BY <1>6, <1>9, <1>13, <2>7, <2>8, NewPlace
  <2> HIDE DEF g
  <2>12. Activating(g, t) = TRUE
    BY <2>10, <2>11 DEF Activating
  <2>13. TaskOK(tcb[t], g, P, t)
    BY <1>13, <2>5, <2>9, <2>11, <2>12 DEF TaskOK
  <2> QED
    BY <2>7, <2>8, <2>13
<1>14. ASSUME CyclicIn(P, t) PROVE TaskOK(tcb[t], g, P, t)
  <2>1. TaskOK(tcb[t], thr, P, t)
    BY <1>3 DEF TasksOK
  <2>2. f \in [AllThreads -> Thread] /\ n \in AllThreads
    BY <1>6, <1>9 DEF Shape, AllThreads
  <2> HIDE DEF f
  <2>3. g[n] = New(t) /\ \A x \in AllThreads : x # n => g[x] = f[x]
    BY <2>2
  <2> HIDE DEF g
  <2>4. \A x \in Of(g, t) : g[x].place \notin AtPipe
    <3>1. SUFFICES ASSUME NEW x \in Of(g, t) PROVE g[x].place \notin AtPipe
      OBVIOUS
    <3>2. x \in Threads /\ x \in AllThreads /\ g[x].task = t
      BY <3>1 DEF Of, AllThreads
    <3>3. CASE x = n
      BY <2>3, <3>3 DEF New, AtPipe
    <3>4. CASE x # n /\ x = th
      BY <1>7, <1>11, <2>3, <3>2, <3>4
    <3>5. CASE x # n /\ x # th
      BY <1>11, <1>14, <2>1, <2>3, <3>2, <3>5 DEF TaskOK, Of
    <3> QED
      BY <3>3, <3>4, <3>5
  <2> QED
    BY <1>12, <1>14, <2>4 DEF TaskOK
<1>15. TaskOK(tcb[t], g, P, t) /\ (Of(f, t) = {} \/ CyclicIn(P, t))
  BY <1>13, <1>14
<1>16. LockOK(mutexTasks - 1, tcb, f)
  <2>1. LockOK(mutexTasks - 1, [tcb EXCEPT ![t] = tcb[t]], [thr EXCEPT ![th] = u])
    BY <1>1, <1>3, <1>4, LockTaken
  <2>2. [tcb EXCEPT ![t] = tcb[t]] = tcb
    BY <1>3
  <2> QED
    BY <2>1, <2>2
<1> HIDE DEF f
<1>17. Shape(g, P)
  BY <1>6, <1>9, <1>15, NewShape
<1>18. \A s \in Tasks : TaskOK(tcb[s], g, P, s)
  <2>1. \A s \in Tasks \ {t} : TaskOK(tcb[s], g, P, s)
    BY <1>6, <1>9, <1>15, NewOthers
  <2> QED
    BY <1>15, <2>1
<1>19. f \in [AllThreads -> Thread] /\ n \in AllThreads
  BY <1>6, <1>9 DEF Shape, AllThreads
<1>20. g[n] = New(t) /\ \A x \in AllThreads : x # n => g[x] = f[x]
  BY <1>19
<1> HIDE DEF g
<1>21. TasksOK(tcb, g, P)
  BY <1>3, <1>18 DEF TasksOK
<1>22. \A x \in AllThreads : Keeps(tcb, g, x) <=> Keeps(tcb, f, x)
  BY <1>6, <1>20 DEF Keeps, New
<1>23. LockOK(mutexTasks - 1, tcb, g)
  BY <1>16, <1>22, LockKept
<1>24. Good(mutexTasks - 1, tcb, g, P)
  BY <1>17, <1>21, <1>23 DEF Good
<1> QED
  BY <1>1, <1>2, <1>24 DEF Holds

-----------------------------------------------------------------------------
(* The invariant holds in every state.                                     *)

LEMMA NextHolds ==
    ASSUME NEW P, Holds(P), Next
    PROVE  Holds(P)'
<1>1. PICK th \in AllThreads : RuntimeStep(th) \/ Statement(th)
  BY DEF Next
<1>2. CASE RuntimeStep(th)
  BY <1>2, EntryHolds, TerminateAtEndHolds, SetLocationHolds, ReadPipeHolds,
     ResumeContinuedHolds, ResumeTerminatedHolds, WakeUpHolds, ActivatedHolds,
     SuspendAcknowledgedHolds, SuspendDoneHolds, ContinuedHolds, WriteTerminateHolds,
     TerminateAcknowledgedHolds, SetTerminatedHolds DEF RuntimeStep
<1>3. CASE Statement(th)
  <2>1. CASE Compute(th) \/ End(th) \/ TerminateOwn(th) \/ SuspendOwn(th) \/ Block(th)
    BY <2>1, ComputeHolds, EndHolds, TerminateOwnHolds, SuspendOwnHolds, BlockHolds
  <2>2. ASSUME NEW t \in Tasks,
               \/ Unblock(th, t) \/ Activate(th, t) \/ TimedActivateOverrun(th, t)
               \/ SuspendRunning(th, t) \/ SuspendBlocked(th, t)
               \/ ContinueSuspended(th, t) \/ ContinueSuspendedBlocked(th, t)
               \/ TerminateRunning(th, t) \/ TerminateBlocked(th, t)
               \/ TerminateSuspended(th, t) \/ TerminateSuspendedBlocked(th, t)
        PROVE  Holds(P)'
    BY <2>2, UnblockHolds, ActivateHolds, TimedActivateOverrunHolds, SuspendRunningHolds,
       SuspendBlockedHolds, ContinueSuspendedHolds, ContinueSuspendedBlockedHolds,
       TerminateRunningHolds, TerminateBlockedHolds, TerminateSuspendedHolds,
       TerminateSuspendedBlockedHolds
  <2> QED
    BY <1>3, <2>1, <2>2 DEF Statement
<1> QED
  BY <1>1, <1>2, <1>3

\* The control block of a task at the start.
Initial(state, statements) ==
    [Terminated EXCEPT !.taskState = state, !.statements = statements]

LEMMA InitialFields ==
    ASSUME NEW state \in {"TERMINATED", "RUNNING"}, NEW statements \in SUBSET Statements
    PROVE  LET r == Initial(state, statements) IN
           /\ Undisturbed(r) /\ r.taskState = state /\ r.statements = statements
           /\ r.continueDone = 0
           /\ state = "TERMINATED" => Local(r, "none", "idle", FALSE)
           /\ state = "RUNNING" => Local(r, "body", "idle", FALSE)
<1> DEFINE r == Initial(state, statements)
<1>1. /\ r.taskState = state /\ r.statements = statements
      /\ r.asyncTerminateRequested = FALSE /\ r.asyncSuspendRequested = FALSE
      /\ r.schedActivateOverrun = FALSE
      /\ r.suspendWaiters = 0 /\ r.continueWaiters = 0 /\ r.terminateWaiters = 0
      /\ r.suspendDone = 0 /\ r.continueDone = 0 /\ r.terminateDone = 0
      /\ r.activateDone = 0 /\ r.semaBlock = 0 /\ r.pipeResume = <<>>
  BY DEF Initial, Terminated
<1>2. r \in TCB
  BY Small, Characters DEF Initial, Terminated, TCB, TaskStates
<1> HIDE DEF r
<1>3. Undisturbed(r)
  BY <1>1, <1>2 DEF Undisturbed
<1>4. state = "TERMINATED" => Local(r, "none", "idle", FALSE)
  BY <1>1, <1>2, Characters DEF Local, PlaceOK, RequestOK, PipeOK, Active, AtPipe, Controlling, Terminating
<1>5. state = "RUNNING" => Local(r, "body", "idle", FALSE)
  BY <1>1, <1>2, Characters DEF Local, PlaceOK, RequestOK, PipeOK, Active, AtPipe, Controlling, Terminating
<1> QED
  BY <1>1, <1>3, <1>4, <1>5 DEF r

LEMMA InitHolds ==
    ASSUME Init, \A program \in Programs : Orderly(program)
    PROVE  \E P \in Programs : Holds(P)
<1> DEFINE body(P, t) == {s \in P : t = IF s.by = NoTask THEN s.on ELSE s.by}
           first == CHOOSE th \in Threads : TRUE
<1>1. PICK P \in Programs :
        tcb = [t \in Tasks |-> Initial(IF t = Main THEN "RUNNING" ELSE "TERMINATED", body(P, t))]
  BY DEF Init, Initial, Terminated
<1>2. P \subseteq Statements /\ Orderly(P)
  BY TaskingAssumption
<1>3. first \in Threads /\ first # Timer /\ first \in AllThreads
  BY TaskingAssumption DEF AllThreads
<1>4. /\ mutexTasks = 1
      /\ thr = [th \in AllThreads |->
                  IF th = first THEN [Unused EXCEPT !.place = "body", !.task = Main]
                  ELSE IF th = Timer THEN [Unused EXCEPT !.place = "stmt"] ELSE Unused]
  BY DEF Init
<1> HIDE DEF first
<1>5. /\ thr \in [AllThreads -> Thread]
      /\ thr[first].place = "body" /\ thr[first].task = Main
      /\ thr[Timer].place = "stmt" /\ thr[Timer].task = NoTask
      /\ \A th \in AllThreads \ {first, Timer} : thr[th].place = "none" /\ thr[th].task = NoTask
  BY <1>3, <1>4, TaskingAssumption DEF Unused, Thread, Places, AllThreads
<1>6. \A th \in AllThreads : thr[th].place \in {"body", "stmt", "none"}
  BY <1>5
<1>7. Shape(thr, P)
  <2>1. \A th \in Threads : thr[th].task = NoTask <=> thr[th].place = "none"
    BY <1>3, <1>5, TaskingAssumption DEF AllThreads
  <2>2. \A th, x \in Threads :
           thr[th].task = thr[x].task => th = x \/ thr[th].task = NoTask \/ CyclicIn(P, thr[th].task)
    BY <1>3, <1>5, TaskingAssumption DEF AllThreads
  <2>3. \A th \in AllThreads : Permitted(P, thr[th])
    BY <1>6 DEF Permitted, Controlling, Terminating
  <2>4. thr[Timer].place \in AtTimer
    BY <1>5 DEF AtTimer
  <2> QED
    BY <1>5, <2>1, <2>2, <2>3, <2>4 DEF Shape
<1>8. \A t \in Tasks : body(P, t) \in SUBSET Statements
  BY <1>2
<1>9. \A t \in Tasks :
        /\ Op(thr, t) = "idle" /\ Activating(thr, t) = FALSE
        /\ Place(thr, t) = IF t = Main THEN "body" ELSE "none"
        /\ \A th \in Of(thr, t) : thr[th].place \notin AtPipe
  <2>1. SUFFICES ASSUME NEW t \in Tasks
                 PROVE  /\ Op(thr, t) = "idle" /\ Activating(thr, t) = FALSE
                        /\ Place(thr, t) = IF t = Main THEN "body" ELSE "none"
                        /\ \A th \in Of(thr, t) : thr[th].place \notin AtPipe
    OBVIOUS
  <2>2. On(thr, t) = {} /\ Activating(thr, t) = FALSE
    BY <1>6 DEF On, Activating, Controlling, Terminating
  <2>3. \A th \in Of(thr, t) : thr[th].place \notin AtPipe
    BY <1>6 DEF Of, AllThreads, AtPipe
  <2>4. Of(thr, t) = IF t = Main THEN {first} ELSE {}
    BY <1>3, <1>5, TaskingAssumption DEF Of, AllThreads
  <2>5. Place(thr, t) = IF t = Main THEN "body" ELSE "none"
    <3>1. (CHOOSE x \in {first} : TRUE) = first
      OBVIOUS
    <3> QED
      BY <1>5, <2>4, <3>1 DEF Place
  <2> QED
    BY <2>2, <2>3, <2>5, NoController
<1>10. \A t \in Tasks :
         /\ Undisturbed(tcb[t]) /\ tcb[t].statements = body(P, t) /\ tcb[t].continueDone = 0
         /\ Local(tcb[t], Place(thr, t), "idle", FALSE)
  <2>1. SUFFICES ASSUME NEW t \in Tasks
                 PROVE  /\ Undisturbed(tcb[t]) /\ tcb[t].statements = body(P, t)
                        /\ tcb[t].continueDone = 0
                        /\ Local(tcb[t], Place(thr, t), "idle", FALSE)
    OBVIOUS
  <2> DEFINE state == IF t = Main THEN "RUNNING" ELSE "TERMINATED"
  <2>2. state \in {"TERMINATED", "RUNNING"} /\ tcb[t] = Initial(state, body(P, t))
    BY <1>1
  <2>3. body(P, t) \in SUBSET Statements
    BY <1>8
  <2>4. Place(thr, t) = IF state = "RUNNING" THEN "body" ELSE "none"
    BY <1>9
  <2> HIDE DEF state, body
  <2> DEFINE b == body(P, t)
             r == Initial(state, b)
  <2>5. b \in SUBSET Statements
    BY <2>3
  <2> HIDE DEF b
  <2>6. /\ Undisturbed(r) /\ r.statements = b /\ r.continueDone = 0
        /\ state = "TERMINATED" => Local(r, "none", "idle", FALSE)
        /\ state = "RUNNING" => Local(r, "body", "idle", FALSE)
    BY <2>2, <2>5, InitialFields
  <2>7. tcb[t] = r
    BY <2>2 DEF b
  <2> HIDE DEF r
  <2>8. Local(r, Place(thr, t), "idle", FALSE)
    BY <2>2, <2>4, <2>6
  <2> QED
    BY <2>6, <2>7, <2>8 DEF b
<1>11. tcb \in [Tasks -> TCB]
  <2>1. \A t \in Tasks : tcb[t] \in TCB
    BY <1>10 DEF Undisturbed
  <2> QED
    BY <1>1, <2>1
<1>12. UNION {tcb[t].statements : t \in Tasks} = P
  <2>1. \A s \in P : \E t \in Tasks : s \in body(P, t)
    BY <1>2 DEF Statements
  <2>2. \A t \in Tasks : body(P, t) \subseteq P
    OBVIOUS
  <2> HIDE DEF body
  <2>3. \A t \in Tasks : tcb[t].statements = body(P, t)
    BY <1>10
  <2>4. ASSUME NEW s \in P PROVE s \in UNION {tcb[t].statements : t \in Tasks}
    BY <2>1, <2>3
  <2>5. ASSUME NEW s \in UNION {tcb[t].statements : t \in Tasks} PROVE s \in P
    BY <2>2, <2>3
  <2> QED
    BY <2>4, <2>5
<1>13. TasksOK(tcb, thr, P)
  BY <1>9, <1>10, <1>11, <1>12 DEF TasksOK, TaskOK
<1>14. \A th \in AllThreads : ~Keeps(tcb, thr, th)
  BY <1>6 DEF Keeps
<1>15. LockOK(mutexTasks, tcb, thr)
  BY <1>4, <1>10, <1>14 DEF LockOK
<1> QED
  BY <1>1, <1>2, <1>7, <1>13, <1>15 DEF Holds, Good

Inv == \E P \in Programs : Holds(P)

LEMMA TaskingInvariant ==
    ASSUME \A program \in Programs : Orderly(program)
    PROVE  Spec => []Inv
<1>1. Init => Inv
  BY InitHolds DEF Inv
<1>2. Inv /\ [Next]_vars => Inv'
  <2>1. SUFFICES ASSUME Inv, [Next]_vars PROVE Inv'
    OBVIOUS
  <2>2. PICK P \in Programs : Holds(P)
    BY <2>1 DEF Inv
  <2>3. Holds(P)'
    <3>1. CASE Next
      BY <2>2, <3>1, NextHolds
    <3>2. CASE UNCHANGED vars
      BY <2>2, <3>2 DEF vars, Holds
    <3> QED
      BY <2>1, <3>1, <3>2
  <2> QED
    BY <2>3 DEF Inv
<1> QED
  BY <1>1, <1>2, PTL DEF Spec

-----------------------------------------------------------------------------
(* The theorems.                                                           *)

\* The control blocks and threads have their types: no count of waiters or acknowledgements
\* ever becomes negative, in whatever order threads answer each other.
THEOREM TaskingTypes ==
    ASSUME \A program \in Programs : Orderly(program)
    PROVE  Spec => []TypeOK
<1>1. ASSUME NEW P, Holds(P) PROVE TypeOK
  <2>1. mutexTasks \in Nat
    BY <1>1, Facts DEF LockOK
  <2> QED
    BY <1>1, <2>1, Facts DEF TypeOK
<1>2. Inv => TypeOK
  BY <1>1 DEF Inv
<1> QED
  BY <1>2, TaskingInvariant, PTL

LEMMA Cardinalities ==
    /\ Cardinality({}) = 0
    /\ \A x : Cardinality({x}) = 1
  BY FS_EmptySet, FS_Singleton

\* mutexTasks, locked by one thread and unlocked by another, is neither lost nor unlocked
\* twice by activate(), continueSuspended() with suspendMySelf(), and terminateFromOtherTask().
THEOREM TaskingLock ==
    ASSUME \A program \in Programs : Orderly(program)
    PROVE  Spec => []LockHandedOver
<1>1. ASSUME NEW P, Holds(P) PROVE LockHandedOver
  <2> DEFINE A == ThreadsAt("activating")
             C == {t \in Tasks : tcb[t].continueDone > 0}
             T == {th \in ThreadsAt("terminating") : State(thr[th].on) = "SUSPENDED_BLOCKED"}
  <2>1. LockOK(mutexTasks, tcb, thr)
    BY <1>1, Facts
  <2>2. \A th \in AllThreads : Keeps(tcb, thr, th) <=> th \in A \/ th \in T
    BY DEF Keeps, ThreadsAt, State
  <2>3. A \subseteq AllThreads /\ T \subseteq AllThreads /\ A \cap T = {}
    BY DEF ThreadsAt
  <2>4. C \subseteq Tasks /\ \A t \in Tasks : t \in C <=> tcb[t].continueDone > 0
    OBVIOUS
  <2> SUFFICES /\ mutexTasks + Cardinality(A) + Cardinality(C) + Cardinality(T) = 1
               /\ \A t \in Tasks : tcb[t].continueDone <= 1
    BY DEF LockHandedOver
  <2> HIDE DEF A, C, T
  <2>5. CASE /\ mutexTasks = 1 /\ \A th \in AllThreads : ~Keeps(tcb, thr, th)
             /\ \A t \in Tasks : tcb[t].continueDone = 0
    <3>1. A = {} /\ T = {} /\ C = {}
      BY <2>2, <2>3, <2>4, <2>5
    <3> QED
      BY <2>5, <3>1, Cardinalities
  <2>6. ASSUME mutexTasks = 0, NEW x \in AllThreads,
               \A th \in AllThreads : Keeps(tcb, thr, th) <=> th = x,
               \A t \in Tasks : tcb[t].continueDone = 0
        PROVE  /\ mutexTasks + Cardinality(A) + Cardinality(C) + Cardinality(T) = 1
               /\ \A t \in Tasks : tcb[t].continueDone <= 1
    <3>1. C = {}
      BY <2>4, <2>6
    <3>2. (A = {x} /\ T = {}) \/ (A = {} /\ T = {x})
      BY <2>2, <2>3, <2>6
    <3>3. Cardinality(C) = 0
      BY <3>1, Cardinalities
    <3>4. CASE A = {x} /\ T = {}
      <4>1. Cardinality(A) = 1 /\ Cardinality(T) = 0
        BY <3>4, Cardinalities
      <4> QED
        BY <2>6, <3>3, <4>1
    <3>5. CASE A = {} /\ T = {x}
      <4>1. Cardinality(A) = 0 /\ Cardinality(T) = 1
        BY <3>5, Cardinalities
      <4> QED
        BY <2>6, <3>3, <4>1
    <3> QED
      BY <3>2, <3>4, <3>5
  <2>7. ASSUME mutexTasks = 0, \A th \in AllThreads : ~Keeps(tcb, thr, th),
               NEW u \in Tasks, \A t \in Tasks : tcb[t].continueDone = IF t = u THEN 1 ELSE 0
        PROVE  /\ mutexTasks + Cardinality(A) + Cardinality(C) + Cardinality(T) = 1
               /\ \A t \in Tasks : tcb[t].continueDone <= 1
    <3>1. A = {} /\ T = {}
      BY <2>2, <2>3, <2>7
    <3>2. C = {u}
      BY <2>4, <2>7
    <3>3. Cardinality(A) = 0 /\ Cardinality(T) = 0
      BY <3>1, Cardinalities
    <3>4. Cardinality(C) = 1
      BY <3>2, Cardinalities
    <3> QED
      BY <2>7, <3>3, <3>4
  <2> QED
    BY <2>1, <2>5, <2>6, <2>7 DEF LockOK
<1>2. Inv => LockHandedOver
  BY <1>1 DEF Inv
<1> QED
  BY <1>2, TaskingInvariant, PTL

\* directActivate() gives a thread only to a task that has none, unless a timer activates it.
THEOREM TaskingOneThread ==
    ASSUME \A program \in Programs : Orderly(program)
    PROVE  Spec => []OneThread
<1>1. ASSUME NEW P, Holds(P) PROVE OneThread
  <2>1. Shape(thr, P) /\ Program = P
    BY <1>1, Facts
  <2>2. ASSUME NEW t \in Tasks, ~CyclicIn(P, t) PROVE Cardinality(Of(thr, t)) <= 1
    <3>1. CASE Of(thr, t) = {}
      BY <3>1, Cardinalities
    <3>2. CASE Of(thr, t) # {}
      <4>1. PICK th \in Threads : thr[th].task = t
        BY <3>2 DEF Of
      <4>2. Of(thr, t) = {th}
        BY <2>1, <2>2, <4>1, OnlyThread
      <4> QED
        BY <4>2, Cardinalities
    <3> QED
      BY <3>1, <3>2
  <2> QED
    BY <2>1, <2>2 DEF OneThread, Cyclic, CyclicIn, Of
<1>2. Inv => OneThread
  BY <1>1 DEF Inv
<1> QED
  BY <1>2, TaskingInvariant, PTL

\* A new thread finds an empty pipe, and no acknowledgement or wake-up that was meant for an
\* earlier activation of its task, although TERMINATE, SUSPEND and CONTINUE may have been under
\* way when that one ended.
THEOREM TaskingCleanStart ==
    ASSUME \A program \in Programs : Orderly(program)
    PROVE  Spec => []CleanStart
<1>1. ASSUME NEW P, Holds(P), NEW th \in ThreadsAt("entry"), ~Cyclic(thr[th].task)
      PROVE  LET t == thr[th].task
                 r == tcb[t]
             IN  /\ r.pipeResume = <<>> /\ r.semaBlock = 0 /\ r.activateDone = 0
                 /\ r.suspendDone <= Cardinality({x \in ThreadsAt("suspending") : thr[x].on = t})
                 /\ r.continueDone = 0
  <2> DEFINE t == thr[th].task
             r == tcb[t]
             S == {x \in ThreadsAt("suspending") : thr[x].on = t}
  <2>1. th \in AllThreads /\ thr[th].place = "entry"
    BY <1>1 DEF ThreadsAt
  <2>2. Shape(thr, P) /\ Orderly(P) /\ ~CyclicIn(P, t) /\ LockOK(mutexTasks, tcb, thr)
    BY <1>1, Facts DEF Cyclic, CyclicIn, Holds
  <2>3. t \in Tasks /\ r \in TCB /\ Local(r, "entry", Op(thr, t), Activating(thr, t))
    BY <1>1, <2>1, <2>2, PlainPlaces, OwnFacts
  <2>4. S \subseteq On(thr, t) /\ \A x \in On(thr, t) : thr[x].place = "suspending" => x \in S
    BY DEF On, ThreadsAt, Controlling
  <2>5. \A x \in S : thr[x].place = "suspending"
    BY DEF ThreadsAt
  <2> HIDE DEF t, r, S
  <2>6. r.pipeResume = <<>> /\ r.semaBlock = 0 /\ r.activateDone = 0
    BY <2>3 DEF Local, PlaceOK, PipeOK
  <2>7. r.continueDone = 0
    <3>1. PICK x \in AllThreads : thr[x].place = "activating"
      BY <2>3 DEF Local, PlaceOK, Activating
    <3>2. Keeps(tcb, thr, x)
      BY <3>1 DEF Keeps
    <3> QED
      BY <2>2, <2>3, <3>2 DEF LockOK, r
  <2>8. r.suspendDone <= Cardinality(S)
    <3>1. CASE Op(thr, t) = "suspending"
      <4>1. On(thr, t) # {}
        BY <3>1 DEF Op
      <4>2. PICK x \in On(thr, t) : TRUE
        BY <4>1
      <4>3. On(thr, t) = {x} /\ thr[x].place = "suspending"
        BY <2>2, <2>3, <3>1, <4>2, OnlyController
      <4>4. S = {x}
        BY <2>4, <4>3
      <4>5. r.suspendDone <= 1
        BY <2>3, <3>1 DEF Local, RequestOK, TCB
      <4> QED
        BY <4>4, <4>5, Cardinalities
    <3>2. CASE Op(thr, t) # "suspending"
      <4>1. S = {}
        BY <2>2, <2>3, <2>4, <2>5, <3>2, OnlyController
      <4>2. r.suspendDone = 0
        BY <2>3, <3>2 DEF Local, RequestOK, TCB
      <4> QED
        BY <4>1, <4>2, Cardinalities
    <3> QED
      BY <3>1, <3>2
  <2> QED
    BY <2>6, <2>7, <2>8 DEF t, r, S
<1>2. Inv => CleanStart
  BY <1>1 DEF Inv, CleanStart
<1> QED
  BY <1>2, TaskingInvariant, PTL

=============================================================================
