--------------------------- MODULE DationsProofs ---------------------------
(***************************************************************************)
(* The dation is never used by two tasks, its queue has exactly those that *)
(* wait, and it is not lost: for any number of tasks, any priorities, and  *)
(* one controller.                                                         *)
(*                                                                         *)
(* The invariant is local: what a task's control block, the place of its   *)
(* thread and the statement that is executed on it have to do with each    *)
(* other.  The first part of the module shows it for each kind of step, as *)
(* a fact about records; the second part puts the steps together.          *)
(***************************************************************************)
EXTENDS Dations, PriorityQueueProofs, FiniteSetTheorems

\* Only one task executes SUSPEND, CONTINUE, ... of others.  With two of them none of the
\* theorems holds: TERMINATE sets taskState after the other one has activated the task
\* again, and a task that is continued and cancelled at the same time unlocks twice.
OneController == \E b : Controllers = {b}

Terminating == {"terminating", "cancelTerminate"}
Sending == {"cancelSuspend", "cancelTerminate"}
Outside == {"body", "stmt", "begin", "finished", "end"}
Using == {"io", "ended", "ending"}

\* A task with control block r and thread u, on which statement o is executed (o = Idle:
\* none).  The state of the task tells where its thread is.
PlaceOK(r, u, o) ==
    /\ u.at = "none" <=> r.taskState = "TERMINATED"
    /\ u.at \in Outside \cup Using =>
         /\ r.taskState \in {"RUNNING", "BLOCKED"}
         /\ r.taskState = "BLOCKED" => r.reason = "IO"
    /\ u.at \in Using => r.reason = "IO"
    /\ u.at = "queued" /\ r.semaBlock = 0 =>
         r.reason = "IOWAITQUEUE" /\ r.taskState \in {"BLOCKED", "SUSPENDED_BLOCKED"}
    /\ u.at \in {"woken", "waked", "begun"} \/ (u.at = "queued" /\ r.semaBlock # 0) =>
         /\ r.taskState = "BLOCKED"
         /\ r.reason = "IO" \/ (r.asyncTerminateRequested /\ o.at = "terminating")
    /\ r.semaBlock # 0 => r.semaBlock = 1 /\ u.at = "queued"
    /\ u.at = "suspended" =>
         /\ r.taskState \in {"SUSPENDED", "SUSPENDED_BLOCKED"}
         /\ r.taskState = "SUSPENDED_BLOCKED" \/ u.return \in {"io", "cancel"} => r.reason = "IO"

\* A request is pending, or acknowledged, only while its statement is executed.
RequestOK(r, u, o) ==
    /\ r.asyncTerminateRequested /\ u.at # "none" => o.at \in Terminating
    /\ o.at \in Terminating => r.terminateWaiters + r.terminateDone = o.acks
    /\ o.at \notin Terminating => r.terminateWaiters = 0 /\ r.terminateDone = 0
    /\ r.terminateDone # 0 => u.at = "none"
    /\ o.at = "suspendingIO" \/ (o.at = "cancelSuspend" /\ ~r.asyncSuspendRequested) =>
         u.at = "suspended"
    /\ o.at \in {"suspendingIO", "cancelSuspend"} =>
         r.reason = "IO" \/ (u.at = "queued" /\ r.semaBlock = 0)

\* The pipe has at most one character, and a task in i/o gets no 't'.
PipeOK(r, u, o) ==
    r.pipeResume # <<>> =>
      /\ u.at = "suspended" /\ o.at \in {"continuing", "terminating"}
      /\ Tail(r.pipeResume) = <<>> /\ r.continueDone = 0
      /\ Head(r.pipeResume) = "t" => TerminateAnywhere \/ u.return \in {"stmt", "body", "end"}

\* Who unlocks mutexTasks for another one finds it locked.
LockOK(r, u, o, m) ==
    /\ o.at = "continuing" => r.continueWaiters + r.continueDone = 1
    /\ o.at # "continuing" => r.continueWaiters = 0 /\ r.continueDone = 0
    /\ r.continueDone # 0 => m = 0
    /\ /\ o.at \in Sending /\ u.at = "io"
       /\ r.asyncSuspendRequested \/ r.asyncTerminateRequested
       => m = 0

OpOK(o) ==
    /\ o \in Controller
    /\ o.at = "idle" => o = Idle
    /\ o.at # "idle" => o.on \in Users /\ o.acks # 0
    /\ o.at = "continuing" => o.acks = 1

Local(r, u, o, m) ==
    /\ r \in TCB /\ u \in User /\ OpOK(o) /\ m \in {0, 1}
    /\ PlaceOK(r, u, o) /\ RequestOK(r, u, o) /\ PipeOK(r, u, o) /\ LockOK(r, u, o, m)

\* The task has the dation: it is one of Inside \cup Called.
Owns(r, u) ==
    \/ u.at \in Using
    \/ u.at \in {"begun", "queued", "woken", "waked"} /\ r.reason = "IO"
    \/ u.at = "suspended" /\ u.return \in {"io", "cancel"}

\* The task waits in the queue.
Waits(r, u) ==
    r.taskState = "BLOCKED" /\ r.reason = "IOWAITQUEUE" /\ u.at = "queued" /\ r.semaBlock = 0

\* What a step does to a task without touching the queue: it may lose the dation only
\* where TERMINATE finds it at any place.
Quiet(r, u, r2, u2) ==
    /\ Waits(r2, u2) <=> Waits(r, u)
    /\ Owns(r2, u2) => Owns(r, u)
    /\ Owns(r, u) => Owns(r2, u2) \/ TerminateAnywhere

-----------------------------------------------------------------------------
\* Where the thread of a task goes on without anything else.
Onward == {<<"body", "stmt">>, <<"begun", "io">>, <<"finished", "end">>, <<"finished", "body">>,
           <<"stmt", "end">>, <<"stmt", "begin">>, <<"woken", "waked">>, <<"waked", "begun">>,
           <<"io", "ended">>, <<"ended", "ending">>}

\* A thread goes on to the next place of its task.
LEMMA LocalOnward ==
    ASSUME NEW r, NEW u, NEW o, NEW m, NEW m2 \in {0, 1}, NEW place, Local(r, u, o, m),
           <<u.at, place>> \in Onward,
           u.at = "begun" => ~r.asyncTerminateRequested /\ ~r.asyncSuspendRequested,
           m2 = m \/ (m = 0 /\ m2 = 1 /\ o.at \in Sending)
    PROVE  LET u2 == [u EXCEPT !.at = place] IN
           Local(r, u2, o, m2) /\ Quiet(r, u, r, u2)
<1> DEFINE u2 == [u EXCEPT !.at = place]
<1>1. u2 \in User /\ u2.at = place /\ u2.return = u.return
  BY DEF Local, User, Onward
<1> HIDE DEF u2
<1>2. r \in TCB /\ OpOK(o) /\ PlaceOK(r, u, o) /\ RequestOK(r, u, o) /\ PipeOK(r, u, o) /\ LockOK(r, u, o, m)
  BY DEF Local
<1>3. PlaceOK(r, u2, o)
  BY <1>1, <1>2 DEF PlaceOK, Onward, Outside, Using, RequestOK
<1>4. RequestOK(r, u2, o)
  BY <1>1, <1>2 DEF RequestOK, Onward, PlaceOK, Outside, Using
<1>5. PipeOK(r, u2, o)
  BY <1>1, <1>2 DEF PipeOK, Onward
<1>6. LockOK(r, u2, o, m2)
  BY <1>1, <1>2 DEF LockOK, Onward, Sending
<1>7. Quiet(r, u, r, u2)
  BY <1>1, <1>2 DEF Quiet, Waits, Owns, Using, Onward, PlaceOK, RequestOK
<1> QED
  BY <1>1, <1>2, <1>3, <1>4, <1>5, <1>6, <1>7 DEF Local, u2

\* r1 is r with its request to terminate, or with the one character in its pipe, taken.
Alike(r, r1) ==
    /\ r1 \in TCB /\ r1.pipeResume = <<>>
    /\ r1.terminateWaiters = r.terminateWaiters /\ r1.terminateDone = r.terminateDone
    /\ r1.continueWaiters = r.continueWaiters /\ r1.continueDone = r.continueDone
    /\ r1.taskState = r.taskState /\ r1.reason = r.reason /\ r1.semaBlock = r.semaBlock
    /\ r1.asyncSuspendRequested = r.asyncSuspendRequested

LEMMA AlikeItself ==
    ASSUME NEW r, NEW u, NEW o, NEW m, Local(r, u, o, m), u.at # "suspended"
    PROVE  Alike(r, r) /\ Alike(r, [r EXCEPT !.asyncTerminateRequested = FALSE])
<1>1. r \in TCB /\ r.pipeResume = <<>>
  BY DEF Local, PipeOK
<1> DEFINE r1 == [r EXCEPT !.asyncTerminateRequested = FALSE]
<1>2. r1 \in TCB
  BY <1>1 DEF TCB
<1>3. Alike(r, r1)
  BY <1>1, <1>2 DEF Alike, TCB
<1> QED
  BY <1>1, <1>3 DEF Alike

LEMMA AlikePipe ==
    ASSUME NEW r, NEW u, NEW o, NEW m, Local(r, u, o, m), r.pipeResume # <<>>
    PROVE  Alike(r, [r EXCEPT !.pipeResume = Tail(@)])
<1> DEFINE r1 == [r EXCEPT !.pipeResume = Tail(@)]
<1>1. r \in TCB /\ Tail(r.pipeResume) = <<>>
  BY DEF Local, PipeOK
<1>2. r1 = [r EXCEPT !.pipeResume = <<>>]
  BY <1>1
<1>3. <<>> \in Seq({"c", "t"})
  OBVIOUS
<1>4. r1 \in TCB
  BY <1>1, <1>2, <1>3 DEF TCB
<1> QED
  BY <1>1, <1>2, <1>4 DEF Alike, TCB

LEMMA AcknowledgedFields ==
    ASSUME NEW r \in TCB
    PROVE  LET a == Acknowledged(r) IN
           /\ a \in TCB
           /\ a.taskState = r.taskState /\ a.reason = r.reason
           /\ a.asyncTerminateRequested = r.asyncTerminateRequested
           /\ a.asyncSuspendRequested = r.asyncSuspendRequested
           /\ a.continueWaiters = r.continueWaiters /\ a.continueDone = r.continueDone
           /\ a.terminateWaiters = r.terminateWaiters /\ a.terminateDone = r.terminateDone
           /\ a.semaBlock = r.semaBlock /\ a.pipeResume = r.pipeResume
<1> DEFINE a == Acknowledged(r)
<1>1. r.suspendDone + r.suspendWaiters \in Nat
  BY DEF TCB
<1>2. a \in TCB
  BY <1>1 DEF TCB, Acknowledged
<1> QED
  BY <1>2 DEF TCB, Acknowledged

\* The new values of a control block and of the place of a thread: of a task that ends,
\* is suspended, is thrown TerminateRequestSignal.
Exited(r) ==
    [Acknowledged(r) EXCEPT !.terminateDone = @ + r.terminateWaiters, !.terminateWaiters = 0,
                            !.taskState = "TERMINATED"]

Ended == [Started EXCEPT !.at = "none"]

SuspendedAt(u, return) == [u EXCEPT !.at = "suspended", !.return = return]

ThrownFrom(u) ==
    [u EXCEPT !.at = IF @ \in {"begun", "io", "suspended"} THEN "ended" ELSE "end",
              !.return = "stmt", !.unwinding = TRUE]

MayExit(r, u, o) ==
    /\ u.at \notin {"none", "queued"}
    /\ Owns(r, u) => TerminateAnywhere
    /\ ~ (o.at = "suspendingIO" \/ (o.at = "cancelSuspend" /\ ~r.asyncSuspendRequested))
    /\ o.at = "cancelSuspend" => r.reason = "IO"

\* terminateMySelf() of a task that has not the dation, or is terminated at any place.
LEMMA LocalExit ==
    ASSUME NEW r, NEW u, NEW o, NEW m, NEW m2 \in {0, 1}, NEW r1, Local(r, u, o, m),
           Alike(r, r1), MayExit(r, u, o),
           m2 = m \/ (m = 0 /\ m2 = 1 /\ o.at \in Sending)
    PROVE  Local(Exited(r1), Ended, o, m2) /\ Quiet(r, u, Exited(r1), Ended)
<1> DEFINE a == Acknowledged(r1)
           r2 == [a EXCEPT !.terminateDone = @ + r1.terminateWaiters, !.terminateWaiters = 0,
                           !.taskState = "TERMINATED"]
           u2 == [Started EXCEPT !.at = "none"]
<1>1. u2 \in User /\ u2.at = "none"
  BY DEF Started, User
<1>2. r \in TCB /\ OpOK(o) /\ PlaceOK(r, u, o) /\ RequestOK(r, u, o) /\ PipeOK(r, u, o) /\ LockOK(r, u, o, m)
  BY DEF Local
<1>3. /\ a \in TCB /\ a.reason = r.reason /\ a.semaBlock = 0 /\ a.pipeResume = <<>>
      /\ a.asyncSuspendRequested = r.asyncSuspendRequested
      /\ a.continueWaiters = r.continueWaiters /\ a.continueDone = r.continueDone
      /\ a.terminateWaiters = r.terminateWaiters /\ a.terminateDone = r.terminateDone
  BY <1>2, AcknowledgedFields DEF Alike, MayExit, PlaceOK
<1>4. /\ r1.terminateWaiters = r.terminateWaiters
      /\ r.terminateDone \in Nat /\ r.terminateWaiters \in Nat
      /\ r.terminateDone + r.terminateWaiters \in Nat
  <2>1. r.terminateDone \in Nat /\ r.terminateWaiters \in Nat
    BY <1>2 DEF TCB
  <2>2. r.terminateDone + r.terminateWaiters \in Nat
    BY <2>1
  <2> QED
    BY <2>1, <2>2, Zenon DEF Alike
<1> HIDE DEF a
<1>5. /\ r2 \in TCB
      /\ r2.pipeResume = <<>> /\ r2.taskState = "TERMINATED"
      /\ r2.terminateWaiters = 0 /\ r2.terminateDone = r.terminateDone + r.terminateWaiters
      /\ r2.continueWaiters = r.continueWaiters /\ r2.continueDone = r.continueDone
      /\ r2.reason = r.reason /\ r2.semaBlock = 0
      /\ r2.asyncSuspendRequested = r.asyncSuspendRequested
  BY <1>3, <1>4 DEF TCB
<1> HIDE DEF u2, r2
<1>6. PlaceOK(r2, u2, o)
  BY <1>1, <1>5 DEF PlaceOK, Outside, Using
<1>7. RequestOK(r2, u2, o)
  <2>1. /\ o.at \in Terminating => r.terminateWaiters + r.terminateDone = o.acks
        /\ o.at \notin Terminating => r.terminateWaiters = 0 /\ r.terminateDone = 0
    BY <1>2 DEF RequestOK
  <2>2. /\ o.at \in Terminating => r2.terminateWaiters + r2.terminateDone = o.acks
        /\ o.at \notin Terminating => r2.terminateWaiters = 0 /\ r2.terminateDone = 0
    <3>1. r2.terminateWaiters = 0 /\ r2.terminateDone = r.terminateDone + r.terminateWaiters
      BY <1>5
    <3>2. r.terminateDone \in Nat /\ r.terminateWaiters \in Nat
      BY <1>4
    <3> QED
      BY <2>1, <3>1, <3>2
  <2> QED
    BY <2>2, <1>1, <1>2, <1>5 DEF RequestOK, MayExit
<1>8. PipeOK(r2, u2, o)
  BY <1>5 DEF PipeOK
<1>9. LockOK(r2, u2, o, m2)
  BY <1>1, <1>2, <1>5 DEF LockOK, Sending
<1>10. Quiet(r, u, r2, u2)
  BY <1>1, <1>5 DEF Quiet, Waits, Owns, Using, MayExit
<1> QED
  BY <1>1, <1>2, <1>5, <1>6, <1>7, <1>8, <1>9, <1>10 DEF Local, u2, r2, a, Exited, Ended

\* suspendMySelf() until it reads from the pipe, called by scheduleCallback() or by
\* treatCancelIO().
LEMMA LocalSuspended ==
    ASSUME NEW r, NEW u, NEW o, NEW m, NEW m2 \in {0, 1}, NEW return, NEW r1,
           Local(r, u, o, m),
           <<u.at, return>> \in {<<"body", "stmt">>, <<"begun", "io">>, <<"finished", "end">>,
                                 <<"finished", "body">>, <<"io", "cancel">>},
           Alike(r, r1), r1.asyncTerminateRequested = r.asyncTerminateRequested,
           r.asyncTerminateRequested => u.at = "io",
           m2 = m \/ (m = 0 /\ m2 = 1 /\ o.at \in Sending)
    PROVE  /\ Local(Suspended(r1), SuspendedAt(u, return), o, m2)
           /\ Quiet(r, u, Suspended(r1), SuspendedAt(u, return))
<1> DEFINE a == Acknowledged(r1)
           r2 == Suspended(r1)
           u2 == [u EXCEPT !.at = "suspended", !.return = return]
<1>1. u2 \in User /\ u2.at = "suspended" /\ u2.return = return
  BY DEF Local, User
<1>2. r \in TCB /\ OpOK(o) /\ PlaceOK(r, u, o) /\ RequestOK(r, u, o) /\ PipeOK(r, u, o) /\ LockOK(r, u, o, m)
  BY DEF Local
<1>3. /\ a \in TCB /\ a.reason = r.reason /\ a.semaBlock = r.semaBlock
      /\ a.pipeResume = r.pipeResume
      /\ a.asyncTerminateRequested = r.asyncTerminateRequested
      /\ a.continueWaiters = r.continueWaiters /\ a.continueDone = r.continueDone
      /\ a.terminateWaiters = r.terminateWaiters /\ a.terminateDone = r.terminateDone
      /\ r2 = [a EXCEPT !.taskState = "SUSPENDED", !.asyncSuspendRequested = FALSE]
  BY <1>2, AcknowledgedFields DEF Alike, Suspended, PipeOK
<1> HIDE DEF a, r2
<1>4. /\ r2 \in TCB /\ r2.pipeResume = r.pipeResume /\ r2.taskState = "SUSPENDED"
      /\ r2.terminateWaiters = r.terminateWaiters /\ r2.terminateDone = r.terminateDone
      /\ r2.continueWaiters = r.continueWaiters /\ r2.continueDone = r.continueDone
      /\ r2.reason = r.reason /\ r2.semaBlock = r.semaBlock
      /\ r2.asyncSuspendRequested = FALSE
      /\ r2.asyncTerminateRequested = r.asyncTerminateRequested
  BY <1>3 DEF TCB
<1> HIDE DEF u2
<1>5. PlaceOK(r2, u2, o)
  BY <1>1, <1>2, <1>4 DEF PlaceOK, Outside, Using, RequestOK
<1>6. RequestOK(r2, u2, o)
  BY <1>1, <1>2, <1>4 DEF RequestOK, PlaceOK, TCB
<1>7. PipeOK(r2, u2, o)
  BY <1>1, <1>2, <1>4 DEF PipeOK
<1>8. LockOK(r2, u2, o, m2)
  BY <1>1, <1>2, <1>4 DEF LockOK, Sending, TCB
<1>9. Quiet(r, u, r2, u2)
  BY <1>1, <1>2, <1>4 DEF Quiet, Waits, Owns, Using, PlaceOK, Outside, RequestOK
<1> QED
  BY <1>1, <1>2, <1>4, <1>5, <1>6, <1>7, <1>8, <1>9 DEF Local, u2, r2, SuspendedAt

\* TerminateRequestSignal, in scheduleCallback() or in treatCancelIO().
LEMMA LocalThrown ==
    ASSUME NEW r, NEW u, NEW o, NEW m, NEW m2 \in {0, 1}, Local(r, u, o, m),
           u.at \in {"body", "begun", "finished", "io"}, r.reason = "IO",
           r.asyncTerminateRequested = TRUE,
           m2 = m \/ (m = 0 /\ m2 = 1 /\ o.at \in Sending)
    PROVE  LET r2 == [r EXCEPT !.asyncTerminateRequested = FALSE]
               u2 == ThrownFrom(u)
           IN  Local(r2, u2, o, m2) /\ Quiet(r, u, r2, u2)
<1> DEFINE r2 == [r EXCEPT !.asyncTerminateRequested = FALSE]
           u2 == ThrownFrom(u)
<1>1. /\ u2 \in User
      /\ u.at \in {"begun", "io"} => u2.at = "ended"
      /\ u.at \in {"body", "finished"} => u2.at = "end"
  BY DEF Local, User, ThrownFrom
<1>2. r \in TCB /\ OpOK(o) /\ PlaceOK(r, u, o) /\ RequestOK(r, u, o) /\ PipeOK(r, u, o) /\ LockOK(r, u, o, m)
  BY DEF Local
<1>3. r2 \in TCB /\ r2.asyncTerminateRequested = FALSE
  BY <1>2 DEF TCB
<1>4. Alike(r, r2)
  BY AlikeItself
<1> HIDE DEF u2, r2
<1>5. PlaceOK(r2, u2, o)
  BY <1>1, <1>2, <1>4 DEF Alike, PlaceOK, Outside, Using
<1>6. RequestOK(r2, u2, o)
  BY <1>1, <1>2, <1>3, <1>4 DEF Alike, RequestOK, Terminating
<1>7. PipeOK(r2, u2, o)
  BY <1>4 DEF Alike, PipeOK
<1>8. LockOK(r2, u2, o, m2)
  BY <1>1, <1>2, <1>4 DEF Alike, LockOK, Sending
<1>9. Quiet(r, u, r2, u2)
  BY <1>1, <1>4 DEF Alike, Quiet, Waits, Owns, Using
<1> QED
  BY <1>1, <1>2, <1>3, <1>5, <1>6, <1>7, <1>8, <1>9 DEF Local, u2, r2

\* What a task with a character in its pipe is.
LEMMA PipeFacts ==
    ASSUME NEW r, NEW u, NEW o, NEW m, Local(r, u, o, m), r.pipeResume # <<>>
    PROVE  /\ u.at = "suspended" /\ o.at \in {"continuing", "terminating"}
           /\ Tail(r.pipeResume) = <<>> /\ r.continueDone = 0
           /\ Head(r.pipeResume) \in {"c", "t"}
<1>1. r.pipeResume \in Seq({"c", "t"})
  BY DEF Local, TCB
<1>2. Head(r.pipeResume) \in {"c", "t"}
  BY <1>1
<1> QED
  BY <1>2 DEF Local, PipeOK

\* suspendMySelf() goes on after a 'c'.
Continued(r) ==
    [r EXCEPT !.pipeResume = Tail(@), !.taskState = IF @ = "SUSPENDED" THEN "RUNNING" ELSE "BLOCKED",
              !.continueDone = @ + r.continueWaiters, !.continueWaiters = 0]

LEMMA ContinuedFields ==
    ASSUME NEW r, NEW u, NEW o, NEW m, Local(r, u, o, m), r.pipeResume # <<>>
    PROVE  LET c == Continued(r) IN
           /\ c \in TCB /\ c.pipeResume = <<>> /\ c.continueWaiters = 0
           /\ r.continueWaiters \in Nat /\ c.continueDone = r.continueWaiters
           /\ r.taskState = "SUSPENDED" => c.taskState = "RUNNING"
           /\ r.taskState # "SUSPENDED" => c.taskState = "BLOCKED"
           /\ c.reason = r.reason /\ c.semaBlock = r.semaBlock
           /\ c.terminateWaiters = r.terminateWaiters /\ c.terminateDone = r.terminateDone
           /\ c.asyncTerminateRequested = r.asyncTerminateRequested
           /\ c.asyncSuspendRequested = r.asyncSuspendRequested
<1> DEFINE c == Continued(r)
<1>1. r \in TCB /\ Tail(r.pipeResume) = <<>> /\ r.continueDone = 0
  BY PipeFacts DEF Local
<1>2. r.continueWaiters \in Nat
  BY <1>1 DEF TCB
<1>3. r.continueDone + r.continueWaiters = r.continueWaiters
  BY <1>1, <1>2
<1>4. <<>> \in Seq({"c", "t"})
  OBVIOUS
<1>5. c = [r EXCEPT !.pipeResume = <<>>,
             !.taskState = IF r.taskState = "SUSPENDED" THEN "RUNNING" ELSE "BLOCKED",
             !.continueDone = r.continueWaiters, !.continueWaiters = 0]
  BY <1>1, <1>3 DEF Continued
<1>6. c \in TCB
  BY <1>1, <1>2, <1>4, <1>5 DEF TCB
<1> QED
  BY <1>1, <1>2, <1>5, <1>6 DEF TCB

LEMMA LocalContinued ==
    ASSUME NEW r, NEW u, NEW o, NEW m, Local(r, u, o, m), r.pipeResume # <<>>
    PROVE  LET r2 == Continued(r)
               u2 == [u EXCEPT !.return = "stmt", !.at = IF u.return = "cancel" THEN "io" ELSE u.return]
           IN  Local(r2, u2, o, 0) /\ Quiet(r, u, r2, u2)
<1> DEFINE r2 == Continued(r)
           u2 == [u EXCEPT !.return = "stmt", !.at = IF u.return = "cancel" THEN "io" ELSE u.return]
<1>1. /\ u2 \in User
      /\ u.return = "cancel" => u2.at = "io"
      /\ u.return # "cancel" => u2.at = u.return
      /\ u.return \in {"stmt", "io", "body", "end", "cancel"}
  BY DEF Local, User
<1>2. r \in TCB /\ OpOK(o) /\ PlaceOK(r, u, o) /\ RequestOK(r, u, o) /\ PipeOK(r, u, o) /\ LockOK(r, u, o, m)
  BY DEF Local
<1>3. u.at = "suspended" /\ o.at \in {"continuing", "terminating"}
  BY PipeFacts
<1>4. /\ r2 \in TCB /\ r2.pipeResume = <<>> /\ r2.continueWaiters = 0
      /\ r.continueWaiters \in Nat /\ r2.continueDone = r.continueWaiters /\ r.continueDone = 0
      /\ r.taskState = "SUSPENDED" => r2.taskState = "RUNNING"
      /\ r.taskState # "SUSPENDED" => r2.taskState = "BLOCKED"
      /\ r2.reason = r.reason /\ r2.semaBlock = r.semaBlock
      /\ r2.terminateWaiters = r.terminateWaiters /\ r2.terminateDone = r.terminateDone
      /\ r2.asyncTerminateRequested = r.asyncTerminateRequested
      /\ r2.asyncSuspendRequested = r.asyncSuspendRequested
  BY ContinuedFields, PipeFacts
<1> HIDE DEF u2, r2
<1>5. PlaceOK(r2, u2, o)
  BY <1>1, <1>2, <1>3, <1>4 DEF PlaceOK, Outside, Using
<1>6. RequestOK(r2, u2, o)
  BY <1>1, <1>2, <1>3, <1>4 DEF RequestOK, Terminating
<1>7. PipeOK(r2, u2, o)
  BY <1>4 DEF PipeOK
<1>8. LockOK(r2, u2, o, 0)
  <2>1. o.at = "continuing" => r.continueWaiters + r.continueDone = 1
    BY <1>2 DEF LockOK
  <2>2. r.continueWaiters \in Nat /\ r.continueDone = 0
    BY <1>4
  <2>3. o.at = "continuing" => r.continueWaiters = 1
    BY <2>1, <2>2
  <2>4. o.at = "continuing" => r2.continueWaiters + r2.continueDone = 1
    BY <2>3, <1>4
  <2> QED
    BY <2>4, <1>2, <1>4 DEF LockOK
<1>9. Quiet(r, u, r2, u2)
  BY <1>1, <1>2, <1>3, <1>4 DEF Quiet, Waits, Owns, Using, PlaceOK
<1> QED
  BY <1>1, <1>2, <1>4, <1>5, <1>6, <1>7, <1>8, <1>9 DEF Local, u2, r2

\* A task that was suspended in the system call and is to be terminated.
ContinuedTo(r) == [Continued(r) EXCEPT !.asyncTerminateRequested = FALSE]

LEMMA LocalContinuedThrown ==
    ASSUME NEW r, NEW u, NEW o, NEW m, Local(r, u, o, m), r.pipeResume # <<>>,
           u.return = "cancel", r.asyncTerminateRequested = TRUE
    PROVE  /\ Local(ContinuedTo(r), ThrownFrom(u), o, m)
           /\ Quiet(r, u, ContinuedTo(r), ThrownFrom(u))
<1> DEFINE c == Continued(r)
           r2 == [c EXCEPT !.asyncTerminateRequested = FALSE]
           u2 == ThrownFrom(u)
<1>1. u.at = "suspended" /\ o.at \in {"continuing", "terminating"}
  BY PipeFacts
<1>2. u2 \in User /\ u2.at = "ended"
  BY <1>1 DEF Local, User, ThrownFrom
<1>3. /\ r \in TCB /\ OpOK(o) /\ PlaceOK(r, u, o) /\ RequestOK(r, u, o) /\ PipeOK(r, u, o)
      /\ LockOK(r, u, o, m) /\ m \in {0, 1}
  BY DEF Local
<1>4. o.at = "terminating"
  BY <1>1, <1>3 DEF RequestOK, Terminating
<1>5. r.continueWaiters = 0 /\ r.reason = "IO"
  BY <1>1, <1>3, <1>4 DEF LockOK, PlaceOK
<1>6. /\ c \in TCB /\ c.pipeResume = <<>> /\ c.continueWaiters = 0 /\ c.continueDone = 0
      /\ c.taskState \in {"RUNNING", "BLOCKED"} /\ c.reason = "IO" /\ c.semaBlock = r.semaBlock
      /\ c.terminateWaiters = r.terminateWaiters /\ c.terminateDone = r.terminateDone
  BY <1>5, ContinuedFields
<1> HIDE DEF c
<1>7. /\ r2 \in TCB /\ r2.pipeResume = <<>> /\ r2.continueWaiters = 0 /\ r2.continueDone = 0
      /\ r2.taskState \in {"RUNNING", "BLOCKED"} /\ r2.reason = "IO" /\ r2.semaBlock = r.semaBlock
      /\ r2.terminateWaiters = r.terminateWaiters /\ r2.terminateDone = r.terminateDone
      /\ r2.asyncTerminateRequested = FALSE
  BY <1>6 DEF TCB
<1> HIDE DEF u2, r2
<1>8. PlaceOK(r2, u2, o)
  BY <1>1, <1>2, <1>3, <1>7 DEF PlaceOK, Outside, Using
<1>9. RequestOK(r2, u2, o)
  BY <1>1, <1>2, <1>3, <1>4, <1>7 DEF RequestOK, Terminating
<1>10. PipeOK(r2, u2, o) /\ LockOK(r2, u2, o, m)
  BY <1>2, <1>4, <1>7 DEF PipeOK, LockOK, Sending
<1>11. Quiet(r, u, r2, u2)
  BY <1>1, <1>2, <1>7 DEF Quiet, Waits, Owns, Using
<1> QED
  BY <1>2, <1>3, <1>7, <1>8, <1>9, <1>10, <1>11 DEF Local, u2, r2, c, ContinuedTo

\* beginSequence() takes the dation, or puts the task into the queue.
Entering(r, busy) ==
    [r EXCEPT !.taskState = "BLOCKED", !.reason = IF busy THEN "IOWAITQUEUE" ELSE "IO"]

EnteringAt(u, busy) == [u EXCEPT !.at = IF busy THEN "queued" ELSE "begun"]

LEMMA LocalBegin ==
    ASSUME NEW r, NEW u, NEW o, NEW m, NEW m2 \in {0, 1}, NEW busy \in BOOLEAN,
           Local(r, u, o, m), u.at = "begin",
           m2 = m \/ (m = 0 /\ m2 = 1 /\ o.at \in Sending)
    PROVE  LET r2 == Entering(r, busy)
               u2 == EnteringAt(u, busy)
           IN  /\ Local(r2, u2, o, m2)
               /\ ~Owns(r, u) /\ ~Waits(r, u)
               /\ Owns(r2, u2) <=> ~busy
               /\ Waits(r2, u2) <=> busy
<1> DEFINE r2 == Entering(r, busy)
           u2 == EnteringAt(u, busy)
<1>1. u2 \in User /\ (busy => u2.at = "queued") /\ (~busy => u2.at = "begun")
  BY DEF Local, User, EnteringAt
<1>2. r \in TCB /\ OpOK(o) /\ PlaceOK(r, u, o) /\ RequestOK(r, u, o) /\ PipeOK(r, u, o) /\ LockOK(r, u, o, m)
  BY DEF Local
<1>3. r.semaBlock = 0 /\ r.pipeResume = <<>>
  BY <1>2 DEF PlaceOK, PipeOK
<1>4. /\ r2 \in TCB /\ r2.taskState = "BLOCKED"
      /\ busy => r2.reason = "IOWAITQUEUE"
      /\ ~busy => r2.reason = "IO"
      /\ r2.semaBlock = 0 /\ r2.pipeResume = <<>>
      /\ r2.continueWaiters = r.continueWaiters /\ r2.continueDone = r.continueDone
      /\ r2.terminateWaiters = r.terminateWaiters /\ r2.terminateDone = r.terminateDone
      /\ r2.asyncTerminateRequested = r.asyncTerminateRequested
      /\ r2.asyncSuspendRequested = r.asyncSuspendRequested
  BY <1>2, <1>3 DEF TCB, Entering
<1> HIDE DEF u2, r2
<1>5. PlaceOK(r2, u2, o)
  BY <1>1, <1>4 DEF PlaceOK, Outside, Using
<1>6. RequestOK(r2, u2, o)
  BY <1>1, <1>2, <1>4 DEF RequestOK, Terminating
<1>7. PipeOK(r2, u2, o) /\ LockOK(r2, u2, o, m2)
  BY <1>1, <1>2, <1>4 DEF PipeOK, LockOK, Sending
<1>8. ~Owns(r, u) /\ ~Waits(r, u) /\ (Owns(r2, u2) <=> ~busy) /\ (Waits(r2, u2) <=> busy)
  BY <1>1, <1>4 DEF Waits, Owns, Using
<1> QED
  BY <1>1, <1>2, <1>4, <1>5, <1>6, <1>7, <1>8 DEF Local, u2, r2

\* A task in the queue is woken up.
LEMMA LocalWakeUp ==
    ASSUME NEW r, NEW u, NEW o, NEW m, Local(r, u, o, m), u.at = "queued", r.semaBlock > 0
    PROVE  LET r2 == [r EXCEPT !.semaBlock = @ - 1]
               u2 == [u EXCEPT !.at = "woken"]
           IN  Local(r2, u2, o, m) /\ Quiet(r, u, r2, u2)
<1> DEFINE r2 == [r EXCEPT !.semaBlock = @ - 1]
           u2 == [u EXCEPT !.at = "woken"]
<1>1. u2 \in User /\ u2.at = "woken"
  BY DEF Local, User
<1>2. /\ r \in TCB /\ OpOK(o) /\ PlaceOK(r, u, o) /\ RequestOK(r, u, o) /\ PipeOK(r, u, o)
      /\ LockOK(r, u, o, m) /\ m \in {0, 1}
  BY DEF Local
<1>3. r.semaBlock # 0
  OBVIOUS
<1>4. r.semaBlock = 1 /\ r.pipeResume = <<>>
  BY <1>2, <1>3 DEF PlaceOK, PipeOK
<1>5. r2 = [r EXCEPT !.semaBlock = 0]
  BY <1>4
<1>6. /\ r2 \in TCB /\ r2.taskState = r.taskState /\ r2.reason = r.reason
      /\ r2.semaBlock = 0 /\ r2.pipeResume = <<>>
      /\ r2.continueWaiters = r.continueWaiters /\ r2.continueDone = r.continueDone
      /\ r2.terminateWaiters = r.terminateWaiters /\ r2.terminateDone = r.terminateDone
      /\ r2.asyncTerminateRequested = r.asyncTerminateRequested
      /\ r2.asyncSuspendRequested = r.asyncSuspendRequested
  BY <1>2, <1>4, <1>5 DEF TCB
<1> HIDE DEF u2, r2
<1>7. PlaceOK(r2, u2, o)
  BY <1>1, <1>2, <1>3, <1>6 DEF PlaceOK, Outside, Using
<1>8. RequestOK(r2, u2, o)
  BY <1>1, <1>2, <1>3, <1>6 DEF RequestOK, Terminating
<1>9. PipeOK(r2, u2, o) /\ LockOK(r2, u2, o, m)
  BY <1>1, <1>2, <1>6 DEF PipeOK, LockOK, Sending
<1>10. Quiet(r, u, r2, u2)
  BY <1>1, <1>3, <1>6 DEF Quiet, Waits, Owns, Using
<1> QED
  BY <1>1, <1>2, <1>6, <1>7, <1>8, <1>9, <1>10 DEF Local, u2, r2

\* endSequence() gives the dation up.
LEMMA LocalEnd ==
    ASSUME NEW r, NEW u, NEW o, NEW m, NEW m2 \in {0, 1}, Local(r, u, o, m), u.at = "ending",
           m2 = m \/ (m = 0 /\ m2 = 1 /\ o.at \in Sending)
    PROVE  LET r2 == [r EXCEPT !.taskState = "RUNNING"]
               u2 == [u EXCEPT !.at = "finished"]
           IN  /\ Local(r2, u2, o, m2)
               /\ Owns(r, u) /\ ~Waits(r, u) /\ ~Owns(r2, u2) /\ ~Waits(r2, u2)
<1> DEFINE r2 == [r EXCEPT !.taskState = "RUNNING"]
           u2 == [u EXCEPT !.at = "finished"]
<1>1. u2 \in User /\ u2.at = "finished"
  BY DEF Local, User
<1>2. r \in TCB /\ OpOK(o) /\ PlaceOK(r, u, o) /\ RequestOK(r, u, o) /\ PipeOK(r, u, o) /\ LockOK(r, u, o, m)
  BY DEF Local
<1>3. /\ r2 \in TCB /\ r2.taskState = "RUNNING" /\ r2.reason = r.reason
      /\ r2.semaBlock = r.semaBlock /\ r2.pipeResume = r.pipeResume
      /\ r2.continueWaiters = r.continueWaiters /\ r2.continueDone = r.continueDone
      /\ r2.terminateWaiters = r.terminateWaiters /\ r2.terminateDone = r.terminateDone
      /\ r2.asyncTerminateRequested = r.asyncTerminateRequested
      /\ r2.asyncSuspendRequested = r.asyncSuspendRequested
  BY <1>2 DEF TCB
<1> HIDE DEF u2, r2
<1>4. PlaceOK(r2, u2, o)
  BY <1>1, <1>2, <1>3 DEF PlaceOK, Outside, Using
<1>5. RequestOK(r2, u2, o)
  BY <1>1, <1>2, <1>3 DEF RequestOK, Terminating
<1>6. PipeOK(r2, u2, o) /\ LockOK(r2, u2, o, m2)
  BY <1>1, <1>2, <1>3 DEF PipeOK, LockOK, Sending
<1>7. Owns(r, u) /\ ~Waits(r, u) /\ ~Owns(r2, u2) /\ ~Waits(r2, u2)
  BY <1>1 DEF Waits, Owns, Using
<1> QED
  BY <1>1, <1>2, <1>3, <1>4, <1>5, <1>6, <1>7 DEF Local, u2, r2

\* A task that waits, or was suspended while it waited, is given the dation.
LEMMA LocalUnblocked ==
    ASSUME NEW r, NEW u, NEW o, NEW m, Local(r, u, o, m), u.at = "queued", r.semaBlock = 0
    PROVE  LET r2 == Unblocked([r EXCEPT !.taskState = "BLOCKED"])
           IN  /\ Local(r2, u, o, m)
               /\ ~Owns(r, u) /\ Owns(r2, u) /\ ~Waits(r2, u)
               /\ r.taskState = "BLOCKED" => r2 = Unblocked(r)
<1> DEFINE q == [r EXCEPT !.taskState = "BLOCKED"]
           r2 == Unblocked(q)
<1>1. /\ r \in TCB /\ u \in User /\ OpOK(o) /\ PlaceOK(r, u, o) /\ RequestOK(r, u, o)
      /\ PipeOK(r, u, o) /\ LockOK(r, u, o, m) /\ m \in {0, 1}
  BY DEF Local
<1>2. r.reason = "IOWAITQUEUE" /\ r.pipeResume = <<>>
  BY <1>1 DEF PlaceOK, PipeOK
<1>3. /\ q \in TCB /\ q.taskState = "BLOCKED" /\ q.semaBlock = 0 /\ q.pipeResume = <<>>
      /\ q.continueWaiters = r.continueWaiters /\ q.continueDone = r.continueDone
      /\ q.terminateWaiters = r.terminateWaiters /\ q.terminateDone = r.terminateDone
      /\ q.asyncTerminateRequested = r.asyncTerminateRequested
      /\ q.asyncSuspendRequested = r.asyncSuspendRequested
  <2>1. r \in TCB
    BY <1>1
  <2> QED
    BY <2>1, <1>2 DEF TCB
<1>4. r.taskState = "BLOCKED" => q = r
  BY <1>1 DEF TCB
<1> HIDE DEF q
<1>5. r2 = [q EXCEPT !.reason = "IO", !.semaBlock = 1]
  BY <1>3 DEF Unblocked
<1>6. r.taskState = "BLOCKED" => r2 = Unblocked(r)
  BY <1>4
<1> HIDE DEF r2
<1>7. /\ r2 \in TCB /\ r2.taskState = "BLOCKED" /\ r2.reason = "IO"
      /\ r2.semaBlock = 1 /\ r2.pipeResume = <<>>
      /\ r2.continueWaiters = r.continueWaiters /\ r2.continueDone = r.continueDone
      /\ r2.terminateWaiters = r.terminateWaiters /\ r2.terminateDone = r.terminateDone
      /\ r2.asyncTerminateRequested = r.asyncTerminateRequested
      /\ r2.asyncSuspendRequested = r.asyncSuspendRequested
  BY <1>3, <1>5 DEF TCB
<1>8. PlaceOK(r2, u, o)
  BY <1>1, <1>7 DEF PlaceOK, Outside, Using
<1>9. RequestOK(r2, u, o)
  BY <1>1, <1>7 DEF RequestOK, Terminating
<1>10. PipeOK(r2, u, o) /\ LockOK(r2, u, o, m)
  BY <1>1, <1>7 DEF PipeOK, LockOK, Sending
<1>11. ~Owns(r, u) /\ Owns(r2, u) /\ ~Waits(r2, u)
  BY <1>2, <1>7 DEF Waits, Owns, Using
<1> QED
  BY <1>1, <1>7, <1>6, <1>8, <1>9, <1>10, <1>11 DEF Local, r2, q

-----------------------------------------------------------------------------
\* A task on which no statement is executed.
LEMMA IdleFacts ==
    ASSUME NEW r, NEW u, NEW m, Local(r, u, Idle, m)
    PROVE  /\ r.terminateWaiters = 0 /\ r.terminateDone = 0
           /\ r.continueWaiters = 0 /\ r.continueDone = 0 /\ r.pipeResume = <<>>
           /\ r.asyncTerminateRequested => u.at = "none"
           /\ r.taskState \in {"BLOCKED", "SUSPENDED_BLOCKED"} /\ r.reason = "IOWAITQUEUE" =>
                u.at = "queued" /\ r.semaBlock = 0
           /\ r.taskState = "SUSPENDED" => u.at = "suspended"
           /\ r.taskState = "SUSPENDED_BLOCKED" /\ r.reason = "IO" => u.at = "suspended"
<1>1. Idle.at = "idle"
  BY DEF Idle
<1>2. /\ r \in TCB /\ u \in User /\ PlaceOK(r, u, Idle) /\ RequestOK(r, u, Idle)
      /\ PipeOK(r, u, Idle) /\ LockOK(r, u, Idle, m)
  BY DEF Local
<1>3. /\ r.terminateWaiters = 0 /\ r.terminateDone = 0
      /\ r.asyncTerminateRequested => u.at = "none"
  BY <1>1, <1>2 DEF RequestOK, Terminating
<1>4. r.continueWaiters = 0 /\ r.continueDone = 0 /\ r.pipeResume = <<>>
  BY <1>1, <1>2 DEF LockOK, PipeOK
<1>5. u.at \in Outside \cup Using \cup {"none", "queued", "woken", "waked", "begun", "suspended"}
  BY <1>2 DEF User, Outside, Using
<1>6. /\ r.taskState \in {"BLOCKED", "SUSPENDED_BLOCKED"} /\ r.reason = "IOWAITQUEUE" =>
           u.at = "queued" /\ r.semaBlock = 0
      /\ r.taskState = "SUSPENDED" => u.at = "suspended"
      /\ r.taskState = "SUSPENDED_BLOCKED" /\ r.reason = "IO" => u.at = "suspended"
  BY <1>1, <1>2, <1>5 DEF PlaceOK
<1> QED
  BY <1>3, <1>4, <1>6

LEMMA StatementOK ==
    ASSUME NEW t \in Users, NEW k \in {1, 2},
           NEW place \in {"cancelSuspend", "cancelTerminate", "suspending", "terminating"}
    PROVE  OpOK([at |-> place, on |-> t, acks |-> k])
<1> DEFINE o == [at |-> place, on |-> t, acks |-> k]
<1>1. k \in 0 .. 2 /\ k # 0
  OBVIOUS
<1>2. o \in Controller
  BY <1>1 DEF Controller
<1>3. o.at = place /\ o.on = t /\ o.acks = k
  OBVIOUS
<1> HIDE DEF o
<1>4. OpOK(o)
  BY <1>1, <1>2, <1>3 DEF OpOK
<1> QED
  BY <1>4 DEF o

\* ACTIVATE
LEMMA LocalActivate ==
    ASSUME NEW r, NEW u, NEW m, Local(r, u, Idle, m), r.taskState = "TERMINATED"
    PROVE  LET r2 == [r EXCEPT
                        !.asyncTerminateRequested = FALSE, !.asyncSuspendRequested = FALSE,
                        !.suspendWaiters = 0, !.continueWaiters = 0, !.terminateWaiters = 0,
                        !.taskState = "RUNNING"]
           IN  Local(r2, Started, Idle, m) /\ Quiet(r, u, r2, Started)
<1> DEFINE r2 == [r EXCEPT
                    !.asyncTerminateRequested = FALSE, !.asyncSuspendRequested = FALSE,
                    !.suspendWaiters = 0, !.continueWaiters = 0, !.terminateWaiters = 0,
                    !.taskState = "RUNNING"]
<1>1. Started \in User /\ Started.at = "body" /\ Idle.at = "idle"
  BY DEF Started, User, Idle
<1>2. r \in TCB /\ OpOK(Idle) /\ PlaceOK(r, u, Idle) /\ m \in {0, 1}
  BY DEF Local
<1>3. /\ r.terminateDone = 0 /\ r.continueDone = 0 /\ r.pipeResume = <<>>
      /\ u.at = "none" /\ r.semaBlock = 0
  BY <1>2, IdleFacts DEF PlaceOK
<1>4. /\ r2 \in TCB /\ r2.taskState = "RUNNING" /\ r2.reason = r.reason /\ r2.semaBlock = 0
      /\ r2.pipeResume = <<>> /\ r2.continueWaiters = 0 /\ r2.continueDone = 0
      /\ r2.terminateWaiters = 0 /\ r2.terminateDone = 0
      /\ r2.asyncTerminateRequested = FALSE /\ r2.asyncSuspendRequested = FALSE
  BY <1>2, <1>3 DEF TCB
<1> HIDE DEF r2
<1>5. PlaceOK(r2, Started, Idle)
  BY <1>1, <1>4 DEF PlaceOK, Outside, Using
<1>6. RequestOK(r2, Started, Idle) /\ PipeOK(r2, Started, Idle) /\ LockOK(r2, Started, Idle, m)
  BY <1>1, <1>4 DEF RequestOK, PipeOK, LockOK, Terminating, Sending
<1>7. Quiet(r, u, r2, Started)
  BY <1>1, <1>3 DEF Quiet, Waits, Owns, Using
<1> QED
  BY <1>1, <1>2, <1>4, <1>5, <1>6, <1>7 DEF Local, r2

\* SUSPEND of a task that is running, or in i/o.
LEMMA LocalAskSuspend ==
    ASSUME NEW r, NEW u, NEW m, NEW m2 \in {0, 1}, Local(r, u, Idle, m), NEW t \in Users,
           NEW k \in {1, 2}, NEW place \in {"suspending", "cancelSuspend"},
           place = "cancelSuspend" => m2 = 0 /\ InIO(r)
    PROVE  LET r2 == [r EXCEPT !.asyncSuspendRequested = TRUE, !.suspendWaiters = @ + k]
           IN  /\ Local(r2, u, [at |-> place, on |-> t, acks |-> k], m2)
               /\ Quiet(r, u, r2, u)
<1> DEFINE r2 == [r EXCEPT !.asyncSuspendRequested = TRUE, !.suspendWaiters = @ + k]
           o == [at |-> place, on |-> t, acks |-> k]
<1>1. OpOK(o) /\ o.at = place
  BY StatementOK
<1>2. /\ r \in TCB /\ u \in User /\ PlaceOK(r, u, Idle) /\ RequestOK(r, u, Idle)
      /\ Idle.at = "idle"
  BY DEF Local, Idle
<1>3. /\ r.terminateWaiters = 0 /\ r.terminateDone = 0
      /\ r.continueWaiters = 0 /\ r.continueDone = 0 /\ r.pipeResume = <<>>
  BY IdleFacts
<1>4. r.suspendWaiters + k \in Nat
  <2>1. r.suspendWaiters \in Nat
    BY <1>2 DEF TCB
  <2> QED
    BY <2>1
<1>5. /\ r2 \in TCB /\ r2.taskState = r.taskState /\ r2.reason = r.reason
      /\ r2.semaBlock = r.semaBlock
      /\ r2.pipeResume = <<>> /\ r2.continueWaiters = 0 /\ r2.continueDone = 0
      /\ r2.terminateWaiters = 0 /\ r2.terminateDone = 0
      /\ r2.asyncTerminateRequested = r.asyncTerminateRequested
      /\ r2.asyncSuspendRequested = TRUE
  BY <1>2, <1>3, <1>4 DEF TCB
<1> HIDE DEF r2, o
<1>6. PlaceOK(r2, u, o)
  BY <1>1, <1>2, <1>5 DEF PlaceOK
<1>7. RequestOK(r2, u, o)
  BY <1>1, <1>2, <1>5 DEF RequestOK, Terminating, InIO
<1>8. PipeOK(r2, u, o) /\ LockOK(r2, u, o, m2)
  BY <1>1, <1>5 DEF PipeOK, LockOK, Sending
<1>9. Quiet(r, u, r2, u)
  BY <1>5 DEF Quiet, Waits, Owns
<1> QED
  BY <1>1, <1>2, <1>5, <1>6, <1>7, <1>8, <1>9 DEF Local, r2, o

\* TERMINATE of a task that is running, in i/o, or in the queue.
LEMMA LocalAskTermination ==
    ASSUME NEW r, NEW u, NEW m, NEW m2 \in {0, 1}, Local(r, u, Idle, m), NEW t \in Users,
           NEW place \in Terminating, u.at # "none",
           place = "cancelTerminate" => m2 = 0
    PROVE  LET r2 == AskTermination(r, 1)
           IN  /\ Local(r2, u, [at |-> place, on |-> t, acks |-> 1], m2)
               /\ Quiet(r, u, r2, u)
               /\ r2 \in TCB /\ r2.semaBlock = r.semaBlock
<1> DEFINE r2 == AskTermination(r, 1)
           o == [at |-> place, on |-> t, acks |-> 1]
<1>1. OpOK(o) /\ o.at = place /\ o.acks = 1
  BY StatementOK DEF Terminating
<1>2. /\ r \in TCB /\ u \in User /\ PlaceOK(r, u, Idle) /\ RequestOK(r, u, Idle)
      /\ Idle.at = "idle"
  BY DEF Local, Idle
<1>3. /\ r.terminateWaiters = 0 /\ r.terminateDone = 0
      /\ r.continueWaiters = 0 /\ r.continueDone = 0 /\ r.pipeResume = <<>>
  BY IdleFacts
<1>4. r2 = [r EXCEPT !.asyncTerminateRequested = TRUE, !.terminateWaiters = 1]
  <2>1. r.terminateWaiters + 1 = 1
    BY <1>3
  <2> QED
    BY <2>1 DEF AskTermination
<1> HIDE DEF r2, o
<1>5. /\ r2 \in TCB /\ r2.taskState = r.taskState /\ r2.reason = r.reason
      /\ r2.semaBlock = r.semaBlock
      /\ r2.pipeResume = <<>> /\ r2.continueWaiters = 0 /\ r2.continueDone = 0
      /\ r2.terminateWaiters = 1 /\ r2.terminateDone = 0
      /\ r2.asyncTerminateRequested = TRUE
      /\ r2.asyncSuspendRequested = r.asyncSuspendRequested
  BY <1>2, <1>3, <1>4 DEF TCB
<1>6. PlaceOK(r2, u, o)
  BY <1>1, <1>2, <1>5 DEF PlaceOK
<1>7. RequestOK(r2, u, o)
  <2>1. r2.terminateWaiters + r2.terminateDone = o.acks
    BY <1>1, <1>5
  <2> QED
    BY <2>1, <1>1, <1>2, <1>5 DEF RequestOK, Terminating
<1>8. PipeOK(r2, u, o) /\ LockOK(r2, u, o, m2)
  BY <1>1, <1>5 DEF PipeOK, LockOK, Sending, Terminating
<1>9. Quiet(r, u, r2, u)
  BY <1>5 DEF Quiet, Waits, Owns
<1> QED
  BY <1>1, <1>2, <1>5, <1>6, <1>7, <1>8, <1>9 DEF Local, r2, o

\* SUSPEND of a task in the queue, and CONTINUE of it, which puts it back.
LEMMA LocalQueued ==
    ASSUME NEW r, NEW u, NEW m, Local(r, u, Idle, m), u.at = "queued", r.semaBlock = 0,
           NEW state \in {"BLOCKED", "SUSPENDED_BLOCKED"}
    PROVE  LET r2 == [r EXCEPT !.taskState = state]
           IN  /\ Local(r2, u, Idle, m)
               /\ ~Owns(r, u) /\ ~Owns(r2, u)
               /\ Waits(r2, u) <=> state = "BLOCKED"
<1> DEFINE r2 == [r EXCEPT !.taskState = state]
<1>1. /\ r \in TCB /\ u \in User /\ OpOK(Idle) /\ PlaceOK(r, u, Idle) /\ RequestOK(r, u, Idle)
      /\ m \in {0, 1} /\ Idle.at = "idle"
  BY DEF Local, Idle
<1>2. /\ r.terminateWaiters = 0 /\ r.terminateDone = 0
      /\ r.continueWaiters = 0 /\ r.continueDone = 0 /\ r.pipeResume = <<>>
  BY IdleFacts
<1>3. r.reason = "IOWAITQUEUE"
  BY <1>1 DEF PlaceOK
<1>4. /\ r2 \in TCB /\ r2.taskState = state /\ r2.reason = "IOWAITQUEUE" /\ r2.semaBlock = 0
      /\ r2.pipeResume = <<>> /\ r2.continueWaiters = 0 /\ r2.continueDone = 0
      /\ r2.terminateWaiters = 0 /\ r2.terminateDone = 0
      /\ r2.asyncTerminateRequested = r.asyncTerminateRequested
  BY <1>1, <1>2, <1>3 DEF TCB
<1> HIDE DEF r2
<1>5. PlaceOK(r2, u, Idle)
  BY <1>1, <1>4 DEF PlaceOK, Outside, Using
<1>6. RequestOK(r2, u, Idle)
  BY <1>1, <1>4 DEF RequestOK, Terminating
<1>7. PipeOK(r2, u, Idle) /\ LockOK(r2, u, Idle, m)
  BY <1>1, <1>4 DEF PipeOK, LockOK, Sending
<1>8. ~Owns(r, u) /\ ~Owns(r2, u) /\ (Waits(r2, u) <=> state = "BLOCKED")
  BY <1>3, <1>4 DEF Waits, Owns, Using
<1> QED
  BY <1>1, <1>4, <1>5, <1>6, <1>7, <1>8 DEF Local, r2

\* TERMINATE of a task in the queue wakes it up without giving it the dation.
LEMMA LocalTerminateQueued ==
    ASSUME NEW r, NEW u, NEW m, Local(r, u, Idle, m), NEW t \in Users, Waits(r, u)
    PROVE  LET r2 == [AskTermination(r, 1) EXCEPT !.semaBlock = @ + 1]
           IN  /\ Local(r2, u, [at |-> "terminating", on |-> t, acks |-> 1], m)
               /\ ~Owns(r, u) /\ ~Owns(r2, u) /\ ~Waits(r2, u)
<1> DEFINE q == AskTermination(r, 1)
           r2 == [q EXCEPT !.semaBlock = @ + 1]
           o == [at |-> "terminating", on |-> t, acks |-> 1]
<1>1. OpOK(o) /\ o.at = "terminating" /\ o.acks = 1
  BY StatementOK
<1>2. /\ r \in TCB /\ u \in User /\ PlaceOK(r, u, Idle) /\ RequestOK(r, u, Idle)
      /\ m \in {0, 1} /\ Idle.at = "idle"
  BY DEF Local, Idle
<1>3. /\ r.terminateWaiters = 0 /\ r.terminateDone = 0
      /\ r.continueWaiters = 0 /\ r.continueDone = 0 /\ r.pipeResume = <<>>
  BY IdleFacts
<1>4. /\ r.taskState = "BLOCKED" /\ r.reason = "IOWAITQUEUE" /\ u.at = "queued" /\ r.semaBlock = 0
  BY DEF Waits
<1>5. q = [r EXCEPT !.asyncTerminateRequested = TRUE, !.terminateWaiters = 1]
  BY <1>3 DEF AskTermination
<1> HIDE DEF q
<1>6. /\ q \in TCB /\ q.taskState = "BLOCKED" /\ q.reason = "IOWAITQUEUE" /\ q.semaBlock = 0
      /\ q.pipeResume = <<>> /\ q.continueWaiters = 0 /\ q.continueDone = 0
      /\ q.terminateWaiters = 1 /\ q.terminateDone = 0
      /\ q.asyncTerminateRequested = TRUE
  BY <1>2, <1>3, <1>4, <1>5 DEF TCB
<1>7. r2 = [q EXCEPT !.semaBlock = 1]
  BY <1>6
<1> HIDE DEF r2, o
<1>8. /\ r2 \in TCB /\ r2.taskState = "BLOCKED" /\ r2.reason = "IOWAITQUEUE" /\ r2.semaBlock = 1
      /\ r2.pipeResume = <<>> /\ r2.continueWaiters = 0 /\ r2.continueDone = 0
      /\ r2.terminateWaiters = 1 /\ r2.terminateDone = 0
      /\ r2.asyncTerminateRequested = TRUE
  BY <1>6, <1>7 DEF TCB
<1>9. PlaceOK(r2, u, o)
  BY <1>1, <1>4, <1>8 DEF PlaceOK, Outside, Using
<1>10. RequestOK(r2, u, o)
  BY <1>1, <1>4, <1>8 DEF RequestOK, Terminating
<1>11. PipeOK(r2, u, o) /\ LockOK(r2, u, o, m)
  BY <1>1, <1>8 DEF PipeOK, LockOK, Sending
<1>12. ~Owns(r, u) /\ ~Owns(r2, u) /\ ~Waits(r2, u)
  BY <1>4, <1>8 DEF Waits, Owns, Using
<1> QED
  BY <1>1, <1>2, <1>8, <1>9, <1>10, <1>11, <1>12 DEF Local, r2, o, q

\* CONTINUE of a suspended task.
LEMMA LocalAskContinue ==
    ASSUME NEW r, NEW u, NEW m, Local(r, u, Idle, m), NEW t \in Users, u.at = "suspended"
    PROVE  LET r2 == [r EXCEPT !.continueWaiters = @ + 1, !.pipeResume = Append(@, "c")]
           IN  /\ Local(r2, u, [at |-> "continuing", on |-> t, acks |-> 1], m)
               /\ Quiet(r, u, r2, u)
<1> DEFINE r2 == [r EXCEPT !.continueWaiters = @ + 1, !.pipeResume = Append(@, "c")]
           o == [at |-> "continuing", on |-> t, acks |-> 1]
<1>1. OpOK(o) /\ o.at = "continuing" /\ o.acks = 1
  BY DEF OpOK, Controller
<1>2. /\ r \in TCB /\ u \in User /\ PlaceOK(r, u, Idle) /\ RequestOK(r, u, Idle)
      /\ m \in {0, 1} /\ Idle.at = "idle"
  BY DEF Local, Idle
<1>3. /\ r.terminateWaiters = 0 /\ r.terminateDone = 0
      /\ r.continueWaiters = 0 /\ r.continueDone = 0 /\ r.pipeResume = <<>>
  BY IdleFacts
<1>4. Append(r.pipeResume, "c") = <<"c">> /\ <<"c">> \in Seq({"c", "t"})
  BY <1>3
<1>5. r2 = [r EXCEPT !.continueWaiters = 1, !.pipeResume = <<"c">>]
  BY <1>3, <1>4
<1> HIDE DEF r2, o
<1>6. /\ r2 \in TCB /\ r2.taskState = r.taskState /\ r2.reason = r.reason
      /\ r2.semaBlock = r.semaBlock
      /\ r2.pipeResume = <<"c">> /\ r2.continueWaiters = 1 /\ r2.continueDone = 0
      /\ r2.terminateWaiters = 0 /\ r2.terminateDone = 0
      /\ r2.asyncTerminateRequested = r.asyncTerminateRequested
      /\ r2.asyncSuspendRequested = r.asyncSuspendRequested
  BY <1>2, <1>3, <1>4, <1>5 DEF TCB
<1>7. PlaceOK(r2, u, o)
  BY <1>1, <1>2, <1>6 DEF PlaceOK
<1>8. RequestOK(r2, u, o)
  BY <1>1, <1>2, <1>6 DEF RequestOK, Terminating
<1>9. PipeOK(r2, u, o)
  <2>1. Head(r2.pipeResume) = "c" /\ Tail(r2.pipeResume) = <<>>
    BY <1>6
  <2> QED
    BY <2>1, <1>1, <1>6 DEF PipeOK
<1>10. LockOK(r2, u, o, m)
  BY <1>1, <1>6 DEF LockOK, Sending
<1>11. Quiet(r, u, r2, u)
  BY <1>6 DEF Quiet, Waits, Owns
<1> QED
  BY <1>1, <1>2, <1>6, <1>7, <1>8, <1>9, <1>10, <1>11 DEF Local, r2, o

\* TERMINATE of a suspended task.
LEMMA LocalTerminateSuspended ==
    ASSUME NEW r, NEW u, NEW m, Local(r, u, Idle, m), NEW t \in Users, u.at = "suspended",
           NEW k \in {1, 2}, NEW char \in {"c", "t"},
           char = "t" => TerminateAnywhere \/ u.return \in {"stmt", "body", "end"}
    PROVE  LET r2 == [AskTermination(r, k) EXCEPT !.pipeResume = Append(@, char)]
           IN  /\ Local(r2, u, [at |-> "terminating", on |-> t, acks |-> k], m)
               /\ Quiet(r, u, r2, u)
<1> DEFINE q == AskTermination(r, k)
           r2 == [q EXCEPT !.pipeResume = Append(@, char)]
           o == [at |-> "terminating", on |-> t, acks |-> k]
<1>1. OpOK(o) /\ o.at = "terminating" /\ o.acks = k
  BY StatementOK
<1>2. /\ r \in TCB /\ u \in User /\ PlaceOK(r, u, Idle) /\ RequestOK(r, u, Idle)
      /\ m \in {0, 1} /\ Idle.at = "idle"
  BY DEF Local, Idle
<1>3. /\ r.terminateWaiters = 0 /\ r.terminateDone = 0
      /\ r.continueWaiters = 0 /\ r.continueDone = 0 /\ r.pipeResume = <<>>
  BY IdleFacts
<1>4. q = [r EXCEPT !.asyncTerminateRequested = TRUE, !.terminateWaiters = k]
  <2>1. r.terminateWaiters + k = k
    BY <1>3
  <2> QED
    BY <2>1 DEF AskTermination
<1> HIDE DEF q
<1>5. /\ q \in TCB /\ q.taskState = r.taskState /\ q.reason = r.reason
      /\ q.semaBlock = r.semaBlock
      /\ q.pipeResume = <<>> /\ q.continueWaiters = 0 /\ q.continueDone = 0
      /\ q.terminateWaiters = k /\ q.terminateDone = 0
      /\ q.asyncTerminateRequested = TRUE
      /\ q.asyncSuspendRequested = r.asyncSuspendRequested
  <2>1. k \in Nat
    OBVIOUS
  <2> QED
    BY <2>1, <1>2, <1>3, <1>4 DEF TCB
<1>6. Append(q.pipeResume, char) = <<char>> /\ <<char>> \in Seq({"c", "t"})
  BY <1>5
<1>7. r2 = [q EXCEPT !.pipeResume = <<char>>]
  BY <1>6
<1> HIDE DEF r2, o
<1>8. /\ r2 \in TCB /\ r2.taskState = r.taskState /\ r2.reason = r.reason
      /\ r2.semaBlock = r.semaBlock
      /\ r2.pipeResume = <<char>> /\ r2.continueWaiters = 0 /\ r2.continueDone = 0
      /\ r2.terminateWaiters = k /\ r2.terminateDone = 0
      /\ r2.asyncTerminateRequested = TRUE
      /\ r2.asyncSuspendRequested = r.asyncSuspendRequested
  BY <1>5, <1>6, <1>7 DEF TCB
<1>9. PlaceOK(r2, u, o)
  BY <1>1, <1>2, <1>8 DEF PlaceOK
<1>10. RequestOK(r2, u, o)
  <2>1. r2.terminateWaiters + r2.terminateDone = o.acks
    BY <1>1, <1>8
  <2> QED
    BY <2>1, <1>1, <1>2, <1>8 DEF RequestOK, Terminating
<1>11. PipeOK(r2, u, o)
  <2>1. Head(r2.pipeResume) = char /\ Tail(r2.pipeResume) = <<>>
    BY <1>8
  <2> QED
    BY <2>1, <1>1, <1>8 DEF PipeOK
<1>12. LockOK(r2, u, o, m)
  BY <1>1, <1>8 DEF LockOK, Sending
<1>13. Quiet(r, u, r2, u)
  BY <1>8 DEF Quiet, Waits, Owns
<1> QED
  BY <1>1, <1>2, <1>8, <1>9, <1>10, <1>11, <1>12, <1>13 DEF Local, r2, o, q

-----------------------------------------------------------------------------
\* The loop that sends SIG_CANCEL_IO ends.
LEMMA LocalCancelling ==
    ASSUME NEW r, NEW u, NEW o, NEW m, Local(r, u, o, m), NEW place,
           \/ /\ o.at = "cancelSuspend" /\ r.asyncSuspendRequested = FALSE
              /\ place = "suspendingIO"
           \/ /\ o.at = "cancelTerminate" /\ r.asyncTerminateRequested = FALSE
              /\ place = "terminating"
    PROVE  Local(r, u, [o EXCEPT !.at = place], m)
<1> DEFINE o2 == [o EXCEPT !.at = place]
<1>1. /\ r \in TCB /\ u \in User /\ OpOK(o) /\ PlaceOK(r, u, o) /\ RequestOK(r, u, o)
      /\ PipeOK(r, u, o) /\ LockOK(r, u, o, m) /\ m \in {0, 1}
  BY DEF Local
<1>2. o \in Controller
  BY <1>1 DEF OpOK
<1>3. o2 \in Controller /\ o2.at = place /\ o2.on = o.on /\ o2.acks = o.acks
  BY <1>2 DEF Controller
<1> HIDE DEF o2
<1>4. OpOK(o2)
  BY <1>1, <1>3 DEF OpOK
<1>5. PlaceOK(r, u, o2)
  BY <1>1, <1>3 DEF PlaceOK
<1>6. RequestOK(r, u, o2)
  BY <1>1, <1>3 DEF RequestOK, Terminating
<1>7. PipeOK(r, u, o2) /\ LockOK(r, u, o2, m)
  BY <1>1, <1>3 DEF PipeOK, LockOK, Sending
<1> QED
  BY <1>1, <1>4, <1>5, <1>6, <1>7 DEF Local, o2

LEMMA IdleOK == OpOK(Idle) /\ Idle.at = "idle" /\ Idle.on = None
<1>1. 0 \in 0 .. 2
  OBVIOUS
<1> QED
  BY <1>1 DEF OpOK, Idle, Controller

\* SUSPEND returns.
LEMMA LocalSuspendDone ==
    ASSUME NEW r, NEW u, NEW o, NEW m, Local(r, u, o, m),
           o.at \in {"suspending", "suspendingIO"}, r.suspendDone >= o.acks,
           NEW r2,
           \/ o.at = "suspending" /\ r2 = [r EXCEPT !.suspendDone = @ - o.acks]
           \/ /\ o.at = "suspendingIO"
              /\ r2 = [r EXCEPT !.suspendDone = @ - o.acks, !.taskState = "SUSPENDED_BLOCKED"]
    PROVE  Local(r2, u, Idle, m) /\ Quiet(r, u, r2, u)
<1>1. /\ r \in TCB /\ u \in User /\ OpOK(o) /\ PlaceOK(r, u, o) /\ RequestOK(r, u, o)
      /\ PipeOK(r, u, o) /\ LockOK(r, u, o, m) /\ m \in {0, 1}
  BY DEF Local
<1>2. r.suspendDone - o.acks \in Nat
  <2>1. r.suspendDone \in Nat
    BY <1>1 DEF TCB
  <2>2. o.acks \in 0 .. 2
    BY <1>1 DEF OpOK, Controller
  <2> QED
    BY <2>1, <2>2
<1>3. /\ r2 \in TCB /\ r2.reason = r.reason /\ r2.semaBlock = r.semaBlock
      /\ o.at = "suspending" => r2.taskState = r.taskState
      /\ o.at = "suspendingIO" => r2.taskState = "SUSPENDED_BLOCKED"
      /\ r2.pipeResume = r.pipeResume
      /\ r2.continueWaiters = r.continueWaiters /\ r2.continueDone = r.continueDone
      /\ r2.terminateWaiters = r.terminateWaiters /\ r2.terminateDone = r.terminateDone
      /\ r2.asyncTerminateRequested = r.asyncTerminateRequested
  BY <1>1, <1>2 DEF TCB
<1>4. o.at = "suspendingIO" => u.at = "suspended" /\ r.reason = "IO"
  BY <1>1 DEF RequestOK
<1>5. PlaceOK(r2, u, Idle)
  BY <1>1, <1>3, <1>4 DEF PlaceOK, Outside, Using
<1>6. RequestOK(r2, u, Idle)
  BY <1>1, <1>3, IdleOK DEF RequestOK, Terminating
<1>7. PipeOK(r2, u, Idle) /\ LockOK(r2, u, Idle, m)
  BY <1>1, <1>3, IdleOK DEF PipeOK, LockOK, Sending
<1>8. Quiet(r, u, r2, u)
  BY <1>3, <1>4 DEF Quiet, Waits, Owns, Using
<1> QED
  BY <1>1, <1>3, <1>5, <1>6, <1>7, <1>8, IdleOK DEF Local

\* CONTINUE returns and unlocks mutexTasks, which the task has locked for it.
LEMMA LocalContinueDone ==
    ASSUME NEW r, NEW u, NEW o, NEW m, Local(r, u, o, m),
           o.at = "continuing", r.continueDone >= o.acks
    PROVE  LET r2 == [r EXCEPT !.continueDone = @ - o.acks]
           IN  m = 0 /\ Local(r2, u, Idle, 1) /\ Quiet(r, u, r2, u)
<1> DEFINE r2 == [r EXCEPT !.continueDone = @ - o.acks]
<1>1. /\ r \in TCB /\ u \in User /\ OpOK(o) /\ PlaceOK(r, u, o) /\ RequestOK(r, u, o)
      /\ PipeOK(r, u, o) /\ LockOK(r, u, o, m) /\ m \in {0, 1}
  BY DEF Local
<1>2. r.continueDone = 1 /\ r.continueWaiters = 0 /\ o.acks = 1
  <2>1. r.continueDone \in Nat /\ r.continueWaiters \in Nat
    BY <1>1 DEF TCB
  <2>2. o.acks = 1 /\ r.continueWaiters + r.continueDone = 1
    BY <1>1 DEF OpOK, LockOK
  <2> QED
    BY <2>1, <2>2
<1>3. m = 0 /\ r.pipeResume = <<>>
  BY <1>1, <1>2 DEF LockOK, PipeOK
<1>4. r2 = [r EXCEPT !.continueDone = 0]
  BY <1>2
<1> HIDE DEF r2
<1>5. /\ r2 \in TCB /\ r2.taskState = r.taskState /\ r2.reason = r.reason
      /\ r2.semaBlock = r.semaBlock
      /\ r2.pipeResume = <<>> /\ r2.continueWaiters = 0 /\ r2.continueDone = 0
      /\ r2.terminateWaiters = r.terminateWaiters /\ r2.terminateDone = r.terminateDone
      /\ r2.asyncTerminateRequested = r.asyncTerminateRequested
  BY <1>1, <1>2, <1>3, <1>4 DEF TCB
<1>6. PlaceOK(r2, u, Idle)
  BY <1>1, <1>5 DEF PlaceOK
<1>7. RequestOK(r2, u, Idle)
  BY <1>1, <1>5, IdleOK DEF RequestOK, Terminating
<1>8. PipeOK(r2, u, Idle) /\ LockOK(r2, u, Idle, 1)
  BY <1>5, IdleOK DEF PipeOK, LockOK, Sending
<1>9. Quiet(r, u, r2, u)
  BY <1>5 DEF Quiet, Waits, Owns
<1> QED
  BY <1>1, <1>3, <1>5, <1>6, <1>7, <1>8, <1>9, IdleOK DEF Local, r2

\* TERMINATE returns: the task has ended, and no other request is left.
LEMMA LocalTerminateDone ==
    ASSUME NEW r, NEW u, NEW o, NEW m, Local(r, u, o, m),
           o.at = "terminating", r.terminateDone >= o.acks
    PROVE  LET r2 == [r EXCEPT !.terminateDone = @ - o.acks, !.taskState = "TERMINATED"]
           IN  Local(r2, u, Idle, m) /\ Quiet(r, u, r2, u)
<1> DEFINE r2 == [r EXCEPT !.terminateDone = @ - o.acks, !.taskState = "TERMINATED"]
<1>1. /\ r \in TCB /\ u \in User /\ OpOK(o) /\ PlaceOK(r, u, o) /\ RequestOK(r, u, o)
      /\ PipeOK(r, u, o) /\ LockOK(r, u, o, m) /\ m \in {0, 1}
  BY DEF Local
<1>2. r.terminateDone = o.acks /\ r.terminateWaiters = 0 /\ o.acks \in Nat /\ o.acks # 0
  <2>1. r.terminateDone \in Nat /\ r.terminateWaiters \in Nat
    BY <1>1 DEF TCB
  <2>2. o.acks \in 0 .. 2
    BY <1>1 DEF OpOK, Controller
  <2>3. o.acks # 0 /\ r.terminateWaiters + r.terminateDone = o.acks
    BY <1>1 DEF OpOK, RequestOK, Terminating
  <2> QED
    BY <2>1, <2>2, <2>3
<1>3. u.at = "none" /\ r.pipeResume = <<>> /\ r.semaBlock = 0
  BY <1>1, <1>2 DEF RequestOK, PipeOK, PlaceOK
<1>4. r2 = [r EXCEPT !.terminateDone = 0, !.taskState = "TERMINATED"]
  <2>1. r.terminateDone - o.acks = 0
    BY <1>2
  <2> QED
    BY <2>1
<1> HIDE DEF r2
<1>5. /\ r2 \in TCB /\ r2.taskState = "TERMINATED" /\ r2.reason = r.reason /\ r2.semaBlock = 0
      /\ r2.pipeResume = <<>>
      /\ r2.continueWaiters = r.continueWaiters /\ r2.continueDone = r.continueDone
      /\ r2.terminateWaiters = 0 /\ r2.terminateDone = 0
  BY <1>1, <1>2, <1>3, <1>4 DEF TCB
<1>6. PlaceOK(r2, u, Idle)
  BY <1>3, <1>5 DEF PlaceOK, Outside, Using
<1>7. RequestOK(r2, u, Idle)
  BY <1>3, <1>5, IdleOK DEF RequestOK, Terminating
<1>8. PipeOK(r2, u, Idle) /\ LockOK(r2, u, Idle, m)
  BY <1>1, <1>5, IdleOK DEF PipeOK, LockOK, Sending
<1>9. Quiet(r, u, r2, u)
  BY <1>3, <1>5 DEF Quiet, Waits, Owns, Using
<1> QED
  BY <1>1, <1>5, <1>6, <1>7, <1>8, <1>9, IdleOK DEF Local, r2

-----------------------------------------------------------------------------
\* The statement that controller b executes on t.
Op(b, t) == IF controller[b].on = t THEN controller[b] ELSE Idle

Own(t) == Owns(tcb[t], user[t])
Wait(t) == Waits(tcb[t], user[t])

Typed(b) ==
    /\ mutexTasks \in {0, 1}
    /\ mutexUserDation \in Users \cup {None}
    /\ rstVoidPointer \in Users \cup {None}
    /\ tcb = [t \in Users |-> tcb[t]] /\ user = [t \in Users |-> user[t]]
    /\ controller = [c \in {b} |-> controller[c]]
    /\ OpOK(controller[b])

Tasks(b) == \A t \in Users : Local(tcb[t], user[t], Op(b, t), mutexTasks)

QueueOK ==
    /\ waitQueue \in Seq(Users) /\ Distinct(waitQueue) /\ SortedBy(waitQueue, Prio)
    /\ QueueSet(waitQueue) = {t \in Users : Wait(t)}

OwnerOK ==
    /\ isBusy \in BOOLEAN
    /\ \A t \in Users : Own(t) => isBusy
    /\ \A s, t \in Users : Own(s) /\ Own(t) => s = t
    /\ TerminateAnywhere \/ (isBusy => \E t \in Users : Own(t))

\* The inductive invariant.
DInv(b) == Typed(b) /\ Tasks(b) /\ QueueOK /\ OwnerOK

\* A step changes nothing of the tasks not in S.
Elsewhere(S) ==
    /\ tcb' = [s \in Users |-> tcb'[s]] /\ user' = [s \in Users |-> user'[s]]
    /\ \A s \in Users \ S : tcb'[s] = tcb[s] /\ user'[s] = user[s]

\* A step, of t or of the controller, changes nothing about the statements on the others.
OpsElsewhere(b, t) ==
    /\ OpOK(controller[b]')
    /\ \A s \in Users \ {t} :
          Op(b, s)' = Op(b, s) /\ (mutexTasks' = mutexTasks \/ Op(b, s) = Idle)

\* A task on which no statement is executed does not depend on mutexTasks.
LEMMA LocalIdle ==
    ASSUME NEW r, NEW u, NEW m, NEW m2 \in {0, 1}, Local(r, u, Idle, m)
    PROVE  Local(r, u, Idle, m2)
<1>1. LockOK(r, u, Idle, m)
  BY DEF Local
<1>2. LockOK(r, u, Idle, m2)
  BY <1>1, IdleOK DEF LockOK, Sending
<1> QED
  BY <1>2 DEF Local

LEMMA TaskStep ==
    ASSUME NEW b, NEW t \in Users, Tasks(b), Elsewhere({t}), OpsElsewhere(b, t),
           Local(tcb'[t], user'[t], Op(b, t)', mutexTasks')
    PROVE  Tasks(b)'
<1>1. mutexTasks' \in {0, 1}
  BY DEF Local
<1>2. ASSUME NEW s \in Users, s # t
      PROVE  Local(tcb'[s], user'[s], Op(b, s)', mutexTasks')
  <2>1. tcb'[s] = tcb[s] /\ user'[s] = user[s] /\ Op(b, s)' = Op(b, s)
    BY <1>2 DEF Elsewhere, OpsElsewhere
  <2>2. Local(tcb[s], user[s], Op(b, s), mutexTasks)
    BY DEF Tasks
  <2>3. CASE mutexTasks' = mutexTasks
    BY <2>1, <2>2, <2>3
  <2>4. CASE Op(b, s) = Idle
    <3>1. Local(tcb[s], user[s], Idle, mutexTasks)
      BY <2>2, <2>4
    <3>2. Local(tcb[s], user[s], Idle, mutexTasks')
      BY <1>1, <3>1, LocalIdle
    <3> QED
      BY <2>1, <2>4, <3>2
  <2> QED
    BY <1>2, <2>3, <2>4 DEF OpsElsewhere
<1>3. \A s \in Users : Local(tcb'[s], user'[s], Op(b, s)', mutexTasks')
  BY <1>2
<1> QED
  BY <1>3 DEF Tasks

\* A step of a task.
LEMMA UserOps ==
    ASSUME NEW b, NEW t, OpOK(controller[b]), UNCHANGED controller,
           mutexTasks' = mutexTasks \/ controller[b].on = t
    PROVE  OpsElsewhere(b, t) /\ Op(b, t)' = Op(b, t)
  BY DEF OpsElsewhere, Op

\* A step of the controller.
LEMMA ControllerOps ==
    ASSUME NEW b, NEW t \in Users, NEW o, controller = [c \in {b} |-> controller[c]],
           controller[b].on \in {None, t}, OpOK(controller[b]),
           controller' = [controller EXCEPT ![b] = o], OpOK(o), o.on \in {None, t}
    PROVE  /\ OpsElsewhere(b, t)
           /\ Op(b, t)' = IF o.on = t THEN o ELSE Idle
           /\ controller' = [c \in {b} |-> controller'[c]] /\ OpOK(controller'[b])
<1>1. controller'[b] = o /\ controller' = [c \in {b} |-> controller'[c]]
  OBVIOUS
<1>2. Op(b, t)' = IF o.on = t THEN o ELSE Idle
  BY <1>1 DEF Op
<1>3. ASSUME NEW s \in Users \ {t}
      PROVE  Op(b, s)' = Idle /\ Op(b, s) = Idle
  BY <1>1, DationsAssumption DEF Op
<1> QED
  BY <1>1, <1>2, <1>3 DEF OpsElsewhere

-----------------------------------------------------------------------------
\* A step that leaves the dation and its queue alone.
LEMMA QuietStep ==
    ASSUME NEW t \in Users, QueueOK, OwnerOK, Elsewhere({t}),
           Quiet(tcb[t], user[t], tcb'[t], user'[t]),
           isBusy' = isBusy, waitQueue' = waitQueue
    PROVE  QueueOK' /\ OwnerOK'
<1>1. /\ Wait(t)' <=> Wait(t)
      /\ Own(t)' => Own(t)
      /\ Own(t) => Own(t)' \/ TerminateAnywhere
  BY DEF Quiet, Wait, Own
<1>2. \A s \in Users \ {t} : (Wait(s)' <=> Wait(s)) /\ (Own(s)' <=> Own(s))
  BY DEF Elsewhere, Wait, Own
<1>3. QueueOK'
  <2>1. {s \in Users : Wait(s)'} = {s \in Users : Wait(s)}
    BY <1>1, <1>2
  <2> QED
    BY <2>1 DEF QueueOK
<1>4. OwnerOK'
  BY <1>1, <1>2 DEF OwnerOK
<1> QED
  BY <1>3, <1>4

LEMMA PrioInt == Prio \in [Users -> Int]
  BY DationsAssumption

\* A task that has not the dation leaves the queue, or is put into it.
LEMMA QueueStep ==
    ASSUME NEW t \in Users, QueueOK, OwnerOK, Elsewhere({t}), isBusy' = isBusy,
           ~Own(t), ~Own(t)',
           \/ Wait(t) /\ ~Wait(t)' /\ waitQueue' = Remove(waitQueue, t)
           \/ ~Wait(t) /\ Wait(t)' /\ waitQueue' = Insert(waitQueue, t, Prio)
    PROVE  QueueOK' /\ OwnerOK'
<1>1. \A s \in Users \ {t} : (Wait(s)' <=> Wait(s)) /\ (Own(s)' <=> Own(s))
  BY DEF Elsewhere, Wait, Own
<1>2. OwnerOK'
  BY <1>1 DEF OwnerOK
<1>3. CASE Wait(t) /\ ~Wait(t)' /\ waitQueue' = Remove(waitQueue, t)
  <2>1. {s \in Users : Wait(s)'} = {s \in Users : Wait(s)} \ {t}
    BY <1>1, <1>3
  <2>2. /\ waitQueue' \in Seq(Users) /\ Distinct(waitQueue')
        /\ QueueSet(waitQueue') = QueueSet(waitQueue) \ {t}
        /\ SortedBy(waitQueue, Prio) => SortedBy(waitQueue', Prio)
    BY <1>3, RemoveProperties DEF QueueOK
  <2>3. QueueSet(waitQueue') = {s \in Users : Wait(s)'} /\ SortedBy(waitQueue', Prio)
    BY <2>1, <2>2 DEF QueueOK
  <2> QED
    BY <1>2, <2>2, <2>3 DEF QueueOK
<1>4. CASE ~Wait(t) /\ Wait(t)' /\ waitQueue' = Insert(waitQueue, t, Prio)
  <2>1. {s \in Users : Wait(s)'} = {s \in Users : Wait(s)} \cup {t}
    BY <1>1, <1>4
  <2>2. t \notin QueueSet(waitQueue)
    BY <1>4 DEF QueueOK
  <2>3. /\ waitQueue' \in Seq(Users) /\ Distinct(waitQueue')
        /\ QueueSet(waitQueue') = QueueSet(waitQueue) \cup {t}
    BY <1>4, <2>2, InsertProperties DEF QueueOK
  <2>4. SortedBy(waitQueue', Prio)
    BY <1>4, PrioInt, InsertSorted DEF QueueOK
  <2>5. QueueSet(waitQueue') = {s \in Users : Wait(s)'}
    BY <2>1, <2>3 DEF QueueOK
  <2> QED
    BY <1>2, <2>3, <2>4, <2>5 DEF QueueOK
<1> QED
  BY <1>2, <1>3, <1>4

\* CONTINUE of a task that waits puts it behind the others of its priority.
LEMMA RequeueStep ==
    ASSUME NEW t \in Users, QueueOK, Wait(t), UNCHANGED <<tcb, user>>,
           waitQueue' = Insert(Remove(waitQueue, t), t, Prio)
    PROVE  QueueOK'
<1> DEFINE q == Remove(waitQueue, t)
<1>1. /\ q \in Seq(Users) /\ Distinct(q) /\ SortedBy(q, Prio)
      /\ QueueSet(q) = QueueSet(waitQueue) \ {t}
  BY RemoveProperties DEF QueueOK
<1> HIDE DEF q
<1>2. waitQueue' = Insert(q, t, Prio)
  BY DEF q
<1>3. /\ waitQueue' \in Seq(Users) /\ Distinct(waitQueue')
      /\ QueueSet(waitQueue') = QueueSet(q) \cup {t}
  BY <1>1, <1>2, InsertProperties
<1>4. SortedBy(waitQueue', Prio)
  BY <1>1, <1>2, PrioInt, InsertSorted
<1>5. {s \in Users : Wait(s)'} = {s \in Users : Wait(s)}
  BY DEF Wait
<1> QED
  BY <1>1, <1>3, <1>4, <1>5 DEF QueueOK

\* A task takes the free dation.
LEMMA TakeStep ==
    ASSUME NEW t \in Users, QueueOK, OwnerOK, Elsewhere({t}),
           isBusy = FALSE, isBusy' = TRUE, waitQueue' = waitQueue,
           Own(t)', ~Wait(t), ~Wait(t)'
    PROVE  QueueOK' /\ OwnerOK'
<1>1. \A s \in Users \ {t} : (Wait(s)' <=> Wait(s)) /\ (Own(s)' <=> Own(s))
  BY DEF Elsewhere, Wait, Own
<1>2. \A s \in Users : ~Own(s)
  BY DEF OwnerOK
<1>3. OwnerOK'
  BY <1>1, <1>2 DEF OwnerOK
<1>4. {s \in Users : Wait(s)'} = {s \in Users : Wait(s)}
  BY <1>1
<1>5. QueueOK'
  BY <1>4 DEF QueueOK
<1> QED
  BY <1>3, <1>5

\* The user of the dation gives it up, and it passes to the first in the queue.
LEMMA PassStep ==
    ASSUME NEW t \in Users, NEW h, QueueOK, OwnerOK, PassOn,
           Own(t), ~Own(t)', ~Wait(t), ~Wait(t)',
           waitQueue = <<>> => Elsewhere({t}),
           waitQueue # <<>> => /\ h = Head(waitQueue) /\ Elsewhere({t, h})
                               /\ Own(h)' /\ ~Wait(h)'
    PROVE  QueueOK' /\ OwnerOK'
<1>1. \A s \in Users \ {t} : ~Own(s)
  BY DEF OwnerOK
<1>2. CASE waitQueue = <<>>
  <2>1. isBusy' = FALSE /\ waitQueue' = waitQueue
    BY <1>2 DEF PassOn
  <2>2. \A s \in Users \ {t} : (Wait(s)' <=> Wait(s)) /\ (Own(s)' <=> Own(s))
    BY <1>2 DEF Elsewhere, Wait, Own
  <2>3. \A s \in Users : ~Own(s)'
    BY <1>1, <2>2
  <2>4. OwnerOK'
    BY <2>1, <2>3 DEF OwnerOK
  <2>5. {s \in Users : Wait(s)'} = {s \in Users : Wait(s)}
    BY <2>2
  <2> QED
    BY <2>1, <2>4, <2>5 DEF QueueOK
<1>3. CASE waitQueue # <<>>
  <2>1. isBusy' = TRUE /\ waitQueue' = Tail(waitQueue)
    BY <1>3 DEF PassOn
  <2>2. /\ h \in QueueSet(waitQueue) /\ Tail(waitQueue) \in Seq(Users)
        /\ QueueSet(Tail(waitQueue)) = QueueSet(waitQueue) \ {h}
        /\ Distinct(Tail(waitQueue)) /\ SortedBy(Tail(waitQueue), Prio)
    BY <1>3, TailProperties DEF QueueOK
  <2>3. h \in Users /\ h # t
    BY <2>2 DEF QueueOK
  <2>4. Own(h)' /\ ~Wait(h)'
    BY <1>3
  <2>5. \A s \in Users \ {t, h} : (Wait(s)' <=> Wait(s)) /\ (Own(s)' <=> Own(s))
    BY <1>3 DEF Elsewhere, Wait, Own
  <2>6. \A s \in Users : Own(s)' => s = h
    BY <1>1, <2>5
  <2>7. OwnerOK'
    BY <2>1, <2>3, <2>4, <2>6 DEF OwnerOK
  <2>8. {s \in Users : Wait(s)'} = {s \in Users : Wait(s)} \ {h}
    BY <2>4, <2>5
  <2>9. QueueSet(waitQueue') = {s \in Users : Wait(s)'}
    BY <2>1, <2>2, <2>8 DEF QueueOK
  <2> QED
    BY <2>1, <2>2, <2>7, <2>9 DEF QueueOK
<1> QED
  BY <1>2, <1>3

-----------------------------------------------------------------------------
\* A step of t's thread.
LEMMA UserStep ==
    ASSUME NEW b, NEW t \in Users, DInv(b), UNCHANGED controller, Elsewhere({t}),
           mutexUserDation' \in Users \cup {None}, rstVoidPointer' \in Users \cup {None},
           mutexTasks' = mutexTasks \/ controller[b].on = t,
           Local(tcb'[t], user'[t], Op(b, t), mutexTasks'), QueueOK', OwnerOK'
    PROVE  DInv(b)'
<1>1. OpsElsewhere(b, t) /\ Op(b, t)' = Op(b, t)
  BY UserOps DEF DInv, Typed
<1>2. Tasks(b)'
  BY <1>1, TaskStep DEF DInv
<1>3. mutexTasks' \in {0, 1}
  BY DEF Local
<1>4. Typed(b)'
  BY <1>3 DEF DInv, Typed, Elsewhere
<1> QED
  BY <1>2, <1>4 DEF DInv

LEMMA QuietUserStep ==
    ASSUME NEW b, NEW t \in Users, DInv(b), UNCHANGED controller, Elsewhere({t}),
           mutexUserDation' \in Users \cup {None}, rstVoidPointer' \in Users \cup {None},
           mutexTasks' = mutexTasks \/ controller[b].on = t,
           Local(tcb'[t], user'[t], Op(b, t), mutexTasks'),
           Quiet(tcb[t], user[t], tcb'[t], user'[t]), isBusy' = isBusy, waitQueue' = waitQueue
    PROVE  DInv(b)'
<1>1. QueueOK' /\ OwnerOK'
  BY QuietStep DEF DInv
<1> QED
  BY <1>1, UserStep

\* A region of t is passed with the lock of t, or with that of the controller.
LEMMA RegionFacts ==
    ASSUME NEW b, Controllers = {b}, DInv(b), NEW t \in Users, Region(t)
    PROVE  /\ mutexTasks' \in {0, 1}
           /\ \/ mutexTasks' = mutexTasks
              \/ mutexTasks = 0 /\ mutexTasks' = 1 /\ Op(b, t).at \in Sending
           /\ mutexTasks' = mutexTasks \/ controller[b].on = t
<1>1. mutexTasks \in {0, 1}
  BY DEF DInv, Typed
<1>2. Cancelled(t) => controller[b].on = t /\ Op(b, t).at \in Sending
  BY DEF Cancelled, Op, Sending
<1> QED
  BY <1>1, <1>2 DEF Region

\* The parts of the invariant that the steps of t use.
LEMMA TaskFacts ==
    ASSUME NEW b, DInv(b), NEW t \in Users
    PROVE  /\ Local(tcb[t], user[t], Op(b, t), mutexTasks)
           /\ tcb = [s \in Users |-> tcb[s]] /\ user = [s \in Users |-> user[s]]
           /\ mutexTasks \in {0, 1}
           /\ mutexUserDation \in Users \cup {None} /\ rstVoidPointer \in Users \cup {None}
  BY DEF DInv, Typed, Tasks

\* New values for t alone.
LEMMA ElsewhereExcept ==
    ASSUME NEW b, DInv(b), NEW t \in Users, NEW r, NEW u,
           tcb' = [tcb EXCEPT ![t] = r], user' = [user EXCEPT ![t] = u]
    PROVE  Elsewhere({t}) /\ tcb'[t] = r /\ user'[t] = u
  BY TaskFacts DEF Elsewhere

\* A task goes on, and takes or gives back mutexUserDation.
LEMMA OnwardStep ==
    ASSUME NEW b, DInv(b), NEW t \in Users, NEW place,
           GoTo(t, place), UNCHANGED <<tcb, isBusy, waitQueue, rstVoidPointer, controller>>,
           mutexUserDation' \in Users \cup {None}, <<user[t].at, place>> \in Onward,
           user[t].at = "begun" => ~tcb[t].asyncTerminateRequested /\ ~tcb[t].asyncSuspendRequested,
           mutexTasks' \in {0, 1}, mutexTasks' = mutexTasks \/ controller[b].on = t,
           \/ mutexTasks' = mutexTasks
           \/ mutexTasks = 0 /\ mutexTasks' = 1 /\ Op(b, t).at \in Sending
    PROVE  DInv(b)'
<1> DEFINE u2 == [user[t] EXCEPT !.at = place]
<1>1. user' = [user EXCEPT ![t] = u2] /\ tcb' = [tcb EXCEPT ![t] = tcb[t]]
  BY TaskFacts DEF GoTo
<1>2. Local(tcb[t], u2, Op(b, t), mutexTasks') /\ Quiet(tcb[t], user[t], tcb[t], u2)
  BY TaskFacts, LocalOnward
<1> HIDE DEF u2
<1>3. Elsewhere({t}) /\ tcb'[t] = tcb[t] /\ user'[t] = u2
  BY <1>1, ElsewhereExcept
<1>4. rstVoidPointer' \in Users \cup {None}
  BY TaskFacts
<1> QED
  BY <1>2, <1>3, <1>4, QuietUserStep

LEMMA WalkStep ==
    ASSUME NEW b, Controllers = {b}, DInv(b), NEW t \in Users,
           \/ EndOfBody(t) \/ Begin(t) \/ LockAgain(t) \/ BeginHook(t) \/ Transferred(t) \/ End(t)
    PROVE  DInv(b)'
<1>1. mutexTasks \in {0, 1} /\ mutexUserDation \in Users \cup {None}
  BY TaskFacts
<1>2. CASE EndOfBody(t)
  <2>1. <<user[t].at, "end">> \in Onward /\ user[t].at # "begun"
    BY <1>2 DEF EndOfBody, At, Onward
  <2> QED
    BY <1>1, <1>2, <2>1, OnwardStep DEF EndOfBody, dationVars
<1>3. CASE Begin(t)
  <2>1. <<user[t].at, "begin">> \in Onward /\ user[t].at # "begun"
    BY <1>3 DEF Begin, At, Onward
  <2> QED
    BY <1>1, <1>3, <2>1, OnwardStep DEF Begin
<1>4. CASE LockAgain(t)
  <2>1. <<user[t].at, "waked">> \in Onward /\ user[t].at # "begun"
    BY <1>4 DEF LockAgain, At, Onward
  <2> QED
    BY <1>1, <1>4, <2>1, OnwardStep DEF LockAgain
<1>5. CASE BeginHook(t)
  <2>1. <<user[t].at, "begun">> \in Onward /\ user[t].at # "begun"
    BY <1>5 DEF BeginHook, At, Onward
  <2>2. /\ mutexTasks' \in {0, 1}
        /\ \/ mutexTasks' = mutexTasks
           \/ mutexTasks = 0 /\ mutexTasks' = 1 /\ Op(b, t).at \in Sending
        /\ mutexTasks' = mutexTasks \/ controller[b].on = t
    BY <1>5, RegionFacts DEF BeginHook
  <2>3. mutexUserDation' \in Users \cup {None}
    BY <1>5 DEF BeginHook
  <2> QED
    BY <1>5, <2>1, <2>2, <2>3, OnwardStep DEF BeginHook
<1>6. CASE Transferred(t)
  <2>1. <<user[t].at, "ended">> \in Onward /\ user[t].at # "begun"
    BY <1>6 DEF Transferred, At, Onward
  <2> QED
    BY <1>1, <1>6, <2>1, OnwardStep DEF Transferred, dationVars
<1>7. CASE End(t)
  <2>1. <<user[t].at, "ending">> \in Onward /\ user[t].at # "begun"
    BY <1>7 DEF End, At, Onward
  <2> QED
    BY <1>1, <1>7, <2>1, OnwardStep DEF End
<1> QED
  BY <1>2, <1>3, <1>4, <1>5, <1>6, <1>7

\* scheduleCallback()
CallbackAt(t, next) ==
    <<user[t].at, next>> \in {<<"body", "stmt">>, <<"begun", "io">>, <<"finished", "end">>,
                              <<"finished", "body">>}

LEMMA CallbackStep ==
    ASSUME NEW b, Controllers = {b}, DInv(b), NEW t \in Users, NEW next,
           CallbackAt(t, next), Callback(t, next)
    PROVE  DInv(b)'
<1> DEFINE r == [tcb[t] EXCEPT !.asyncTerminateRequested = FALSE]
           o == Op(b, t)
<1>1. /\ Local(tcb[t], user[t], o, mutexTasks)
      /\ tcb[t] \in TCB /\ user[t] \in User
      /\ PlaceOK(tcb[t], user[t], o) /\ RequestOK(tcb[t], user[t], o)
  BY TaskFacts DEF Local
<1>2. /\ mutexTasks' \in {0, 1}
      /\ \/ mutexTasks' = mutexTasks
         \/ mutexTasks = 0 /\ mutexTasks' = 1 /\ o.at \in Sending
      /\ mutexTasks' = mutexTasks \/ controller[b].on = t
  BY RegionFacts DEF Callback
<1>3. /\ UNCHANGED <<mutexUserDation, isBusy, waitQueue, rstVoidPointer, controller>>
      /\ mutexUserDation' \in Users \cup {None} /\ rstVoidPointer' \in Users \cup {None}
  BY TaskFacts DEF Callback, dationVars
<1>4. user[t].at \in {"body", "begun", "finished"}
  BY DEF CallbackAt
<1>5. /\ r.taskState = tcb[t].taskState /\ r.reason = tcb[t].reason
      /\ r.asyncTerminateRequested = FALSE
      /\ r.asyncSuspendRequested = tcb[t].asyncSuspendRequested
  BY <1>1 DEF TCB
<1>6. Alike(tcb[t], r)
  BY <1>1, <1>4, AlikeItself
<1>7. tcb[t].asyncTerminateRequested \in BOOLEAN /\ tcb[t].asyncSuspendRequested \in BOOLEAN
  BY <1>1 DEF TCB
<1>8. ASSUME NEW r2, NEW u2, tcb' = [tcb EXCEPT ![t] = r2], user' = [user EXCEPT ![t] = u2],
             Local(r2, u2, o, mutexTasks'), Quiet(tcb[t], user[t], r2, u2)
      PROVE  DInv(b)'
  <2>1. Elsewhere({t}) /\ tcb'[t] = r2 /\ user'[t] = u2
    BY <1>8, ElsewhereExcept
  <2> QED
    BY <1>2, <1>3, <1>8, <2>1, QuietUserStep
<1>9. CASE /\ tcb[t].asyncTerminateRequested /\ InIO(r)
           /\ tcb' = [tcb EXCEPT ![t] = r]
           /\ user' = [user EXCEPT ![t] = Thrown(t)]
  <2>1. tcb[t].reason = "IO"
    BY <1>5, <1>9 DEF InIO
  <2>2. tcb[t].asyncTerminateRequested = TRUE
    BY <1>7, <1>9
  <2>3. Local(r, Thrown(t), o, mutexTasks') /\ Quiet(tcb[t], user[t], r, Thrown(t))
    <3>1. Thrown(t) = ThrownFrom(user[t])
      BY DEF Thrown, ThrownFrom
    <3> HIDE DEF o
    <3> QED
      BY <1>1, <1>2, <1>4, <2>1, <2>2, <3>1, LocalThrown
  <2> HIDE DEF r, o
  <2> QED
    BY <1>8, <1>9, <2>3
<1>10. CASE tcb[t].asyncTerminateRequested /\ ~InIO(r) /\ Exit(t, r)
  <2>1. MayExit(tcb[t], user[t], o)
    BY <1>1, <1>4, <1>5, <1>10 DEF MayExit, InIO, Owns, Using, PlaceOK, RequestOK, Terminating
  <2> HIDE DEF r, o
  <2>2. Local(Exited(r), Ended, o, mutexTasks') /\ Quiet(tcb[t], user[t], Exited(r), Ended)
    BY <1>1, <1>2, <1>6, <2>1, LocalExit
  <2>3. tcb' = [tcb EXCEPT ![t] = Exited(r)] /\ user' = [user EXCEPT ![t] = Ended]
    BY <1>10 DEF Exit, Exited, Ended
  <2> QED
    BY <1>8, <2>2, <2>3
<1>11. CASE /\ ~tcb[t].asyncTerminateRequested /\ r.asyncSuspendRequested
            /\ tcb' = [tcb EXCEPT ![t] = Suspended(r)]
            /\ user' = [user EXCEPT ![t] = Waiting(t, next)]
  <2>1. tcb[t].asyncTerminateRequested = FALSE
    BY <1>7, <1>11
  <2>2. r.asyncTerminateRequested = tcb[t].asyncTerminateRequested
    BY <1>5, <2>1
  <2>3. <<user[t].at, next>> \in {<<"body", "stmt">>, <<"begun", "io">>, <<"finished", "end">>,
                                  <<"finished", "body">>, <<"io", "cancel">>}
    BY DEF CallbackAt
  <2> HIDE DEF r, o
  <2>4. /\ Local(Suspended(r), Waiting(t, next), o, mutexTasks')
        /\ Quiet(tcb[t], user[t], Suspended(r), Waiting(t, next))
    <3>1. Waiting(t, next) = SuspendedAt(user[t], next)
      BY DEF Waiting, SuspendedAt
    <3> QED
      BY <1>1, <1>2, <1>6, <1>11, <2>2, <2>3, <3>1, LocalSuspended
  <2> QED
    BY <1>8, <1>11, <2>4
<1>12. CASE /\ ~tcb[t].asyncTerminateRequested /\ ~r.asyncSuspendRequested
            /\ GoTo(t, next) /\ UNCHANGED tcb
  <2>1. ~tcb[t].asyncTerminateRequested /\ ~tcb[t].asyncSuspendRequested
    BY <1>5, <1>12
  <2>2. <<user[t].at, next>> \in Onward
    BY DEF CallbackAt, Onward
  <2> QED
    BY <1>2, <1>3, <1>12, <2>1, <2>2, OnwardStep
<1> QED
  BY <1>9, <1>10, <1>11, <1>12 DEF Callback

LEMMA CallbacksStep ==
    ASSUME NEW b, Controllers = {b}, DInv(b), NEW t \in Users,
           SetLocation(t) \/ AfterBegin(t) \/ AfterEnd(t)
    PROVE  DInv(b)'
<1>1. CASE SetLocation(t)
  <2>1. CallbackAt(t, "stmt") /\ Callback(t, "stmt")
    BY <1>1 DEF SetLocation, At, CallbackAt
  <2> QED
    BY <2>1, CallbackStep
<1>2. CASE AfterBegin(t)
  <2>1. CallbackAt(t, "io") /\ Callback(t, "io")
    BY <1>2 DEF AfterBegin, At, CallbackAt
  <2> QED
    BY <2>1, CallbackStep
<1>3. CASE AfterEnd(t)
  <2>1. PICK next : /\ next = IF user[t].unwinding THEN "end" ELSE "body"
                    /\ Callback(t, next)
    BY <1>3 DEF AfterEnd
  <2>2. CallbackAt(t, next)
    BY <1>3, <2>1 DEF AfterEnd, At, CallbackAt
  <2> QED
    BY <2>1, <2>2, CallbackStep
<1> QED
  BY <1>1, <1>2, <1>3

\* The end of the body.
LEMMA TerminateStep ==
    ASSUME NEW b, Controllers = {b}, DInv(b), NEW t \in Users, Terminate(t)
    PROVE  DInv(b)'
<1> DEFINE r == tcb[t]
           r2 == Exited(r)
           u2 == Ended
           o == Op(b, t)
<1>1. Local(r, user[t], o, mutexTasks) /\ user[t].at = "end"
  BY TaskFacts DEF Terminate, At
<1>2. PlaceOK(r, user[t], o) /\ RequestOK(r, user[t], o) /\ Alike(r, r)
  BY <1>1, AlikeItself DEF Local
<1>3. /\ mutexTasks' \in {0, 1}
      /\ \/ mutexTasks' = mutexTasks
         \/ mutexTasks = 0 /\ mutexTasks' = 1 /\ o.at \in Sending
      /\ mutexTasks' = mutexTasks \/ controller[b].on = t
  BY RegionFacts DEF Terminate
<1>4. MayExit(r, user[t], o)
  BY <1>1, <1>2 DEF MayExit, Owns, Using, PlaceOK, RequestOK
<1>5. tcb' = [tcb EXCEPT ![t] = r2] /\ user' = [user EXCEPT ![t] = u2]
  BY DEF Terminate, Exit, Exited, Ended
<1>6. Local(r2, u2, o, mutexTasks') /\ Quiet(r, user[t], r2, u2)
  BY <1>1, <1>2, <1>3, <1>4, LocalExit
<1> HIDE DEF r2, u2
<1>7. Elsewhere({t}) /\ tcb'[t] = r2 /\ user'[t] = u2
  BY <1>5, ElsewhereExcept
<1>8. /\ UNCHANGED <<isBusy, waitQueue, controller>>
      /\ mutexUserDation' \in Users \cup {None} /\ rstVoidPointer' \in Users \cup {None}
  BY TaskFacts DEF Terminate, dationVars
<1> QED
  BY <1>3, <1>6, <1>7, <1>8, QuietUserStep

\* New values for t that leave the dation alone.
LEMMA ReplacedStep ==
    ASSUME NEW b, DInv(b), NEW t \in Users, NEW r2, NEW u2,
           tcb' = [tcb EXCEPT ![t] = r2], user' = [user EXCEPT ![t] = u2],
           UNCHANGED <<dationVars, controller>>,
           mutexTasks' = mutexTasks \/ controller[b].on = t,
           Local(r2, u2, Op(b, t), mutexTasks'), Quiet(tcb[t], user[t], r2, u2)
    PROVE  DInv(b)'
<1>1. Elsewhere({t}) /\ tcb'[t] = r2 /\ user'[t] = u2
  BY ElsewhereExcept
<1>2. /\ UNCHANGED <<isBusy, waitQueue>>
      /\ mutexUserDation' \in Users \cup {None} /\ rstVoidPointer' \in Users \cup {None}
  BY TaskFacts DEF dationVars
<1> QED
  BY <1>1, <1>2, QuietUserStep

\* suspendMySelf() reads from the pipe.
LEMMA ResumeStep ==
    ASSUME NEW b, Controllers = {b}, DInv(b), NEW t \in Users, Resume(t)
    PROVE  DInv(b)'
<1> DEFINE r == [tcb[t] EXCEPT !.pipeResume = Tail(@)]
           c == [r EXCEPT !.taskState = IF @ = "SUSPENDED" THEN "RUNNING" ELSE "BLOCKED",
                          !.continueDone = @ + r.continueWaiters, !.continueWaiters = 0]
           o == Op(b, t)
           continued == [user[t] EXCEPT !.return = "stmt",
                           !.at = IF user[t].return = "cancel" THEN "io" ELSE user[t].return]
<1>1. /\ Local(tcb[t], user[t], o, mutexTasks) /\ tcb[t].pipeResume # <<>>
      /\ mutexTasks = 1 /\ UNCHANGED <<dationVars, controller>>
  BY TaskFacts DEF Resume
<1>2. /\ user[t].at = "suspended" /\ o.at \in {"continuing", "terminating"}
      /\ Head(tcb[t].pipeResume) \in {"c", "t"}
  BY <1>1, PipeFacts
<1>3. controller[b].on = t
  BY <1>2, IdleOK DEF Op
<1>4. tcb[t] \in TCB /\ PipeOK(tcb[t], user[t], o)
  BY <1>1 DEF Local
<1>5. c = Continued(tcb[t])
  BY <1>4 DEF Continued, TCB
<1>6. tcb[t].asyncTerminateRequested \in BOOLEAN
      /\ r.asyncTerminateRequested = tcb[t].asyncTerminateRequested
  BY <1>4 DEF TCB
<1>7. CASE Head(tcb[t].pipeResume) = "t" /\ Exit(t, r) /\ UNCHANGED mutexTasks
  <2>1. MayExit(tcb[t], user[t], o)
    BY <1>1, <1>2, <1>4, <1>7 DEF MayExit, Owns, Using, PipeOK
  <2>2. Alike(tcb[t], r)
    BY <1>1, AlikePipe
  <2> HIDE DEF r, o
  <2>3. Local(Exited(r), Ended, o, mutexTasks') /\ Quiet(tcb[t], user[t], Exited(r), Ended)
    BY <1>1, <1>7, <2>1, <2>2, LocalExit
  <2>4. tcb' = [tcb EXCEPT ![t] = Exited(r)] /\ user' = [user EXCEPT ![t] = Ended]
    BY <1>7 DEF Exit, Exited, Ended
  <2> QED
    BY <1>1, <1>7, <2>3, <2>4, ReplacedStep DEF o
<1>8. CASE /\ tcb' = [tcb EXCEPT ![t] = c]
           /\ user' = [user EXCEPT ![t].return = "stmt",
                         ![t].at = IF user[t].return = "cancel" THEN "io" ELSE user[t].return]
           /\ mutexTasks' = mutexTasks - 1
  <2>1. user' = [user EXCEPT ![t] = continued]
    BY <1>8, TaskFacts
  <2>2. Local(Continued(tcb[t]), continued, o, 0) /\ Quiet(tcb[t], user[t], Continued(tcb[t]), continued)
    BY <1>1, LocalContinued
  <2>3. mutexTasks' = 0
    BY <1>1, <1>8
  <2>4. tcb' = [tcb EXCEPT ![t] = Continued(tcb[t])]
    <3> HIDE DEF c
    <3> QED
      BY <1>5, <1>8
  <2> HIDE DEF continued
  <2> QED
    BY <1>1, <1>3, <2>1, <2>2, <2>3, <2>4, ReplacedStep
<1>9. CASE /\ user[t].return = "cancel" /\ r.asyncTerminateRequested
           /\ tcb' = [tcb EXCEPT ![t] = [c EXCEPT !.asyncTerminateRequested = FALSE]]
           /\ user' = [user EXCEPT ![t] = Thrown(t)]
           /\ UNCHANGED mutexTasks
  <2> DEFINE r2 == ContinuedTo(tcb[t])
  <2>1. tcb[t].asyncTerminateRequested = TRUE
    BY <1>6, <1>9
  <2>2. Thrown(t) = ThrownFrom(user[t])
    BY DEF Thrown, ThrownFrom
  <2>3. Local(r2, Thrown(t), o, mutexTasks) /\ Quiet(tcb[t], user[t], r2, Thrown(t))
    <3>1. user[t].return = "cancel"
      BY <1>9
    <3> HIDE DEF o
    <3> QED
      BY <1>1, <2>1, <2>2, <3>1, LocalContinuedThrown
  <2>4. tcb' = [tcb EXCEPT ![t] = r2]
    BY <1>5, <1>9 DEF ContinuedTo
  <2> HIDE DEF r2, r, c
  <2> QED
    BY <1>1, <1>9, <2>3, <2>4, ReplacedStep
<1> QED
  BY <1>7, <1>8, <1>9 DEF Resume

LEMMA WakeUpStep ==
    ASSUME NEW b, DInv(b), NEW t \in Users, WakeUp(t)
    PROVE  DInv(b)'
<1> DEFINE r2 == [tcb[t] EXCEPT !.semaBlock = @ - 1]
           u2 == [user[t] EXCEPT !.at = "woken"]
<1>1. /\ Local(tcb[t], user[t], Op(b, t), mutexTasks)
      /\ user[t].at = "queued" /\ tcb[t].semaBlock > 0
      /\ UNCHANGED <<dationVars, controller>> /\ mutexTasks' = mutexTasks
  BY TaskFacts DEF WakeUp, At
<1>2. tcb' = [tcb EXCEPT ![t] = r2] /\ user' = [user EXCEPT ![t] = u2]
  BY TaskFacts DEF WakeUp, GoTo
<1>3. Local(r2, u2, Op(b, t), mutexTasks) /\ Quiet(tcb[t], user[t], r2, u2)
  BY <1>1, LocalWakeUp
<1> HIDE DEF r2, u2
<1> QED
  BY <1>1, <1>2, <1>3, ReplacedStep

LEMMA RstStep ==
    ASSUME NEW b, DInv(b), NEW t \in Users, Rst(t)
    PROVE  DInv(b)'
<1>1. Typed(b)'
  BY DEF DInv, Typed, Rst
<1>2. Tasks(b)'
  BY DEF DInv, Tasks, Op, Rst
<1>3. QueueOK' /\ OwnerOK'
  BY DEF DInv, QueueOK, OwnerOK, Wait, Own, Rst
<1> QED
  BY <1>1, <1>2, <1>3 DEF DInv

LEMMA TreatCancelStep ==
    ASSUME NEW b, Controllers = {b}, DInv(b), NEW t \in Users, TreatCancelIO(t)
    PROVE  DInv(b)'
<1> DEFINE r == tcb[t]
           o == Op(b, t)
<1>1. /\ Local(r, user[t], o, mutexTasks) /\ user[t].at = "io"
      /\ UNCHANGED <<dationVars, controller>> /\ mutexTasks' = mutexTasks + 1
  BY TaskFacts DEF TreatCancelIO, At
<1>2. controller[b].on = t /\ o.at \in Sending
  BY DEF TreatCancelIO, Cancelled, Op, Sending
<1>3. r \in TCB /\ PlaceOK(r, user[t], o) /\ LockOK(r, user[t], o, mutexTasks)
  BY <1>1 DEF Local
<1>4. r.asyncTerminateRequested \in BOOLEAN
  BY <1>3 DEF TCB
<1>5. r.asyncSuspendRequested \/ r.asyncTerminateRequested
  BY DEF TreatCancelIO
<1>6. mutexTasks = 0
  BY <1>1, <1>2, <1>3, <1>5 DEF LockOK
<1>7. mutexTasks' = 1 /\ r.reason = "IO"
  BY <1>1, <1>3, <1>6 DEF PlaceOK, Using
<1>8. CASE tcb' = [tcb EXCEPT ![t] = Suspended(@)] /\ user' = [user EXCEPT ![t] = Waiting(t, "cancel")]
  <2>1. Alike(r, r)
    BY <1>1, AlikeItself
  <2>2. Waiting(t, "cancel") = SuspendedAt(user[t], "cancel")
    BY DEF Waiting, SuspendedAt
  <2>3. <<user[t].at, "cancel">> \in {<<"body", "stmt">>, <<"begun", "io">>, <<"finished", "end">>,
                                      <<"finished", "body">>, <<"io", "cancel">>}
    BY <1>1
  <2>4. /\ Local(Suspended(r), Waiting(t, "cancel"), o, mutexTasks')
        /\ Quiet(r, user[t], Suspended(r), Waiting(t, "cancel"))
    BY <1>1, <1>2, <1>6, <1>7, <2>1, <2>2, <2>3, LocalSuspended
  <2> QED
    BY <1>1, <1>2, <1>8, <2>4, ReplacedStep
<1>9. CASE /\ r.asyncTerminateRequested
           /\ tcb' = [tcb EXCEPT ![t].asyncTerminateRequested = FALSE]
           /\ user' = [user EXCEPT ![t] = Thrown(t)]
  <2> DEFINE r2 == [r EXCEPT !.asyncTerminateRequested = FALSE]
  <2>1. r.asyncTerminateRequested = TRUE
    BY <1>4, <1>9
  <2>2. Thrown(t) = ThrownFrom(user[t])
    BY DEF Thrown, ThrownFrom
  <2>3. Local(r2, Thrown(t), o, mutexTasks') /\ Quiet(r, user[t], r2, Thrown(t))
    BY <1>1, <1>2, <1>6, <1>7, <2>1, <2>2, LocalThrown
  <2>4. tcb' = [tcb EXCEPT ![t] = r2]
    BY <1>9, TaskFacts
  <2> HIDE DEF r2
  <2> QED
    BY <1>1, <1>2, <1>9, <2>3, <2>4, ReplacedStep
<1> QED
  BY <1>8, <1>9 DEF TreatCancelIO

LEMMA BeginLockedStep ==
    ASSUME NEW b, Controllers = {b}, DInv(b), NEW t \in Users, BeginLocked(t)
    PROVE  DInv(b)'
<1> DEFINE r2 == Entering(tcb[t], isBusy)
           u2 == EnteringAt(user[t], isBusy)
           o == Op(b, t)
<1>1. /\ Local(tcb[t], user[t], o, mutexTasks) /\ user[t].at = "begin"
      /\ isBusy' = TRUE /\ UNCHANGED controller
      /\ rstVoidPointer' = None /\ mutexUserDation' = None
      /\ waitQueue' = IF isBusy THEN Insert(waitQueue, t, Prio) ELSE waitQueue
  BY TaskFacts DEF BeginLocked, At
<1>2. /\ mutexTasks' \in {0, 1}
      /\ \/ mutexTasks' = mutexTasks
         \/ mutexTasks = 0 /\ mutexTasks' = 1 /\ o.at \in Sending
      /\ mutexTasks' = mutexTasks \/ controller[b].on = t
  BY RegionFacts DEF BeginLocked
<1>3. tcb' = [tcb EXCEPT ![t] = r2] /\ user' = [user EXCEPT ![t] = u2]
  BY TaskFacts DEF BeginLocked, GoTo, Entering, EnteringAt
<1>4. isBusy \in BOOLEAN /\ QueueOK /\ OwnerOK
  BY DEF DInv, OwnerOK
<1>5. /\ Local(r2, u2, o, mutexTasks')
      /\ ~Owns(tcb[t], user[t]) /\ ~Waits(tcb[t], user[t])
      /\ Owns(r2, u2) <=> ~isBusy
      /\ Waits(r2, u2) <=> isBusy
  BY <1>1, <1>2, <1>4, LocalBegin
<1> HIDE DEF r2, u2
<1>6. Elsewhere({t}) /\ tcb'[t] = r2 /\ user'[t] = u2
  BY <1>3, ElsewhereExcept
<1>7. ~Own(t) /\ ~Wait(t) /\ (Own(t)' <=> ~isBusy) /\ (Wait(t)' <=> isBusy)
  BY <1>5, <1>6 DEF Own, Wait
<1>8. QueueOK' /\ OwnerOK'
  <2>1. CASE isBusy
    <3>1. isBusy' = isBusy
      BY <1>1, <1>4, <2>1
    <3> QED
      BY <1>1, <1>4, <1>6, <1>7, <2>1, <3>1, QueueStep
  <2>2. CASE ~isBusy
    <3>1. isBusy = FALSE
      BY <1>4, <2>2
    <3> QED
      BY <1>1, <1>4, <1>6, <1>7, <2>2, <3>1, TakeStep
  <2> QED
    BY <2>1, <2>2
<1> QED
  BY <1>1, <1>2, <1>5, <1>6, <1>8, UserStep

\* endSequence() changes two tasks: the one that ends, and the head of the queue.
LEMMA EndLockedStep ==
    ASSUME NEW b, Controllers = {b}, DInv(b), NEW t \in Users, EndLocked(t)
    PROVE  DInv(b)'
<1> DEFINE r2 == [tcb[t] EXCEPT !.taskState = "RUNNING"]
           u2 == [user[t] EXCEPT !.at = "finished"]
           o == Op(b, t)
<1>1. /\ Local(tcb[t], user[t], o, mutexTasks) /\ user[t].at = "ending"
      /\ PassOn /\ UNCHANGED controller
      /\ mutexUserDation' \in Users \cup {None} /\ rstVoidPointer' \in Users \cup {None}
  BY TaskFacts DEF EndLocked, At
<1>2. /\ mutexTasks' \in {0, 1}
      /\ \/ mutexTasks' = mutexTasks
         \/ mutexTasks = 0 /\ mutexTasks' = 1 /\ o.at \in Sending
      /\ mutexTasks' = mutexTasks \/ controller[b].on = t
  BY RegionFacts DEF EndLocked
<1>3. /\ Local(r2, u2, o, mutexTasks')
      /\ Owns(tcb[t], user[t]) /\ ~Waits(tcb[t], user[t]) /\ ~Owns(r2, u2) /\ ~Waits(r2, u2)
  BY <1>1, <1>2, LocalEnd
<1>4. QueueOK /\ OwnerOK
  BY DEF DInv
<1>5. user' = [user EXCEPT ![t] = u2]
  BY TaskFacts DEF EndLocked, GoTo
<1>6. CASE waitQueue = <<>>
  <2>1. tcb' = [tcb EXCEPT ![t] = r2]
    BY <1>6, TaskFacts DEF EndLocked
  <2> HIDE DEF r2, u2
  <2>2. Elsewhere({t}) /\ tcb'[t] = r2 /\ user'[t] = u2
    BY <1>5, <2>1, ElsewhereExcept
  <2>3. Own(t) /\ ~Wait(t) /\ ~Own(t)' /\ ~Wait(t)'
    BY <1>3, <2>2 DEF Own, Wait
  <2>4. QueueOK' /\ OwnerOK'
    BY <1>1, <1>4, <1>6, <2>2, <2>3, PassStep
  <2> QED
    BY <1>1, <1>2, <1>3, <2>2, <2>4, UserStep
<1>7. CASE waitQueue # <<>>
  <2>1. PICK h : h = Head(waitQueue)
    OBVIOUS
  <2>2. h \in QueueSet(waitQueue)
    BY <1>4, <1>7, <2>1, TailProperties DEF QueueOK
  <2>3. h \in Users /\ Wait(h)
    BY <1>4, <2>2 DEF QueueOK
  <2>4. h # t
    BY <1>3, <2>3 DEF Wait
  <2> DEFINE rh == Unblocked(tcb[h])
  <2>5. tcb' = [[tcb EXCEPT ![t] = r2] EXCEPT ![h] = rh]
    BY <1>7, <2>1, <2>3, <2>4, TaskFacts DEF EndLocked
  <2>6. /\ Local(rh, user[h], Op(b, h), mutexTasks)
        /\ Owns(rh, user[h]) /\ ~Waits(rh, user[h])
    <3>1. Local(tcb[h], user[h], Op(b, h), mutexTasks)
      BY <2>3, TaskFacts
    <3>2. user[h].at = "queued" /\ tcb[h].semaBlock = 0 /\ tcb[h].taskState = "BLOCKED"
      BY <2>3 DEF Wait, Waits
    <3> QED
      BY <3>1, <3>2, LocalUnblocked
  <2> HIDE DEF r2, u2, rh
  <2>7. tcb'[t] = r2 /\ tcb'[h] = rh /\ user'[t] = u2 /\ user'[h] = user[h]
    BY <1>5, <2>3, <2>4, <2>5, TaskFacts
  <2>8. Elsewhere({t, h})
    BY <1>5, <2>3, <2>5, TaskFacts DEF Elsewhere
  <2>9. QueueOK' /\ OwnerOK'
    <3>1. Own(t) /\ ~Wait(t) /\ ~Own(t)' /\ ~Wait(t)' /\ Own(h)' /\ ~Wait(h)'
      BY <1>3, <2>6, <2>7 DEF Own, Wait
    <3> QED
      BY <1>1, <1>4, <1>7, <2>1, <2>8, <3>1, PassStep
  <2>10. OpsElsewhere(b, t) /\ \A s \in Users : Op(b, s)' = Op(b, s)
    <3>1. OpsElsewhere(b, t)
      BY <1>1, <1>2, UserOps DEF DInv, Typed
    <3> QED
      BY <1>1, <3>1 DEF Op
  <2>11. Local(rh, user[h], Op(b, h), mutexTasks')
    <3>1. mutexTasks' = mutexTasks \/ Op(b, h) = Idle
      BY <2>3, <2>4, <2>10 DEF OpsElsewhere
    <3> QED
      BY <1>2, <2>6, <3>1, LocalIdle
  <2>12. ASSUME NEW s \in Users
         PROVE  Local(tcb'[s], user'[s], Op(b, s)', mutexTasks')
    <3>1. CASE s = t
      BY <1>3, <2>7, <2>10, <3>1
    <3>2. CASE s = h
      BY <2>7, <2>10, <2>11, <3>2
    <3>3. CASE s # t /\ s # h
      <4>1. tcb'[s] = tcb[s] /\ user'[s] = user[s]
        BY <2>8, <3>3 DEF Elsewhere
      <4>2. mutexTasks' = mutexTasks \/ Op(b, s) = Idle
        BY <2>10, <3>3 DEF OpsElsewhere
      <4>3. Local(tcb[s], user[s], Op(b, s), mutexTasks)
        BY TaskFacts
      <4>4. Local(tcb[s], user[s], Op(b, s), mutexTasks')
        BY <1>2, <4>2, <4>3, LocalIdle
      <4> QED
        BY <2>10, <4>1, <4>4
    <3> QED
      BY <3>1, <3>2, <3>3
  <2>13. Tasks(b)'
    BY <2>12 DEF Tasks
  <2>14. Typed(b)'
    BY <1>1, <1>2, <2>8 DEF DInv, Typed, Elsewhere
  <2> QED
    BY <2>9, <2>13, <2>14 DEF DInv
<1> QED
  BY <1>6, <1>7

-----------------------------------------------------------------------------
\* A step of the controller that begins, goes on with or ends a statement on t.
LEMMA OperatorStep ==
    ASSUME NEW b, DInv(b), NEW t \in Users, NEW r2, NEW o2,
           tcb' = [tcb EXCEPT ![t] = r2], UNCHANGED user,
           controller' = [controller EXCEPT ![b] = o2],
           controller[b].on \in {None, t}, OpOK(o2), o2.on \in {None, t},
           UNCHANGED <<mutexUserDation, rstVoidPointer>>,
           Local(r2, user[t], IF o2.on = t THEN o2 ELSE Idle, mutexTasks'),
           Elsewhere({t}) => QueueOK' /\ OwnerOK'
    PROVE  DInv(b)'
<1>1. user' = [user EXCEPT ![t] = user[t]]
  BY TaskFacts
<1>2. Elsewhere({t}) /\ tcb'[t] = r2 /\ user'[t] = user[t]
  BY <1>1, ElsewhereExcept
<1>3. /\ OpsElsewhere(b, t)
      /\ Op(b, t)' = IF o2.on = t THEN o2 ELSE Idle
      /\ controller' = [c \in {b} |-> controller'[c]] /\ OpOK(controller'[b])
  BY ControllerOps DEF DInv, Typed
<1>4. Local(tcb'[t], user'[t], Op(b, t)', mutexTasks')
  BY <1>2, <1>3
<1>5. Tasks(b)'
  BY <1>2, <1>3, <1>4, TaskStep DEF DInv
<1>6. mutexTasks' \in {0, 1}
  BY <1>4 DEF Local
<1>7. Typed(b)'
  BY <1>2, <1>3, <1>6 DEF DInv, Typed, Elsewhere
<1> QED
  BY <1>2, <1>5, <1>7 DEF DInv

LEMMA QuietOperatorStep ==
    ASSUME NEW b, DInv(b), NEW t \in Users, NEW r2, NEW o2,
           tcb' = [tcb EXCEPT ![t] = r2], UNCHANGED user,
           controller' = [controller EXCEPT ![b] = o2],
           controller[b].on \in {None, t}, OpOK(o2), o2.on \in {None, t},
           UNCHANGED dationVars,
           Local(r2, user[t], IF o2.on = t THEN o2 ELSE Idle, mutexTasks'),
           Quiet(tcb[t], user[t], r2, user[t])
    PROVE  DInv(b)'
<1>1. UNCHANGED <<mutexUserDation, rstVoidPointer, isBusy, waitQueue>>
  BY DEF dationVars
<1>2. tcb'[t] = r2 /\ user'[t] = user[t]
  BY TaskFacts
<1>3. ASSUME Elsewhere({t}) PROVE QueueOK' /\ OwnerOK'
  BY <1>1, <1>2, <1>3, QuietStep DEF DInv
<1> QED
  BY <1>1, <1>3, OperatorStep

\* A controller that executes a statement: nothing is executed on t yet.
LEMMA ExecutesFacts ==
    ASSUME NEW b, DInv(b), NEW t \in Users, Executes(b, t)
    PROVE  /\ Local(tcb[t], user[t], Idle, mutexTasks) /\ Op(b, t) = Idle
           /\ controller[b].on = None /\ mutexTasks = 1
<1>1. controller[b] = Idle
  BY DEF Executes, DInv, Typed, OpOK
<1>2. controller[b].on = None /\ Op(b, t) = Idle
  BY <1>1, IdleOK DEF Op
<1>3. mutexTasks = 1
  BY TaskFacts DEF Executes
<1> QED
  BY <1>2, <1>3, TaskFacts

\* A new statement on t.
LEMMA AskStep ==
    ASSUME NEW b, DInv(b), NEW t \in Users, Executes(b, t), NEW r2, NEW place, NEW k,
           tcb' = [tcb EXCEPT ![t] = r2], WaitFor(b, place, t, k), UNCHANGED <<dationVars, user>>,
           Local(r2, user[t], [at |-> place, on |-> t, acks |-> k], mutexTasks'),
           Quiet(tcb[t], user[t], r2, user[t])
    PROVE  DInv(b)'
<1> DEFINE o2 == [at |-> place, on |-> t, acks |-> k]
<1>1. controller' = [controller EXCEPT ![b] = o2] /\ o2.on = t
  BY DEF WaitFor
<1> HIDE DEF o2
<1>2. OpOK(o2) /\ Local(r2, user[t], o2, mutexTasks')
  BY DEF Local, o2
<1>3. controller[b].on = None
  BY ExecutesFacts
<1> QED
  BY <1>1, <1>2, <1>3, QuietOperatorStep

LEMMA ActivateStep ==
    ASSUME NEW b, DInv(b), NEW t \in Users, Activate(b, t)
    PROVE  DInv(b)'
<1> DEFINE r2 == [tcb[t] EXCEPT
                    !.asyncTerminateRequested = FALSE, !.asyncSuspendRequested = FALSE,
                    !.suspendWaiters = 0, !.continueWaiters = 0, !.terminateWaiters = 0,
                    !.taskState = "RUNNING"]
<1>1. /\ Local(tcb[t], user[t], Idle, mutexTasks) /\ Op(b, t) = Idle
      /\ tcb[t].taskState = "TERMINATED" /\ UNCHANGED <<mutexTasks, dationVars, controller>>
  BY ExecutesFacts DEF Activate
<1>2. tcb' = [tcb EXCEPT ![t] = r2] /\ user' = [user EXCEPT ![t] = Started]
  BY DEF Activate
<1>3. Local(r2, Started, Idle, mutexTasks) /\ Quiet(tcb[t], user[t], r2, Started)
  BY <1>1, LocalActivate
<1> HIDE DEF r2
<1> QED
  BY <1>1, <1>2, <1>3, ReplacedStep

LEMMA AskSuspendStep ==
    ASSUME NEW b, DInv(b), NEW t \in Users, SuspendRunning(b, t) \/ SuspendInIO(b, t)
    PROVE  DInv(b)'
<1>1. CASE SuspendRunning(b, t)
  <2> DEFINE r2 == [tcb[t] EXCEPT !.asyncSuspendRequested = TRUE, !.suspendWaiters = @ + 1]
  <2>1. /\ Executes(b, t) /\ WaitFor(b, "suspending", t, 1)
        /\ UNCHANGED <<mutexTasks, dationVars, user>>
    BY <1>1 DEF SuspendRunning
  <2>2. Local(tcb[t], user[t], Idle, mutexTasks) /\ mutexTasks \in {0, 1}
    BY <2>1, ExecutesFacts
  <2>3. tcb' = [tcb EXCEPT ![t] = r2]
    BY <1>1, TaskFacts DEF SuspendRunning
  <2>4. /\ Local(r2, user[t], [at |-> "suspending", on |-> t, acks |-> 1], mutexTasks)
        /\ Quiet(tcb[t], user[t], r2, user[t])
    BY <2>2, LocalAskSuspend
  <2> HIDE DEF r2
  <2> QED
    BY <2>1, <2>3, <2>4, AskStep
<1>2. CASE SuspendInIO(b, t)
  <2> DEFINE r2 == [tcb[t] EXCEPT !.asyncSuspendRequested = TRUE, !.suspendWaiters = @ + 2]
  <2>1. /\ Executes(b, t) /\ WaitFor(b, "cancelSuspend", t, 2) /\ InIO(tcb[t])
        /\ UNCHANGED <<dationVars, user>> /\ mutexTasks' = mutexTasks - 1
    BY <1>2 DEF SuspendInIO
  <2>2. Local(tcb[t], user[t], Idle, mutexTasks) /\ mutexTasks' = 0
    BY <2>1, ExecutesFacts
  <2>3. tcb' = [tcb EXCEPT ![t] = r2]
    BY <1>2, TaskFacts DEF SuspendInIO
  <2>4. /\ Local(r2, user[t], [at |-> "cancelSuspend", on |-> t, acks |-> 2], 0)
        /\ Quiet(tcb[t], user[t], r2, user[t])
    BY <2>1, <2>2, LocalAskSuspend
  <2> HIDE DEF r2
  <2> QED
    BY <2>1, <2>2, <2>3, <2>4, AskStep
<1> QED
  BY <1>1, <1>2

LEMMA AskTerminationStep ==
    ASSUME NEW b, DInv(b), NEW t \in Users, TerminateRunning(b, t) \/ TerminateInIO(b, t)
    PROVE  DInv(b)'
<1> DEFINE r2 == AskTermination(tcb[t], 1)
<1>1. /\ Executes(b, t) /\ UNCHANGED <<dationVars, user>>
      /\ tcb' = [tcb EXCEPT ![t] = r2] /\ tcb[t].taskState # "TERMINATED"
  BY DEF TerminateRunning, TerminateInIO, InIO
<1>2. Local(tcb[t], user[t], Idle, mutexTasks) /\ mutexTasks = 1
  BY <1>1, ExecutesFacts
<1>3. user[t].at # "none"
  BY <1>1, <1>2 DEF Local, PlaceOK
<1>4. CASE TerminateRunning(b, t)
  <2>1. mutexTasks' = mutexTasks /\ WaitFor(b, "terminating", t, 1)
    BY <1>4 DEF TerminateRunning
  <2>2. /\ Local(r2, user[t], [at |-> "terminating", on |-> t, acks |-> 1], mutexTasks')
        /\ Quiet(tcb[t], user[t], r2, user[t])
    BY <1>2, <1>3, <2>1, LocalAskTermination DEF Terminating
  <2> HIDE DEF r2
  <2> QED
    BY <1>1, <2>1, <2>2, AskStep
<1>5. CASE TerminateInIO(b, t)
  <2>1. mutexTasks' = 0 /\ WaitFor(b, "cancelTerminate", t, 1)
    BY <1>2, <1>5 DEF TerminateInIO
  <2>2. /\ Local(r2, user[t], [at |-> "cancelTerminate", on |-> t, acks |-> 1], mutexTasks')
        /\ Quiet(tcb[t], user[t], r2, user[t])
    BY <1>2, <1>3, <2>1, LocalAskTermination DEF Terminating
  <2> HIDE DEF r2
  <2> QED
    BY <1>1, <2>1, <2>2, AskStep
<1> QED
  BY <1>4, <1>5

LEMMA AskContinueStep ==
    ASSUME NEW b, DInv(b), NEW t \in Users, ContinueSuspended(b, t)
    PROVE  DInv(b)'
<1> DEFINE r2 == [tcb[t] EXCEPT !.continueWaiters = @ + 1, !.pipeResume = Append(@, "c")]
<1>1. /\ Executes(b, t) /\ WaitFor(b, "continuing", t, 1)
      /\ UNCHANGED <<mutexTasks, dationVars, user>>
  BY DEF ContinueSuspended
<1>2. Local(tcb[t], user[t], Idle, mutexTasks)
  BY <1>1, ExecutesFacts
<1>3. user[t].at = "suspended"
  BY <1>2, IdleFacts DEF ContinueSuspended
<1>4. tcb' = [tcb EXCEPT ![t] = r2]
  BY TaskFacts DEF ContinueSuspended
<1>5. /\ Local(r2, user[t], [at |-> "continuing", on |-> t, acks |-> 1], mutexTasks)
      /\ Quiet(tcb[t], user[t], r2, user[t])
  BY <1>2, <1>3, LocalAskContinue
<1> HIDE DEF r2
<1> QED
  BY <1>1, <1>4, <1>5, AskStep

LEMMA TerminateSuspendedStep ==
    ASSUME NEW b, DInv(b), NEW t \in Users, TerminateSuspended(b, t)
    PROVE  DInv(b)'
<1>1. /\ Executes(b, t) /\ UNCHANGED <<mutexTasks, dationVars, user>>
      /\ TerminateAnywhere \/ Orderly(t)
  BY DEF TerminateSuspended
<1>2. Local(tcb[t], user[t], Idle, mutexTasks)
  BY <1>1, ExecutesFacts
<1>3. CASE /\ tcb[t].taskState = "SUSPENDED"
           /\ tcb' = [tcb EXCEPT ![t] = [AskTermination(tcb[t], 2) EXCEPT !.pipeResume = Append(@, "t")]]
           /\ WaitFor(b, "terminating", t, 2)
  <2> DEFINE r2 == [AskTermination(tcb[t], 2) EXCEPT !.pipeResume = Append(@, "t")]
  <2>1. user[t].at = "suspended"
    BY <1>2, <1>3, IdleFacts
  <2>2. TerminateAnywhere \/ user[t].return \in {"stmt", "body", "end"}
    BY <1>1, <1>3 DEF Orderly
  <2>3. /\ Local(r2, user[t], [at |-> "terminating", on |-> t, acks |-> 2], mutexTasks)
        /\ Quiet(tcb[t], user[t], r2, user[t])
    BY <1>2, <2>1, <2>2, LocalTerminateSuspended
  <2>4. tcb' = [tcb EXCEPT ![t] = r2] /\ WaitFor(b, "terminating", t, 2)
    BY <1>3
  <2> HIDE DEF r2
  <2> QED
    BY <1>1, <2>3, <2>4, AskStep
<1>4. CASE /\ tcb[t].taskState = "SUSPENDED_BLOCKED" /\ tcb[t].reason = "IO"
           /\ tcb' = [tcb EXCEPT ![t] = [AskTermination(tcb[t], 1) EXCEPT !.pipeResume = Append(@, "c")]]
           /\ WaitFor(b, "terminating", t, 1)
  <2> DEFINE r2 == [AskTermination(tcb[t], 1) EXCEPT !.pipeResume = Append(@, "c")]
  <2>1. user[t].at = "suspended"
    BY <1>2, <1>4, IdleFacts
  <2>2. /\ Local(r2, user[t], [at |-> "terminating", on |-> t, acks |-> 1], mutexTasks)
        /\ Quiet(tcb[t], user[t], r2, user[t])
    BY <1>2, <2>1, LocalTerminateSuspended
  <2>3. tcb' = [tcb EXCEPT ![t] = r2] /\ WaitFor(b, "terminating", t, 1)
    BY <1>4
  <2> HIDE DEF r2
  <2> QED
    BY <1>1, <2>2, <2>3, AskStep
<1> QED
  BY <1>3, <1>4 DEF TerminateSuspended

LEMMA SuspendQueuedStep ==
    ASSUME NEW b, DInv(b), NEW t \in Users, SuspendQueued(b, t)
    PROVE  DInv(b)'
<1> DEFINE r2 == [tcb[t] EXCEPT !.taskState = "SUSPENDED_BLOCKED"]
<1>1. /\ Executes(b, t) /\ waitQueue' = Remove(waitQueue, t)
      /\ UNCHANGED <<mutexTasks, mutexUserDation, isBusy, rstVoidPointer, user, controller>>
      /\ tcb[t].taskState = "BLOCKED" /\ tcb[t].reason = "IOWAITQUEUE"
  BY DEF SuspendQueued
<1>2. Local(tcb[t], user[t], Idle, mutexTasks) /\ Op(b, t) = Idle
  BY <1>1, ExecutesFacts
<1>3. user[t].at = "queued" /\ tcb[t].semaBlock = 0
  BY <1>1, <1>2, IdleFacts
<1>4. /\ Local(r2, user[t], Idle, mutexTasks)
      /\ ~Owns(tcb[t], user[t]) /\ ~Owns(r2, user[t]) /\ ~Waits(r2, user[t])
  BY <1>2, <1>3, LocalQueued
<1>5. tcb' = [tcb EXCEPT ![t] = r2] /\ user' = [user EXCEPT ![t] = user[t]]
  BY <1>1, TaskFacts DEF SuspendQueued
<1> HIDE DEF r2
<1>6. Elsewhere({t}) /\ tcb'[t] = r2 /\ user'[t] = user[t]
  BY <1>5, ElsewhereExcept
<1>7. Wait(t) /\ ~Wait(t)' /\ ~Own(t) /\ ~Own(t)'
  BY <1>1, <1>3, <1>4, <1>6 DEF Own, Wait, Waits
<1>8. QueueOK' /\ OwnerOK'
  BY <1>1, <1>6, <1>7, QueueStep DEF DInv
<1>9. mutexUserDation' \in Users \cup {None} /\ rstVoidPointer' \in Users \cup {None}
  BY <1>1, TaskFacts
<1> QED
  BY <1>1, <1>2, <1>4, <1>6, <1>8, <1>9, UserStep

LEMMA RestartStep ==
    ASSUME NEW b, DInv(b), NEW t \in Users, Restart(b, t)
    PROVE  DInv(b)'
<1> DEFINE q == [tcb[t] EXCEPT !.taskState = "BLOCKED"]
<1>1. /\ Executes(b, t)
      /\ UNCHANGED <<mutexTasks, mutexUserDation, rstVoidPointer, user, controller>>
      /\ tcb[t].taskState = "SUSPENDED_BLOCKED" /\ tcb[t].reason = "IOWAITQUEUE"
      /\ isBusy' = TRUE
      /\ waitQueue' = IF isBusy THEN Insert(waitQueue, t, Prio) ELSE waitQueue
  BY DEF Restart
<1>2. Local(tcb[t], user[t], Idle, mutexTasks) /\ Op(b, t) = Idle
  BY <1>1, ExecutesFacts
<1>3. user[t].at = "queued" /\ tcb[t].semaBlock = 0
  BY <1>1, <1>2, IdleFacts
<1>4. user' = [user EXCEPT ![t] = user[t]]
  BY <1>1, TaskFacts
<1>5. mutexUserDation' \in Users \cup {None} /\ rstVoidPointer' \in Users \cup {None}
  BY <1>1, TaskFacts
<1>6. isBusy \in BOOLEAN /\ QueueOK /\ OwnerOK
  BY DEF DInv, OwnerOK
<1>7. ~Wait(t)
  BY <1>1 DEF Wait, Waits
<1>8. CASE isBusy
  <2>1. tcb' = [tcb EXCEPT ![t] = q]
    BY <1>8 DEF Restart
  <2>2. /\ Local(q, user[t], Idle, mutexTasks)
        /\ ~Owns(tcb[t], user[t]) /\ ~Owns(q, user[t]) /\ Waits(q, user[t])
    BY <1>2, <1>3, LocalQueued
  <2> HIDE DEF q
  <2>3. Elsewhere({t}) /\ tcb'[t] = q /\ user'[t] = user[t]
    BY <1>4, <2>1, ElsewhereExcept
  <2>4. Wait(t)' /\ ~Own(t) /\ ~Own(t)'
    BY <2>2, <2>3 DEF Own, Wait
  <2>5. isBusy' = isBusy /\ waitQueue' = Insert(waitQueue, t, Prio)
    BY <1>1, <1>6, <1>8
  <2>6. QueueOK' /\ OwnerOK'
    BY <1>6, <1>7, <2>3, <2>4, <2>5, QueueStep
  <2> QED
    BY <1>1, <1>2, <1>5, <2>2, <2>3, <2>6, UserStep
<1>9. CASE ~isBusy
  <2> DEFINE r2 == Unblocked(q)
  <2>1. tcb' = [tcb EXCEPT ![t] = r2]
    BY <1>9 DEF Restart
  <2>2. Local(r2, user[t], Idle, mutexTasks) /\ Owns(r2, user[t]) /\ ~Waits(r2, user[t])
    BY <1>2, <1>3, LocalUnblocked
  <2> HIDE DEF r2
  <2>3. Elsewhere({t}) /\ tcb'[t] = r2 /\ user'[t] = user[t]
    BY <1>4, <2>1, ElsewhereExcept
  <2>4. ~Wait(t)' /\ Own(t)'
    BY <2>2, <2>3 DEF Own, Wait
  <2>5. isBusy = FALSE /\ waitQueue' = waitQueue
    BY <1>1, <1>6, <1>9
  <2>6. QueueOK' /\ OwnerOK'
    BY <1>1, <1>6, <1>7, <2>3, <2>4, <2>5, TakeStep
  <2> QED
    BY <1>1, <1>2, <1>5, <2>2, <2>3, <2>6, UserStep
<1> QED
  BY <1>8, <1>9

LEMMA RequeueInv ==
    ASSUME NEW b, DInv(b), NEW t \in Users, Requeue(b, t)
    PROVE  DInv(b)'
<1>1. /\ Executes(b, t) /\ waitQueue' = Insert(Remove(waitQueue, t), t, Prio)
      /\ UNCHANGED <<mutexTasks, mutexUserDation, isBusy, rstVoidPointer, tcb, user, controller>>
      /\ tcb[t].taskState = "BLOCKED" /\ tcb[t].reason = "IOWAITQUEUE"
  BY DEF Requeue
<1>2. Local(tcb[t], user[t], Idle, mutexTasks)
  BY <1>1, ExecutesFacts
<1>3. Wait(t)
  BY <1>1, <1>2, IdleFacts DEF Wait, Waits
<1>4. QueueOK'
  BY <1>1, <1>3, RequeueStep DEF DInv
<1>5. OwnerOK' /\ Typed(b)' /\ Tasks(b)'
  BY <1>1 DEF DInv, OwnerOK, Own, Typed, Tasks, Op
<1> QED
  BY <1>4, <1>5 DEF DInv

LEMMA TerminateQueuedStep ==
    ASSUME NEW b, DInv(b), NEW t \in Users, TerminateQueued(b, t)
    PROVE  DInv(b)'
<1> DEFINE r2 == [AskTermination(tcb[t], 1) EXCEPT !.semaBlock = @ + 1]
           o2 == [at |-> "terminating", on |-> t, acks |-> 1]
<1>1. /\ Executes(b, t) /\ waitQueue' = Remove(waitQueue, t)
      /\ UNCHANGED <<mutexTasks, mutexUserDation, isBusy, rstVoidPointer, user>>
      /\ tcb[t].taskState = "BLOCKED" /\ tcb[t].reason = "IOWAITQUEUE"
      /\ controller' = [controller EXCEPT ![b] = o2] /\ tcb' = [tcb EXCEPT ![t] = r2]
  BY DEF TerminateQueued, WaitFor
<1>2. Local(tcb[t], user[t], Idle, mutexTasks) /\ controller[b].on = None
  BY <1>1, ExecutesFacts
<1>3. Waits(tcb[t], user[t])
  BY <1>1, <1>2, IdleFacts DEF Waits
<1>4. /\ Local(r2, user[t], o2, mutexTasks)
      /\ ~Owns(tcb[t], user[t]) /\ ~Owns(r2, user[t]) /\ ~Waits(r2, user[t])
  BY <1>2, <1>3, LocalTerminateQueued
<1>5. o2.on = t /\ OpOK(o2)
  BY <1>4 DEF Local
<1> HIDE DEF r2, o2
<1>6. ASSUME Elsewhere({t}) PROVE QueueOK' /\ OwnerOK'
  <2>1. tcb'[t] = r2 /\ user'[t] = user[t]
    BY <1>1, TaskFacts
  <2>2. Wait(t) /\ ~Wait(t)' /\ ~Own(t) /\ ~Own(t)'
    BY <1>3, <1>4, <2>1 DEF Own, Wait
  <2> QED
    BY <1>1, <1>6, <2>2, QueueStep DEF DInv
<1> QED
  BY <1>1, <1>2, <1>4, <1>5, <1>6, OperatorStep

\* A statement that is being executed.
LEMMA ExecutedFacts ==
    ASSUME NEW b, DInv(b), controller[b].at # "idle"
    PROVE  /\ controller[b].on \in Users
           /\ Op(b, controller[b].on) = controller[b]
           /\ Local(tcb[controller[b].on], user[controller[b].on], controller[b], mutexTasks)
<1>1. controller[b].on \in Users
  BY DEF DInv, Typed, OpOK
<1>2. Op(b, controller[b].on) = controller[b]
  BY DEF Op
<1> QED
  BY <1>1, <1>2 DEF DInv, Tasks

LEMMA QuietItself == \A r, u : Quiet(r, u, r, u)
  BY DEF Quiet

LEMMA CancellingStep ==
    ASSUME NEW b, DInv(b), Cancelling(b)
    PROVE  DInv(b)'
<1>1. PICK t : t = controller[b].on
  OBVIOUS
<1>2. PICK place :
        /\ controller' = [controller EXCEPT ![b].at = place]
        /\ \/ /\ controller[b].at = "cancelSuspend" /\ ~tcb[t].asyncSuspendRequested
              /\ place = "suspendingIO"
           \/ /\ controller[b].at = "cancelTerminate" /\ ~tcb[t].asyncTerminateRequested
              /\ place = "terminating"
  BY <1>1 DEF Cancelling
<1>3. t \in Users /\ Local(tcb[t], user[t], controller[b], mutexTasks)
  BY <1>1, <1>2, ExecutedFacts
<1>4. tcb[t] \in TCB /\ controller[b] \in Controller
  BY <1>3 DEF Local, OpOK
<1>5. tcb[t].asyncTerminateRequested \in BOOLEAN /\ tcb[t].asyncSuspendRequested \in BOOLEAN
  BY <1>4 DEF TCB
<1>6. \/ /\ controller[b].at = "cancelSuspend" /\ tcb[t].asyncSuspendRequested = FALSE
         /\ place = "suspendingIO"
      \/ /\ controller[b].at = "cancelTerminate" /\ tcb[t].asyncTerminateRequested = FALSE
         /\ place = "terminating"
  BY <1>2, <1>5
<1> DEFINE o2 == [controller[b] EXCEPT !.at = place]
<1>7. Local(tcb[t], user[t], o2, mutexTasks)
  BY <1>3, <1>6, LocalCancelling
<1>8. o2.on = t /\ controller' = [controller EXCEPT ![b] = o2]
  BY <1>1, <1>2, <1>4 DEF Controller, DInv, Typed
<1> HIDE DEF o2
<1>9. OpOK(o2)
  BY <1>7 DEF Local
<1>10. /\ tcb' = [tcb EXCEPT ![t] = tcb[t]] /\ mutexTasks' = mutexTasks
       /\ UNCHANGED <<dationVars, user>>
  BY <1>3, TaskFacts DEF Cancelling
<1>11. Quiet(tcb[t], user[t], tcb[t], user[t])
  BY QuietItself
<1> QED
  BY <1>1, <1>3, <1>7, <1>8, <1>9, <1>10, <1>11, QuietOperatorStep

\* A statement returns.
LEMMA ReturnStep ==
    ASSUME NEW b, DInv(b), NEW t \in Users, t = controller[b].on, NEW r2,
           tcb' = [tcb EXCEPT ![t] = r2], Return(b),
           Local(r2, user[t], Idle, mutexTasks'), Quiet(tcb[t], user[t], r2, user[t])
    PROVE  DInv(b)'
<1>1. controller' = [controller EXCEPT ![b] = Idle] /\ UNCHANGED <<dationVars, user>>
  BY DEF Return
<1> QED
  BY <1>1, IdleOK, QuietOperatorStep

LEMMA DoneStep ==
    ASSUME NEW b, DInv(b),
           SuspendDone(b) \/ SuspendIODone(b) \/ ContinueDone(b) \/ TerminateDone(b)
    PROVE  DInv(b)'
<1>1. PICK t : t = controller[b].on
  OBVIOUS
<1>2. PICK o : o = controller[b]
  OBVIOUS
<1>3. o.at \in {"suspending", "suspendingIO", "continuing", "terminating"} /\ Return(b)
  BY <1>2 DEF SuspendDone, SuspendIODone, ContinueDone, TerminateDone, Done
<1>4. t \in Users /\ Local(tcb[t], user[t], o, mutexTasks)
  BY <1>1, <1>2, <1>3, ExecutedFacts
<1>5. CASE SuspendDone(b)
  <2> DEFINE r2 == [tcb[t] EXCEPT !.suspendDone = @ - o.acks]
  <2>1. o.at = "suspending" /\ tcb[t].suspendDone >= o.acks /\ mutexTasks' = mutexTasks
    BY <1>1, <1>2, <1>5 DEF SuspendDone, Done
  <2>2. tcb' = [tcb EXCEPT ![t] = r2]
    BY <1>1, <1>2, <1>4, <1>5, TaskFacts DEF SuspendDone
  <2>3. Local(r2, user[t], Idle, mutexTasks) /\ Quiet(tcb[t], user[t], r2, user[t])
    BY <1>4, <2>1, LocalSuspendDone
  <2> HIDE DEF r2
  <2> QED
    BY <1>1, <1>3, <1>4, <2>1, <2>2, <2>3, ReturnStep
<1>6. CASE SuspendIODone(b)
  <2> DEFINE r2 == [tcb[t] EXCEPT !.suspendDone = @ - o.acks, !.taskState = "SUSPENDED_BLOCKED"]
  <2>1. o.at = "suspendingIO" /\ tcb[t].suspendDone >= o.acks /\ mutexTasks' = mutexTasks
    BY <1>1, <1>2, <1>6 DEF SuspendIODone, Done
  <2>2. tcb' = [tcb EXCEPT ![t] = r2]
    BY <1>1, <1>2, <1>4, <1>6, TaskFacts DEF SuspendIODone
  <2>3. Local(r2, user[t], Idle, mutexTasks) /\ Quiet(tcb[t], user[t], r2, user[t])
    BY <1>4, <2>1, LocalSuspendDone
  <2> HIDE DEF r2
  <2> QED
    BY <1>1, <1>3, <1>4, <2>1, <2>2, <2>3, ReturnStep
<1>7. CASE ContinueDone(b)
  <2> DEFINE r2 == [tcb[t] EXCEPT !.continueDone = @ - o.acks]
  <2>1. o.at = "continuing" /\ tcb[t].continueDone >= o.acks /\ mutexTasks' = mutexTasks + 1
    BY <1>1, <1>2, <1>7 DEF ContinueDone, Done
  <2>2. tcb' = [tcb EXCEPT ![t] = r2]
    BY <1>1, <1>2, <1>4, <1>7, TaskFacts DEF ContinueDone
  <2>3. mutexTasks = 0 /\ Local(r2, user[t], Idle, 1) /\ Quiet(tcb[t], user[t], r2, user[t])
    BY <1>4, <2>1, LocalContinueDone
  <2>4. mutexTasks' = 1
    BY <2>1, <2>3
  <2> HIDE DEF r2
  <2> QED
    BY <1>1, <1>3, <1>4, <2>2, <2>3, <2>4, ReturnStep
<1>8. CASE TerminateDone(b)
  <2> DEFINE r2 == [tcb[t] EXCEPT !.terminateDone = @ - o.acks, !.taskState = "TERMINATED"]
  <2>1. o.at = "terminating" /\ tcb[t].terminateDone >= o.acks /\ mutexTasks' = mutexTasks
    BY <1>1, <1>2, <1>8 DEF TerminateDone, Done
  <2>2. tcb' = [tcb EXCEPT ![t] = r2]
    BY <1>1, <1>2, <1>4, <1>8, TaskFacts DEF TerminateDone
  <2>3. Local(r2, user[t], Idle, mutexTasks) /\ Quiet(tcb[t], user[t], r2, user[t])
    BY <1>4, <2>1, LocalTerminateDone
  <2> HIDE DEF r2
  <2> QED
    BY <1>1, <1>3, <1>4, <2>1, <2>2, <2>3, ReturnStep
<1> QED
  BY <1>5, <1>6, <1>7, <1>8

-----------------------------------------------------------------------------
LEMMA DationsInit ==
    ASSUME NEW b, Controllers = {b}, Init
    PROVE  DInv(b)
<1> DEFINE r == [taskState |-> "RUNNING", reason |-> "IO",
                 asyncTerminateRequested |-> FALSE, asyncSuspendRequested |-> FALSE,
                 suspendWaiters |-> 0, continueWaiters |-> 0, terminateWaiters |-> 0,
                 suspendDone |-> 0, continueDone |-> 0, terminateDone |-> 0,
                 semaBlock |-> 0, pipeResume |-> <<>>]
<1>1. /\ tcb = [t \in Users |-> r] /\ user = [t \in Users |-> Started]
      /\ controller = [c \in {b} |-> Idle] /\ mutexTasks = 1 /\ mutexUserDation = None
      /\ isBusy = FALSE /\ waitQueue = <<>> /\ rstVoidPointer = None
  BY DEF Init
<1>2. <<>> \in Seq({"c", "t"})
  OBVIOUS
<1>3. /\ r \in TCB /\ r.taskState = "RUNNING" /\ r.reason = "IO"
      /\ r.asyncTerminateRequested = FALSE /\ r.asyncSuspendRequested = FALSE
      /\ r.continueWaiters = 0 /\ r.continueDone = 0
      /\ r.terminateWaiters = 0 /\ r.terminateDone = 0
      /\ r.semaBlock = 0 /\ r.pipeResume = <<>>
  BY <1>2 DEF TCB
<1>4. Started \in User /\ Started.at = "body"
  BY DEF Started, User
<1> HIDE DEF r
<1>5. Local(r, Started, Idle, 1)
  <2>1. PlaceOK(r, Started, Idle)
    BY <1>3, <1>4, IdleOK DEF PlaceOK, Outside, Using
  <2>2. RequestOK(r, Started, Idle)
    BY <1>3, <1>4, IdleOK DEF RequestOK, Terminating
  <2>3. PipeOK(r, Started, Idle) /\ LockOK(r, Started, Idle, 1)
    BY <1>3, IdleOK DEF PipeOK, LockOK, Sending
  <2> QED
    BY <1>3, <1>4, <2>1, <2>2, <2>3, IdleOK DEF Local
<1>6. ~Owns(r, Started) /\ ~Waits(r, Started)
  BY <1>4 DEF Owns, Waits, Using
<1>7. controller[b] = Idle /\ \A t \in Users : Op(b, t) = Idle
  BY <1>1 DEF Op
<1>8. \A t \in Users : tcb[t] = r /\ user[t] = Started
  BY <1>1
<1>9. Tasks(b)
  BY <1>1, <1>5, <1>7, <1>8 DEF Tasks
<1>10. Typed(b)
  BY <1>1, <1>7, IdleOK DEF Typed
<1>11. \A t \in Users : ~Own(t) /\ ~Wait(t)
  BY <1>6, <1>8 DEF Own, Wait
<1>12. QueueOK
  <2>1. waitQueue \in Seq(Users) /\ DOMAIN waitQueue = {}
    BY <1>1
  <2>2. Distinct(waitQueue) /\ SortedBy(waitQueue, Prio) /\ QueueSet(waitQueue) = {}
    BY <2>1 DEF Distinct, SortedBy, QueueSet
  <2>3. {t \in Users : Wait(t)} = {}
    BY <1>11
  <2> QED
    BY <2>1, <2>2, <2>3 DEF QueueOK
<1>13. OwnerOK
  BY <1>1, <1>11 DEF OwnerOK
<1> QED
  BY <1>9, <1>10, <1>12, <1>13 DEF DInv

LEMMA DationsNext ==
    ASSUME NEW b, Controllers = {b}, DInv(b), [Next]_vars
    PROVE  DInv(b)'
<1>1. ASSUME NEW t \in Users, RuntimeStep(t) PROVE DInv(b)'
  BY <1>1, CallbacksStep, TerminateStep, ResumeStep, BeginLockedStep, WakeUpStep, WalkStep,
     TreatCancelStep, EndLockedStep DEF RuntimeStep
<1>2. ASSUME NEW t \in Users, BodyStep(t) \/ Rst(t) \/ Transferred(t) PROVE DInv(b)'
  BY <1>2, WalkStep, RstStep DEF BodyStep
<1>3. ASSUME ControllerStep(b) PROVE DInv(b)'
  BY <1>3, CancellingStep, DoneStep DEF ControllerStep
<1>4. ASSUME NEW t \in Users, Statement(b, t) PROVE DInv(b)'
  BY <1>4, ActivateStep, AskSuspendStep, SuspendQueuedStep, AskContinueStep, RestartStep,
     RequeueInv, AskTerminationStep, TerminateQueuedStep, TerminateSuspendedStep DEF Statement
<1>5. CASE UNCHANGED vars
  <2>1. UNCHANGED <<mutexTasks, mutexUserDation, isBusy, waitQueue, rstVoidPointer, tcb, user, controller>>
    BY <1>5 DEF vars, dationVars
  <2> QED
    BY <2>1 DEF DInv, Typed, Tasks, QueueOK, OwnerOK, Op, Own, Wait
<1> QED
  BY <1>1, <1>2, <1>3, <1>4, <1>5 DEF Next

LEMMA DationsInvariant ==
    ASSUME NEW CONSTANT b, Controllers = {b}
    PROVE  Spec => []DInv(b)
<1>1. Init => DInv(b)
  BY DationsInit
<1>2. DInv(b) /\ [Next]_vars => DInv(b)'
  BY DationsNext
<1> QED
  BY <1>1, <1>2, PTL DEF Spec

LEMMA DInvTypes ==
    ASSUME NEW b, Controllers = {b}, DInv(b)
    PROVE  TypeOK
<1>1. \A t \in Users : tcb[t] \in TCB /\ user[t] \in User
  BY DEF DInv, Tasks, Local
<1>2. tcb \in [Users -> TCB] /\ user \in [Users -> User]
  BY <1>1 DEF DInv, Typed
<1>3. controller \in [Controllers -> Controller]
  BY DEF DInv, Typed, OpOK
<1> QED
  BY <1>2, <1>3 DEF TypeOK, DInv, Typed, QueueOK, OwnerOK

LEMMA OwnersAre == Inside \cup Called = {t \in Users : Own(t)}
  BY DEF Inside, Called, Own, Owns, Using, At

LEMMA DInvOneUser ==
    ASSUME NEW b, DInv(b)
    PROVE  OneUser
<1> DEFINE S == {t \in Users : Own(t)}
<1>1. Cardinality(S) <= 1
  <2>1. CASE S = {}
    <3>1. Cardinality(S) = 0
      BY <2>1, FS_EmptySet
    <3> QED
      BY <3>1
  <2>2. CASE S # {}
    <3>1. PICK t \in S : TRUE
      BY <2>2
    <3>2. S = {t}
      BY <3>1 DEF DInv, OwnerOK
    <3>3. Cardinality(S) = 1
      BY <3>2, FS_Singleton
    <3> QED
      BY <3>3
  <2> QED
    BY <2>1, <2>2
<1> QED
  BY <1>1, OwnersAre DEF OneUser

LEMMA DInvQueue ==
    ASSUME NEW b, DInv(b)
    PROVE  QueueMatches
  BY DEF DInv, QueueOK, QueueMatches, Wait, Waits, At

LEMMA DInvOwned ==
    ASSUME NEW b, DInv(b), ~TerminateAnywhere
    PROVE  BusyMeansOwned
<1>1. isBusy <=> {t \in Users : Own(t)} # {}
  BY DEF DInv, OwnerOK
<1> QED
  BY <1>1, OwnersAre DEF BusyMeansOwned

-----------------------------------------------------------------------------
\* Type correctness: among others, mutexTasks never gets a second permit, although it is
\* unlocked by tasks that did not lock it (treatCancelIO(), mutexUnlock() after CONTINUE).
THEOREM DationTypes ==
    ASSUME OneController
    PROVE  Spec => []TypeOK
<1>1. PICK b : Controllers = {b}
  BY DEF OneController
<1>2. Spec => []DInv(b)
  BY <1>1, DationsInvariant
<1>3. DInv(b) => TypeOK
  BY <1>1, DInvTypes
<1> QED
  BY <1>2, <1>3, PTL

\* At most one task is between beginSequence() and endSequence(), or was given the dation
\* by an endSequence(), whatever SUSPEND, CONTINUE and TERMINATE do to the tasks.
THEOREM DationOneUser ==
    ASSUME OneController
    PROVE  Spec => []OneUser
<1>1. PICK b : Controllers = {b}
  BY DEF OneController
<1>2. Spec => []DInv(b)
  BY <1>1, DationsInvariant
<1>3. DInv(b) => OneUser
  BY DInvOneUser
<1> QED
  BY <1>2, <1>3, PTL

\* The queue has exactly the tasks that are blocked for the dation, each once, and sorted.
THEOREM DationQueue ==
    ASSUME OneController
    PROVE  Spec => []QueueMatches
<1>1. PICK b : Controllers = {b}
  BY DEF OneController
<1>2. Spec => []DInv(b)
  BY <1>1, DationsInvariant
<1>3. DInv(b) => QueueMatches
  BY DInvQueue
<1> QED
  BY <1>2, <1>3, PTL

\* The dation is not lost: isBusy means that a task has it.  TERMINATE of a suspended task
\* must find it where its state says it is (Orderly); elsewhere the code does lose it.
THEOREM DationNotLost ==
    ASSUME OneController, ~TerminateAnywhere
    PROVE  Spec => []BusyMeansOwned
<1>1. PICK b : Controllers = {b}
  BY DEF OneController
<1>2. Spec => []DInv(b)
  BY <1>1, DationsInvariant
<1>3. DInv(b) => BusyMeansOwned
  BY DInvOwned
<1> QED
  BY <1>2, <1>3, PTL
=============================================================================
