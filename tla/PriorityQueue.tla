--------------------------- MODULE PriorityQueue ---------------------------
(***************************************************************************)
(* The wait queue of runtime/common/PriorityQueue.cc, as a value: a        *)
(* sequence of tasks, the head first.  The C++ class threads the list      *)
(* through TaskCommon::blockParams.next; PriorityQueueLinks models those   *)
(* links and is checked to implement the operators below.                  *)
(*                                                                         *)
(* A small number is a good priority (PEARL priorities are 1..255).        *)
(***************************************************************************)
EXTENDS Integers, Sequences

QueueSet(q) == {q[i] : i \in DOMAIN q}

\* The loop of insert() stops behind element i: at the end of the list, or
\* where the new priority fits between two neighbours.
StopsBehind(q, i, p, prio) ==
    \/ i = Len(q)
    \/ prio[q[i]] <= p /\ p < prio[q[i + 1]]

\* The element behind which insert() puts x, 0 for "in front of the head".
InsertPos(q, x, prio) ==
    IF q = <<>> \/ prio[q[1]] > prio[x]
    THEN 0
    ELSE CHOOSE i \in DOMAIN q :
            /\ StopsBehind(q, i, prio[x], prio)
            /\ \A j \in DOMAIN q : j < i => ~StopsBehind(q, j, prio[x], prio)

InsertBehind(q, k, x) ==
    [j \in 1 .. Len(q) + 1 |-> IF j <= k THEN q[j]
                               ELSE IF j = k + 1 THEN x ELSE q[j - 1]]

\* insert(x): sorted by priority, behind the tasks of equal priority.
Insert(q, x, prio) == InsertBehind(q, InsertPos(q, x, prio), x)

\* remove(x): unlinks x; a task that is not queued leaves the queue alone.
Remove(q, x) ==
    IF x \in QueueSet(q)
    THEN LET k == CHOOSE i \in DOMAIN q : q[i] = x
         IN  [j \in 1 .. Len(q) - 1 |-> IF j < k THEN q[j] ELSE q[j + 1]]
    ELSE q

\* No task is queued twice.
Distinct(q) == \A i, j \in DOMAIN q : q[i] = q[j] => i = j

\* Better priorities stand further in front.
SortedBy(q, prio) == \A i, j \in DOMAIN q : i < j => prio[q[i]] <= prio[q[j]]
=============================================================================
