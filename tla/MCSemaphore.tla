---------------------------- MODULE MCSemaphore ----------------------------
(***************************************************************************)
(* Three tasks, two semaphores, two priorities.  Requests are for one, for *)
(* both and for twice the same semaphore, so that requests overlap, one    *)
(* includes another, and a list may contain duplicates.                    *)
(***************************************************************************)
EXTENDS Semaphore, TLC

CONSTANTS t1, t2, t3, s1, s2

MCTasks == {t1, t2, t3}
MCSemas == {s1, s2}

\* The bag with n times s1 and m times s2.
List(n, m) == [s \in MCSemas |-> IF s = s1 THEN n ELSE m]

MCDefaultPrio == [t \in MCTasks |-> 1]
MCPreset == List(1, 0)
MCRequestLists == {List(1, 0), List(1, 1), List(2, 0)}
MCSingleReleases == {List(1, 0), List(0, 1)}

\* The lists of a program that requests one semaphore at a time and releases two.
MCNoPreset == List(0, 0)
MCSingleRequests == {List(1, 0), List(0, 1)}
MCReleaseBoth == {List(1, 1)}

Symmetry == Permutations(MCTasks)
=============================================================================
