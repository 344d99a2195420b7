------------------------------- MODULE MCBolt -------------------------------
(***************************************************************************)
(* Three tasks and two bolts.  The lists name one bolt, both, or the same  *)
(* one twice, so that requests overlap, operations stop half way and the   *)
(* counter reaches its maximum.                                            *)
(***************************************************************************)
EXTENDS Bolt, TLC

CONSTANTS t1, t2, t3, b1, b2

MCTasks == {t1, t2, t3}
MCBolts == {b1, b2}

\* The bag with n times b1 and m times b2.
List(n, m) == [b \in MCBolts |-> IF b = b1 THEN n ELSE m]

MCDefaultPrio == [t \in MCTasks |-> 1]

\* One bolt; both; the same one twice.
MCPairs == {List(1, 0), List(1, 1)}
MCLists == MCPairs \cup {List(2, 0)}

Symmetry == Permutations(MCTasks)
=============================================================================
