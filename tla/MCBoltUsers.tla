---------------------------- MODULE MCBoltUsers ----------------------------
(***************************************************************************)
(* Four tasks of two priorities and one bolt, so that two readers can wait *)
(* together with a writer while another task has the bolt.                 *)
(***************************************************************************)
EXTENDS BoltUsers, TLC

CONSTANTS t1, t2, t3, t4

ASSUME MCAssumption == UsersAssumption

MCTasks == {t1, t2, t3, t4}
MCDefaultPrio == [t \in MCTasks |-> 1]
MCLists == {[x \in {bolt} |-> 1]}

Symmetry == Permutations(MCTasks)
=============================================================================
