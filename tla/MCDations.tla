----------------------------- MODULE MCDations -----------------------------
(***************************************************************************)
(* Three tasks with i/o on one dation, two of them of equal priority.      *)
(***************************************************************************)
EXTENDS Dations

CONSTANTS u1, u2, u3

MCPrio == [t \in Users |-> IF t = u3 THEN 1 ELSE 2]
=============================================================================
