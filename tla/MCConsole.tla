----------------------------- MODULE MCConsole -----------------------------
(***************************************************************************)
(* Three tasks that read from and write to the console, one of them of     *)
(* better priority.                                                        *)
(***************************************************************************)
EXTENDS Console

CONSTANTS a, b, c

MCPrio == [t \in Tasks |-> IF t = c THEN 1 ELSE 2]
=============================================================================
