----------------------------- MODULE MCTasking -----------------------------
(***************************************************************************)
(* Programs for module Tasking: a main task m, which never ends, and two   *)
(* tasks it controls.                                                      *)
(***************************************************************************)
EXTENDS Tasking

CONSTANTS m, v, w

\* The statements of task a on task b.
Does(a, ops, b) == {[by |-> a, op |-> op, on |-> b] : op \in ops}

\* m does everything with v, which blocks and suspends itself; w suspends itself
\* and a timer continues it.
MCControl ==
    Does(m, {"activate", "terminate", "suspend", "continue", "unblock"}, v)
    \cup Does(v, {"suspend", "block", "terminate", "end"}, v)
    \cup Does(m, {"activate"}, w)
    \cup Does(NoTask, {"timedContinue"}, w)
    \cup Does(w, {"suspend", "end"}, w)

\* m does everything with v, which neither blocks nor suspends itself; w is
\* activated by a timer and ends.
MCReturns ==
    Does(m, {"activate", "terminate", "suspend", "continue"}, v)
    \cup Does(v, {"end"}, v)
    \cup Does(NoTask, {"timedActivate"}, w)
    \cup Does(w, {"end"}, w)

MCPrograms == {MCControl, MCReturns}

\* What the theorems about Tasking ask of a program holds of these.
ASSUME ProgramsOrderly == \A p \in Programs : Orderly(p)
=============================================================================
