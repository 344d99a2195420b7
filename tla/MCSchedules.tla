---------------------------- MODULE MCSchedules ----------------------------
(***************************************************************************)
(* Start conditions for module Schedules: task m, the main task, and task  *)
(* a, with the interrupt i.                                                *)
(***************************************************************************)
EXTENDS Schedules

CONSTANTS m, a, i

After == [when |-> None, its |-> "once", counts |-> 1]
AllDuring == [when |-> None, its |-> "cyclic", counts |-> 2]
All == [when |-> None, its |-> "cyclic", counts |-> -1]
When == [when |-> i, its |-> "none", counts |-> 0]
WhenAfter == [when |-> i, its |-> "once", counts |-> 1]

MCActivate == {<<a, AllDuring>>, <<a, All>>, <<a, WhenAfter>>, <<m, When>>}
MCContinue == {<<a, WhenAfter>>}
MCResume == {<<a, When>>, <<a, After>>}
=============================================================================
