-------------------------- MODULE MCSemaphoreMutex --------------------------
(***************************************************************************)
(* Two undisturbed tasks of the best priority compete with a third one     *)
(* that is suspended, continued with other priorities and terminated.      *)
(***************************************************************************)
EXTENDS SemaphoreMutex

CONSTANTS t1, t2, t3

ASSUME MCAssumption == MutexAssumption

MCTasks == {t1, t2, t3}
MCDisturbed == {t3}
MCDefaultPrio == [t \in MCTasks |-> IF t = t3 THEN 2 ELSE 1]
MCPreset == [s \in {m} |-> 1]
MCLists == {MCPreset}
=============================================================================
