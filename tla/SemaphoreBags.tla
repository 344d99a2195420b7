--------------------------- MODULE SemaphoreBags ---------------------------
(***************************************************************************)
(* The semaphore lists of REQUEST, RELEASE and TRY as bags, and what the   *)
(* loops of Semaphore.cc over such a list do to the semaphore values.      *)
(*                                                                         *)
(* The loops go through the list element by element, and internalDoTry     *)
(* gives back what it took when it meets a zero.  Module SemaphoreLoops    *)
(* models them step by step and is checked against the operators here.     *)
(***************************************************************************)
EXTENDS Integers

CONSTANTS
    Semas,          \* the semaphores
    MaxValue        \* UINT32_MAX

ASSUME MaxValueAssumption == MaxValue \in Nat

\* internalDoTry() succeeds.
Available(list, v) == \A s \in Semas : list[s] <= v[s]

\* The values after a successful internalDoTry().
Take(list, v) == [s \in Semas |-> v[s] - list[s]]

\* The values after all increments of release().
Give(list, v) == [s \in Semas |-> v[s] + list[s]]

\* Some increment of release() meets UINT32_MAX.
Overflows(list, v) == \E s \in Semas : v[s] + list[s] > MaxValue

\* What the increments before the throwing one may have made of v: a part of the
\* list is added, and a semaphore that is still to come stands at its maximum.
PartialRelease(list, v, w) ==
    /\ \A s \in Semas : w[s] \in v[s] .. v[s] + list[s]
    /\ \A s \in Semas : w[s] <= MaxValue
    /\ \E s \in Semas : w[s] = MaxValue /\ w[s] < v[s] + list[s]
=============================================================================
