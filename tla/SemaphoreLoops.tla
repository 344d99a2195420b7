--------------------------- MODULE SemaphoreLoops ---------------------------
(***************************************************************************)
(* The loops of runtime/common/Semaphore.cc over one semaphore list: the   *)
(* decrements of internalDoTry() with the revert, and the increments of    *)
(* release() with the overflow.  They run under mutexTasks, alone.         *)
(***************************************************************************)
EXTENDS SemaphoreBags, Sequences, FiniteSets

CONSTANT MaxLength      \* bound on the length of a list

VARIABLES
    list,       \* semas[0 .. nbrOfSemas-1]
    start,      \* the values before the operation (history)
    value,      \* the values now
    i,          \* the loop counter, 1 for the first element
    j,          \* the counter of the reverting loop
    pc

vars == <<list, start, value, i, j, pc>>

\* How often each semaphore occurs in the list.
BagOf(l) == [s \in Semas |-> Cardinality({k \in DOMAIN l : l[k] = s})]

Init ==
    /\ \E n \in 0 .. MaxLength : list \in [1 .. n -> Semas]
    /\ start \in [Semas -> 0 .. MaxValue]
    /\ value = start
    /\ i = 1 /\ j = 1
    /\ pc \in {"try", "release"}

\* One turn of the loop of internalDoTry().
TryElement ==
    /\ pc = "try" /\ i <= Len(list)
    /\ \/ /\ value[list[i]] = 0
          /\ pc' = "revert"
          /\ UNCHANGED <<value, i>>
       \/ /\ value[list[i]] # 0
          /\ value' = [value EXCEPT ![list[i]] = @ - 1]
          /\ i' = i + 1
          /\ UNCHANGED pc
    /\ UNCHANGED <<list, start, j>>

TryEnd ==
    /\ pc = "try" /\ i > Len(list)
    /\ pc' = "taken"
    /\ UNCHANGED <<list, start, value, i, j>>

\* Faulty variant: the revert uses the counter of the outer loop.
RevertElementOuter ==
    /\ pc = "revert" /\ j < i
    /\ value' = [value EXCEPT ![list[i]] = @ + 1]
    /\ j' = j + 1
    /\ UNCHANGED <<list, start, i, pc>>

\* One turn of the loop that gives back the elements before the zero.  Its
\* increment() cannot throw: it only undoes a decrement.
RevertElement ==
    /\ pc = "revert" /\ j < i
    /\ value' = [value EXCEPT ![list[j]] = @ + 1]
    /\ j' = j + 1
    /\ UNCHANGED <<list, start, i, pc>>

RevertEnd ==
    /\ pc = "revert" /\ j >= i
    /\ pc' = "wouldBlock"
    /\ UNCHANGED <<list, start, value, i, j>>

\* Faulty variant: the test for the maximum comes after the increment.
IncrementElementFirst ==
    /\ pc = "release" /\ i <= Len(list)
    /\ value' = [value EXCEPT ![list[i]] = @ + 1]
    /\ IF value'[list[i]] > MaxValue
       THEN pc' = "overflow" /\ UNCHANGED i
       ELSE i' = i + 1 /\ UNCHANGED pc
    /\ UNCHANGED <<list, start, j>>

\* One turn of the loop of release(), with increment().
IncrementElement ==
    /\ pc = "release" /\ i <= Len(list)
    /\ \/ /\ value[list[i]] = MaxValue
          /\ pc' = "overflow"
          /\ UNCHANGED <<value, i>>
       \/ /\ value[list[i]] # MaxValue
          /\ value' = [value EXCEPT ![list[i]] = @ + 1]
          /\ i' = i + 1
          /\ UNCHANGED pc
    /\ UNCHANGED <<list, start, j>>

ReleaseEnd ==
    /\ pc = "release" /\ i > Len(list)
    /\ pc' = "released"
    /\ UNCHANGED <<list, start, value, i, j>>

\* The operation is over; any other state without a step is a deadlock.
Done == pc \in {"taken", "wouldBlock", "released", "overflow"} /\ UNCHANGED vars

Next ==
    \/ TryElement \/ TryEnd \/ RevertElement \/ RevertEnd
    \/ IncrementElement \/ ReleaseEnd \/ Done

Spec == Init /\ [][Next]_vars

-----------------------------------------------------------------------------
\* internalDoTry() takes the whole list or nothing: it succeeds exactly when the
\* bag of the list is covered, and a failed try leaves every value as it was, also
\* when the list names a semaphore twice.
TryAllOrNothing ==
    /\ pc = "taken" => /\ Available(BagOf(list), start)
                       /\ value = Take(BagOf(list), start)
    /\ pc = "wouldBlock" => ~Available(BagOf(list), start) /\ value = start

\* release() adds the whole list, or throws with a part of it added.
ReleaseAllOrPart ==
    /\ pc = "released" => /\ ~Overflows(BagOf(list), start)
                          /\ value = Give(BagOf(list), start)
    /\ pc = "overflow" => /\ Overflows(BagOf(list), start)
                          /\ PartialRelease(BagOf(list), start, value)
=============================================================================
