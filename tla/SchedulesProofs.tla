-------------------------- MODULE SchedulesProofs --------------------------
(***************************************************************************)
(* Proofs about the scheduled operations, for every number of tasks and    *)
(* interrupts and every set of start conditions.                           *)
(***************************************************************************)
EXTENDS Schedules, FiniteSetTheorems, TLAPS

Queue == INSTANCE PriorityQueueProofs

----------------------------------------------------------------------------
(* The invariants.                                                         *)

\* f is the list of the registered tasks S in the order of their links: l.head[i]
\* leads to the first of m, and each to the next one.
IsList(l, i, S, m, f) ==
    /\ \A a, b \in 1 .. m : f[a] = f[b] => a = b
    /\ S = {f[a] : a \in 1 .. m}
    /\ l.head[i] = IF m = 0 THEN None ELSE f[1]
    /\ \A a \in 1 .. m : l.next[f[a]] = IF a = m THEN None ELSE f[a + 1]

HasList(l, i, S) == \E m \in Nat : \E f \in [1 .. m -> Tasks] : IsList(l, i, S, m, f)

Links == [head : [Interrupts -> TaskOrNone], next : [Tasks -> TaskOrNone]]

Registrations == [Tasks -> Interrupts \cup {None}]

Registered(w, i) == {t \in Tasks : w[t] = i}

\* The links l have the tasks that are registered according to w.
Linked(l, w) ==
    /\ l \in Links /\ w \in Registrations
    /\ \A i \in Interrupts : HasList(l, i, Registered(w, i))

ListInv ==
    /\ queue \in [Kinds -> Links] /\ when \in [Kinds -> Registrations]
    /\ \A k \in Kinds : Linked(queue[k], when[k])

\* A timer counts as often as set() has said, and eternally or more than once only
\* when it is armed as a cyclic one.
Good(r) ==
    /\ r \in Timer
    /\ r.its = "none" => r.countsBackup = 0
    /\ r.its = "once" => r.countsBackup \in {0, 1}
    /\ r.counts \notin {0, 1} => r.armed = "cyclic"
    /\ r.armed # "none" => r.counts # 0
    /\ r.armed = "once" => r.counts = 1

TimerInv ==
    /\ timer \in [Kinds -> [Tasks -> Timer]]
    /\ \A k \in Kinds, t \in Tasks : Good(timer[k][t])

Counting == signalThread.at \in {"update", "store"}

\* An expiry that has not been counted belongs to a timer that counts on.
ExpiryInv ==
    /\ signalThread.at = "idle" => signalThread = Idle
    /\ signalThread.at # "idle" => signalThread.on \in TimerId
    /\ Counting =>
         /\ signalThread.on \notin signals
         /\ timer[signalThread.on[1]][signalThread.on[2]].counts # 0
    /\ signalThread.at = "store" =>
         /\ signalThread.counts = timer[signalThread.on[1]][signalThread.on[2]].counts
         /\ signalThread.counts > 0
    /\ \A k \in Kinds, t \in Tasks :
         /\ <<k, t>> \in signals => timer[k][t].counts # 0
         /\ timer[k][t].counts # 0 =>
              \/ timer[k][t].armed # "none"
              \/ <<k, t>> \in signals
              \/ Counting /\ signalThread.on = <<k, t>>

\* A trigger continues a task that is suspended and in no list, and no other trigger
\* continues this task.
WaitInv ==
    /\ \A i \in Interrupts : trigger[i].at = "waiting" =>
         /\ trigger[i].on \in Tasks
         /\ taskState[trigger[i].on] = "SUSPENDED"
         /\ when["continue"][trigger[i].on] = None
    /\ \A i, j \in Interrupts :
         trigger[i].at = "waiting" /\ trigger[j] = trigger[i] => i = j

\* A trigger goes on only while no expiry is under way.
TriggerInv ==
    /\ \A i \in Interrupts :
         trigger[i].at \in {"idle", "thrown"} \/ (signals = {} /\ signalThread = Idle)
    /\ WaitInv

----------------------------------------------------------------------------
(* The lists of the interrupts.                                            *)

\* TaskAt() finds the tasks of the list f, and then nothing.
Follows(l, i, m, f) ==
    /\ Cardinality(Tasks) \in Nat /\ m <= Cardinality(Tasks)
    /\ \A n \in 0 .. Cardinality(Tasks) :
         TaskAt(l, i)[n] = IF n < m THEN f[n + 1] ELSE None

\* TaskAt() follows the links: its recursion has the list as its solution.
LEMMA Walk ==
    ASSUME NEW l \in Links, NEW i \in Interrupts, NEW S,
           NEW m \in Nat, NEW f \in [1 .. m -> Tasks], IsList(l, i, S, m, f)
    PROVE  Follows(l, i, m, f)
<1> DEFINE N == Cardinality(Tasks)
           g == [n \in 0 .. N |-> IF n < m THEN f[n + 1] ELSE None]
           Step(w) == [n \in 0 .. N |-> IF n = 0 THEN l.head[i]
                         ELSE IF w[n - 1] = None THEN None ELSE l.next[w[n - 1]]]
<1>1. N \in Nat
  BY SchedulesAssumption, FS_CardinalityType
<1>2. m <= N
  <2>1. f \in Injection(1 .. m, Tasks)
    BY DEF IsList, Injection, IsInjective
  <2>2. Cardinality(1 .. m) = m
    BY FS_Interval
  <2> QED
    BY <2>1, <2>2, FS_Injection, SchedulesAssumption
<1> HIDE DEF N
<1>3. \A n \in 0 .. N : n < m => n + 1 \in 1 .. m /\ f[n + 1] \in Tasks /\ f[n + 1] # None
  BY <1>1, SchedulesAssumption
<1>4. g = Step(g)
  <2>1. SUFFICES ASSUME NEW n \in 0 .. N PROVE g[n] = Step(g)[n]
    OBVIOUS
  <2>2. CASE n = 0
    BY <1>1, <2>2 DEF IsList
  <2>3. CASE n # 0
    <3>1. n - 1 \in 0 .. N /\ (n - 1) + 1 = n
      BY <1>1, <2>3
    <3>2. CASE n - 1 < m
      <4>1. g[n - 1] = f[n] /\ f[n] # None /\ n \in 1 .. m
        BY <3>1, <3>2, <1>3
      <4>2. l.next[f[n]] = IF n = m THEN None ELSE f[n + 1]
        BY <4>1 DEF IsList
      <4>3. g[n] = IF n = m THEN None ELSE f[n + 1]
        BY <4>1
      <4> QED
        BY <2>3, <4>1, <4>2, <4>3
    <3>3. CASE ~ (n - 1 < m)
      <4>1. g[n - 1] = None /\ g[n] = None
        BY <3>1, <3>3
      <4> QED
        BY <2>3, <4>1
    <3> QED
      BY <3>2, <3>3
  <2> QED
    BY <2>2, <2>3
<1>5. TaskAt(l, i) = CHOOSE w : w = Step(w)
  BY DEF TaskAt, N
<1> DEFINE w == TaskAt(l, i)
<1>6. w = Step(w)
  <2> HIDE DEF g, Step
  <2> QED
    BY <1>4, <1>5
<1> HIDE DEF w
<1> DEFINE Different == {n \in 0 .. N : w[n] # g[n]}
<1>7. Different = {}
  <2>1. SUFFICES ASSUME Different # {} PROVE FALSE
    OBVIOUS
  <2>2. Different \in SUBSET Nat
    OBVIOUS
  <2> HIDE DEF Different
  <2>3. PICK n \in Different : \A x \in Different : n <= x
    BY <2>1, <2>2, Queue!LeastNatural
  <2>4. n \in 0 .. N /\ w[n] # g[n]
    BY <2>3 DEF Different
  <2>5. w[n] = Step(w)[n] /\ g[n] = Step(g)[n]
    BY <1>4, <1>6
  <2> HIDE DEF g
  <2>6. n # 0
    BY <2>4, <2>5
  <2>7. n - 1 \in 0 .. N /\ n - 1 \notin Different
    BY <2>3, <2>4, <2>6, <2>2, <1>1
  <2>8. w[n - 1] = g[n - 1]
    BY <2>7 DEF Different
  <2> QED
    BY <2>4, <2>5, <2>6, <2>8
<1>8. \A n \in 0 .. N : w[n] = IF n < m THEN f[n + 1] ELSE None
  BY <1>7
<1> QED
  BY <1>1, <1>2, <1>8 DEF N, w, Follows

\* The list that is found is that of the registered tasks, and it ends.
LEMMA ListFound ==
    ASSUME NEW l \in Links, NEW i \in Interrupts, NEW S, HasList(l, i, S)
    PROVE  /\ Listed(l, i) = S
           /\ TaskAt(l, i)[Cardinality(Tasks)] = None
<1>1. PICK m \in Nat : \E f \in [1 .. m -> Tasks] : IsList(l, i, S, m, f)
  BY DEF HasList
<1>2. PICK f \in [1 .. m -> Tasks] : IsList(l, i, S, m, f)
  BY <1>1
<1> DEFINE N == Cardinality(Tasks)
<1>3. /\ N \in Nat /\ m <= N
      /\ \A n \in 0 .. N : TaskAt(l, i)[n] = IF n < m THEN f[n + 1] ELSE None
  BY <1>2, Walk DEF Follows
<1> DEFINE walk == TaskAt(l, i)
<1>4. Listed(l, i) = {walk[n] : n \in 0 .. N} \ {None}
  BY DEF Listed
<1>5. S = {f[a] : a \in 1 .. m}
  BY <1>2 DEF IsList
<1> HIDE DEF walk, N
<1>6. \A n \in 0 .. N : walk[n] = IF n < m THEN f[n + 1] ELSE None
  BY <1>3 DEF walk
<1>7. ASSUME NEW a \in 1 .. m
      PROVE  f[a] \in {walk[n] : n \in 0 .. N} \ {None}
  <2>1. a - 1 \in 0 .. N /\ a - 1 < m /\ (a - 1) + 1 = a
    BY <1>3
  <2>2. walk[a - 1] = f[a]
    BY <2>1, <1>6
  <2>3. f[a] \in Tasks
    OBVIOUS
  <2> QED
    BY <2>1, <2>2, <2>3, SchedulesAssumption
<1>8. ASSUME NEW n \in 0 .. N, walk[n] # None
      PROVE  walk[n] \in {f[a] : a \in 1 .. m}
  <2>1. n < m /\ walk[n] = f[n + 1]
    BY <1>6, <1>8
  <2>2. n + 1 \in 1 .. m
    BY <2>1, <1>3
  <2> QED
    BY <2>1, <2>2
<1>9. Listed(l, i) = S
  BY <1>4, <1>5, <1>7, <1>8
<1>10. walk[N] = None
  BY <1>3, <1>6
<1> QED
  BY <1>9, <1>10 DEF walk, N

\* A list is still there when its head and the links of its tasks are.
LEMMA ListKept ==
    ASSUME NEW l, NEW l2, NEW i, NEW S, HasList(l, i, S),
           l2.head[i] = l.head[i], \A t \in S : l2.next[t] = l.next[t]
    PROVE  HasList(l2, i, S)
<1>1. PICK m \in Nat : \E f \in [1 .. m -> Tasks] : IsList(l, i, S, m, f)
  BY DEF HasList
<1>2. PICK f \in [1 .. m -> Tasks] : IsList(l, i, S, m, f)
  BY <1>1
<1>3. \A a \in 1 .. m : f[a] \in S
  BY <1>2 DEF IsList
<1>4. IsList(l2, i, S, m, f)
  BY <1>2, <1>3 DEF IsList
<1> QED
  BY <1>4 DEF HasList

\* registerActivate(), registerContinue(): the task becomes the head of the list.
LEMMA RegisterLinked ==
    ASSUME NEW l, NEW w, Linked(l, w), NEW i \in Interrupts, NEW t \in Tasks, w[t] = None
    PROVE  Linked(Register(l, i, t), [w EXCEPT ![t] = i])
<1> DEFINE l2 == Register(l, i, t)
           w2 == [w EXCEPT ![t] = i]
<1>1. l \in Links /\ w \in Registrations
  BY DEF Linked
<1>2. l2 \in Links /\ w2 \in Registrations
  BY <1>1 DEF Links, Registrations, Register, TaskOrNone
<1>3. /\ l2.head = [l.head EXCEPT ![i] = t]
      /\ l2.next = [l.next EXCEPT ![t] = l.head[i]]
  BY <1>1 DEF Links, Register
<1>4. t \notin Registered(w, i)
  BY SchedulesAssumption DEF Registered
<1>5. Registered(w2, i) = Registered(w, i) \cup {t}
  BY <1>1 DEF Registered, Registrations
<1> HIDE DEF l2, w2
<1>6. HasList(l2, i, Registered(w2, i))
  <2> DEFINE S == Registered(w, i)
  <2>1. PICK m \in Nat : \E f \in [1 .. m -> Tasks] : IsList(l, i, S, m, f)
    BY DEF Linked, HasList
  <2>2. PICK f \in [1 .. m -> Tasks] : IsList(l, i, S, m, f)
    BY <2>1
  <2> DEFINE g == [a \in 1 .. m + 1 |-> IF a = 1 THEN t ELSE f[a - 1]]
  <2>3. m + 1 \in Nat /\ g \in [1 .. m + 1 -> Tasks]
    <3>1. ASSUME NEW a \in 1 .. m + 1, a # 1 PROVE f[a - 1] \in Tasks
      <4>1. a - 1 \in 1 .. m
        BY <3>1
      <4> QED
        BY <4>1
    <3> QED
      BY <3>1
  <2>4. g[1] = t /\ \A a \in 1 .. m : a + 1 \in 1 .. m + 1 /\ g[a + 1] = f[a]
    OBVIOUS
  <2>5. \A b \in 1 .. m + 1 : b = 1 \/ \E a \in 1 .. m : b = a + 1
    <3>1. ASSUME NEW b \in 1 .. m + 1, b # 1 PROVE b - 1 \in 1 .. m /\ b = (b - 1) + 1
      BY <3>1
    <3> QED
      BY <3>1
  <2> HIDE DEF g
  <2>6. \A a \in 1 .. m : f[a] \in S /\ f[a] # t /\ f[a] \in Tasks
    BY <2>2, <1>4 DEF IsList
  <2>7. ASSUME NEW a \in 1 .. m + 1, NEW b \in 1 .. m + 1, g[a] = g[b]
        PROVE  a = b
    <3>1. CASE a = 1 \/ b = 1
      BY <2>4, <2>5, <2>6, <2>7, <3>1
    <3>2. CASE a # 1 /\ b # 1
      <4>1. PICK c \in 1 .. m : a = c + 1
        BY <3>2, <2>5
      <4>2. PICK d \in 1 .. m : b = d + 1
        BY <3>2, <2>5
      <4>3. f[c] = f[d]
        BY <4>1, <4>2, <2>4, <2>7
      <4>4. c = d
        BY <4>3, <2>2 DEF IsList
      <4> QED
        BY <4>1, <4>2, <4>4
    <3> QED
      BY <3>1, <3>2
  <2>8. Registered(w2, i) = {g[a] : a \in 1 .. m + 1}
    <3>1. S = {f[a] : a \in 1 .. m}
      BY <2>2 DEF IsList
    <3>2. 1 \in 1 .. m + 1
      OBVIOUS
    <3> QED
      BY <1>5, <2>4, <2>5, <3>1, <3>2
  <2>9. l2.head[i] = g[1]
    BY <1>1, <1>3, <2>4 DEF Links
  <2>10. ASSUME NEW a \in 1 .. m + 1
         PROVE  l2.next[g[a]] = IF a = m + 1 THEN None ELSE g[a + 1]
    <3>1. CASE a = 1
      <4>1. l2.next[g[a]] = l.head[i]
        BY <1>1, <1>3, <2>4, <3>1 DEF Links
      <4>2. l.head[i] = IF m = 0 THEN None ELSE f[1]
        BY <2>2 DEF IsList
      <4>3. m # 0 => g[2] = f[1]
        <5>1. m # 0 => 1 \in 1 .. m /\ 1 + 1 = 2
          OBVIOUS
        <5> QED
          BY <5>1, <2>4
      <4> QED
        BY <3>1, <4>1, <4>2, <4>3
    <3>2. CASE a # 1
      <4>1. PICK c \in 1 .. m : a = c + 1
        BY <3>2, <2>5
      <4>2. l2.next[g[a]] = l.next[f[c]]
        BY <1>1, <1>3, <2>4, <2>6, <4>1 DEF Links
      <4>3. l.next[f[c]] = IF c = m THEN None ELSE f[c + 1]
        BY <2>2 DEF IsList
      <4>4. c # m => c + 1 \in 1 .. m
        OBVIOUS
      <4>5. c # m => g[a + 1] = f[c + 1]
        BY <2>4, <4>1, <4>4
      <4>6. c = m <=> a = m + 1
        BY <4>1
      <4> QED
        BY <4>2, <4>3, <4>5, <4>6
    <3> QED
      BY <3>1, <3>2
  <2>11. IsList(l2, i, Registered(w2, i), m + 1, g)
    <3>1. m + 1 # 0
      OBVIOUS
    <3> QED
      BY <2>7, <2>8, <2>9, <2>10, <3>1 DEF IsList
  <2> QED
    BY <2>3, <2>11 DEF HasList
<1>7. ASSUME NEW j \in Interrupts, j # i
      PROVE  HasList(l2, j, Registered(w2, j))
  <2>1. Registered(w2, j) = Registered(w, j)
    BY <1>1, <1>7, SchedulesAssumption DEF w2, Registered, Registrations
  <2>2. t \notin Registered(w, j)
    BY SchedulesAssumption DEF Registered
  <2>3. l2.head[j] = l.head[j] /\ \A u \in Registered(w, j) : l2.next[u] = l.next[u]
    BY <1>1, <1>3, <1>7, <2>2 DEF Links, Registered
  <2>4. HasList(l, j, Registered(w, j))
    BY DEF Linked
  <2> QED
    BY <2>1, <2>3, <2>4, ListKept
<1> QED
  BY <1>2, <1>6, <1>7 DEF Linked, l2, w2

\* The task at place p of the list f leaves it: the head or the task in front of it
\* is linked to the next one.
Leaves(l, l2, i, m, f, p) ==
    /\ l2.head[i] = IF p = 1 THEN l.next[f[p]] ELSE l.head[i]
    /\ \A a \in 1 .. m : a # p =>
         l2.next[f[a]] = IF a = p - 1 THEN l.next[f[p]] ELSE l.next[f[a]]

LEMMA LeaveList ==
    ASSUME NEW l, NEW l2, NEW i, NEW S, NEW m \in Nat, NEW f \in [1 .. m -> Tasks],
           IsList(l, i, S, m, f), NEW p \in 1 .. m, Leaves(l, l2, i, m, f, p)
    PROVE  HasList(l2, i, S \ {f[p]})
<1>0. /\ l2.head[i] = IF p = 1 THEN l.next[f[p]] ELSE l.head[i]
      /\ \A a \in 1 .. m : a # p =>
           l2.next[f[a]] = IF a = p - 1 THEN l.next[f[p]] ELSE l.next[f[a]]
  BY DEF Leaves
<1> DEFINE g == [a \in 1 .. m - 1 |-> IF a < p THEN f[a] ELSE f[a + 1]]
<1>1. m - 1 \in Nat /\ \A a \in 1 .. m - 1 : a \in 1 .. m /\ a + 1 \in 1 .. m
  OBVIOUS
<1>2. g \in [1 .. m - 1 -> Tasks]
  BY <1>1
<1>3. \A a \in 1 .. m - 1 : (a < p => g[a] = f[a]) /\ (~ (a < p) => g[a] = f[a + 1])
  OBVIOUS
<1> HIDE DEF g
<1>4. \A a, b \in 1 .. m : f[a] = f[b] => a = b
  BY DEF IsList
<1>5. ASSUME NEW a \in 1 .. m - 1, NEW b \in 1 .. m - 1, g[a] = g[b]
      PROVE  a = b
  <2>1. PICK c \in 1 .. m : g[a] = f[c] /\ c = IF a < p THEN a ELSE a + 1
    BY <1>1, <1>3
  <2>2. PICK d \in 1 .. m : g[b] = f[d] /\ d = IF b < p THEN b ELSE b + 1
    BY <1>1, <1>3
  <2>3. c = d
    BY <2>1, <2>2, <1>4, <1>5
  <2> QED
    BY <2>1, <2>2, <2>3
<1>6. S \ {f[p]} = {g[a] : a \in 1 .. m - 1}
  <2>1. S = {f[a] : a \in 1 .. m}
    BY DEF IsList
  <2>2. ASSUME NEW c \in 1 .. m, f[c] # f[p]
        PROVE  f[c] \in {g[a] : a \in 1 .. m - 1}
    <3>1. CASE c < p
      <4>1. c \in 1 .. m - 1
        BY <3>1
      <4> QED
        BY <4>1, <3>1, <1>3
    <3>2. CASE c > p
      <4>1. c - 1 \in 1 .. m - 1 /\ ~ (c - 1 < p) /\ (c - 1) + 1 = c
        BY <3>2
      <4>2. g[c - 1] = f[c]
        BY <4>1, <1>3
      <4> QED
        BY <4>1, <4>2
    <3>3. c # p
      BY <2>2
    <3> QED
      BY <3>1, <3>2, <3>3
  <2>3. ASSUME NEW a \in 1 .. m - 1
        PROVE  g[a] \in S \ {f[p]}
    <3>1. PICK c \in 1 .. m : g[a] = f[c] /\ c # p
      BY <1>1, <1>3
    <3>2. f[c] # f[p]
      BY <3>1, <1>4
    <3> QED
      BY <3>1, <3>2, <2>1
  <2> QED
    BY <2>1, <2>2, <2>3
<1>7. \A a \in 1 .. m : l.next[f[a]] = IF a = m THEN None ELSE f[a + 1]
  BY DEF IsList
<1>8. l.head[i] = f[1]
  BY DEF IsList
<1>9. l2.head[i] = IF m - 1 = 0 THEN None ELSE g[1]
  <2>1. CASE p = 1
    <3>1. l2.head[i] = IF m = 1 THEN None ELSE f[2]
      BY <2>1, <1>0, <1>7
    <3>2. m # 1 => 1 \in 1 .. m - 1
      OBVIOUS
    <3>3. m # 1 => g[1] = f[2]
      BY <2>1, <1>3, <3>2
    <3> QED
      BY <3>1, <3>3
  <2>2. CASE p # 1
    <3>1. 1 \in 1 .. m - 1 /\ 1 < p /\ m - 1 # 0
      BY <2>2
    <3> QED
      BY <2>2, <3>1, <1>0, <1>3, <1>8
  <2> QED
    BY <2>1, <2>2
<1>10. ASSUME NEW a \in 1 .. m - 1
       PROVE  l2.next[g[a]] = IF a = m - 1 THEN None ELSE g[a + 1]
  <2>1. a \in 1 .. m /\ a + 1 \in 1 .. m /\ (a # m - 1 => a + 1 \in 1 .. m - 1)
    OBVIOUS
  <2>2. CASE a < p - 1
    <3>1. a # p /\ a # p - 1 /\ a # m /\ a # m - 1 /\ a < p /\ a + 1 < p
      BY <2>2
    <3>2. l2.next[f[a]] = f[a + 1]
      BY <2>1, <3>1, <1>0, <1>7
    <3> QED
      BY <2>1, <3>1, <3>2, <1>3
  <2>3. CASE a = p - 1
    <3>1. a < p /\ ~ (a + 1 < p) /\ p = a + 1 /\ a # p
      BY <2>3
    <3>2. l2.next[f[a]] = IF p = m THEN None ELSE f[p + 1]
      BY <2>1, <2>3, <3>1, <1>0, <1>7
    <3>3. g[a] = f[a] /\ (a # m - 1 => g[a + 1] = f[(a + 1) + 1])
      BY <2>1, <3>1, <1>3
    <3> QED
      BY <3>1, <3>2, <3>3
  <2>4. CASE a >= p
    <3>1. ~ (a < p) /\ ~ (a + 1 < p) /\ a + 1 # p /\ a + 1 # p - 1
      BY <2>4
    <3>2. l2.next[f[a + 1]] = IF a + 1 = m THEN None ELSE f[(a + 1) + 1]
      BY <2>1, <3>1, <1>0, <1>7
    <3>3. g[a] = f[a + 1] /\ (a # m - 1 => g[a + 1] = f[(a + 1) + 1])
      BY <2>1, <3>1, <1>3
    <3> QED
      BY <3>2, <3>3
  <2> QED
    BY <2>2, <2>3, <2>4
<1>11. IsList(l2, i, S \ {f[p]}, m - 1, g)
  BY <1>5, <1>6, <1>9, <1>10 DEF IsList
<1> QED
  BY <1>1, <1>2, <1>11 DEF HasList

\* The lists of the other interrupts are as they were.
OthersKept(l, l2, w, i) ==
    /\ \A j \in Interrupts : j # i => l2.head[j] = l.head[j]
    /\ \A u \in Tasks : w[u] # i => l2.next[u] = l.next[u]

\* A registered task leaves the list of its interrupt, the other lists stay.
LEMMA LeaveLinked ==
    ASSUME NEW l, NEW w, Linked(l, w), NEW i \in Interrupts, NEW t \in Tasks, w[t] = i,
           NEW l2 \in Links, HasList(l2, i, Registered(w, i) \ {t}), OthersKept(l, l2, w, i)
    PROVE  Linked(l2, [w EXCEPT ![t] = None])
<1> DEFINE w2 == [w EXCEPT ![t] = None]
<1>1. w \in Registrations /\ w2 \in Registrations
  BY DEF Linked, Registrations
<1>2. Registered(w2, i) = Registered(w, i) \ {t}
  BY <1>1, SchedulesAssumption DEF Registered, Registrations
<1>3. ASSUME NEW j \in Interrupts, j # i
      PROVE  HasList(l2, j, Registered(w2, j))
  <2>1. Registered(w2, j) = Registered(w, j)
    BY <1>1, <1>3, SchedulesAssumption DEF Registered, Registrations
  <2>2. l2.head[j] = l.head[j] /\ \A u \in Registered(w, j) : l2.next[u] = l.next[u]
    BY <1>3 DEF Registered, OthersKept
  <2>3. HasList(l, j, Registered(w, j))
    BY DEF Linked
  <2> QED
    BY <2>1, <2>2, <2>3, ListKept
<1> HIDE DEF w2
<1>4. Linked(l2, w2)
  BY <1>1, <1>2, <1>3 DEF Linked
<1> QED
  BY <1>4 DEF w2

\* The first loop of trigger() takes the head out of the list.
LEMMA HeadLinked ==
    ASSUME NEW l, NEW w, Linked(l, w), NEW i \in Interrupts, l.head[i] # None
    PROVE  /\ l.head[i] \in Tasks /\ w[l.head[i]] = i
           /\ Linked([l EXCEPT !.head[i] = l.next[l.head[i]]], [w EXCEPT ![l.head[i]] = None])
<1> DEFINE t == l.head[i]
           l2 == [l EXCEPT !.head[i] = l.next[t]]
           S == Registered(w, i)
<1>1. l \in Links
  BY DEF Linked
<1>2. PICK m \in Nat : \E f \in [1 .. m -> Tasks] : IsList(l, i, S, m, f)
  BY DEF Linked, HasList
<1>3. PICK f \in [1 .. m -> Tasks] : IsList(l, i, S, m, f)
  BY <1>2
<1>4. 1 \in 1 .. m /\ t = f[1]
  BY <1>3 DEF IsList
<1>5. t \in Tasks /\ w[t] = i
  <2>1. f[1] \in S
    BY <1>3, <1>4 DEF IsList
  <2> QED
    BY <2>1, <1>4 DEF Registered
<1>6. l2 \in Links
  BY <1>1, <1>5 DEF Links
<1>7. l2.head = [l.head EXCEPT ![i] = l.next[t]] /\ l2.next = l.next
  BY <1>1 DEF Links
<1>8. l2.head[i] = l.next[f[1]] /\ \A j \in Interrupts : j # i => l2.head[j] = l.head[j]
  BY <1>1, <1>4, <1>7 DEF Links
<1> HIDE DEF t, l2
<1>9. HasList(l2, i, S \ {f[1]})
  <2>1. Leaves(l, l2, i, m, f, 1)
    BY <1>7, <1>8 DEF Leaves
  <2> HIDE DEF S
  <2> QED
    BY <2>1, <1>3, <1>4, LeaveList
<1>10. Linked(l2, [w EXCEPT ![t] = None])
  <2>1. OthersKept(l, l2, w, i)
    BY <1>7, <1>8 DEF OthersKept
  <2>2. HasList(l2, i, Registered(w, i) \ {t})
    BY <1>4, <1>9
  <2> QED
    BY <1>5, <1>6, <2>1, <2>2, LeaveLinked
<1> QED
  BY <1>5, <1>10 DEF t, l2

\* unregisterActivate(), unregisterContinue() of a registered task find it.
LEMMA UnregisterLinked ==
    ASSUME NEW l, NEW w, Linked(l, w), NEW i \in Interrupts, NEW t \in Tasks, w[t] = i
    PROVE  Linked(Unregister(l, i, t), [w EXCEPT ![t] = None])
<1> DEFINE S == Registered(w, i)
           N == Cardinality(Tasks)
           walk == TaskAt(l, i)
           places == {n \in 0 .. N : walk[n] = t}
<1>1. l \in Links
  BY DEF Linked
<1>2. PICK m \in Nat : \E f \in [1 .. m -> Tasks] : IsList(l, i, S, m, f)
  BY DEF Linked, HasList
<1>3. PICK f \in [1 .. m -> Tasks] : IsList(l, i, S, m, f)
  BY <1>2
<1>4. PICK p \in 1 .. m : f[p] = t
  BY <1>3 DEF IsList, Registered
<1>5. /\ N \in Nat /\ m <= N
      /\ \A n \in 0 .. N : walk[n] = IF n < m THEN f[n + 1] ELSE None
  <2> HIDE DEF S
  <2>1. Follows(l, i, m, f)
    BY <1>1, <1>3, Walk
  <2> QED
    BY <2>1 DEF Follows
<1>6. \A a, b \in 1 .. m : f[a] = f[b] => a = b
  BY <1>3 DEF IsList
<1>7. t # None
  BY SchedulesAssumption
<1> DEFINE first == CHOOSE n \in places : \A x \in places : n <= x
<1>8. Unregister(l, i, t) =
        IF places = {} THEN l
        ELSE IF first = 0 THEN [l EXCEPT !.head[i] = l.next[t]]
        ELSE [l EXCEPT !.next[walk[first - 1]] = l.next[t]]
  BY DEF Unregister
<1> HIDE DEF walk, N, S
<1>9. places = {p - 1}
  <2>1. p - 1 \in 0 .. N /\ walk[p - 1] = t
    <3>1. p - 1 \in 0 .. N /\ p - 1 < m /\ (p - 1) + 1 = p
      BY <1>5
    <3> QED
      BY <3>1, <1>4, <1>5
  <2>2. ASSUME NEW n \in 0 .. N, walk[n] = t
        PROVE  n = p - 1
    <3>1. n < m /\ f[n + 1] = f[p]
      BY <1>4, <1>5, <1>7, <2>2
    <3>2. n + 1 \in 1 .. m
      BY <3>1, <1>5
    <3>3. n + 1 = p
      BY <3>1, <3>2, <1>6
    <3> QED
      BY <3>3, <1>5
  <2> QED
    BY <2>1, <2>2
<1> HIDE DEF places
<1>10. first = p - 1
  <2>1. p - 1 <= p - 1
    OBVIOUS
  <2> QED
    BY <1>9, <2>1
<1> HIDE DEF first
<1> DEFINE l2 == Unregister(l, i, t)
<1>11. CASE p = 1
  <2>1. l2 = [l EXCEPT !.head[i] = l.next[t]]
    BY <1>8, <1>9, <1>10, <1>11
  <2>2. l.head[i] = t
    BY <1>3, <1>4, <1>11 DEF IsList
  <2> HIDE DEF l2
  <2>3. Linked(l2, [w EXCEPT ![t] = None])
    BY <1>7, <2>1, <2>2, HeadLinked
  <2> QED
    BY <2>3 DEF l2
<1>12. CASE p # 1
  <2> DEFINE u == f[p - 1]
  <2>1. p - 1 \in 1 .. m /\ (p - 1) - 1 \in 0 .. N /\ (p - 1) - 1 < m /\ ((p - 1) - 1) + 1 = p - 1
    BY <1>5, <1>12
  <2>2. walk[(p - 1) - 1] = u
    BY <2>1, <1>5
  <2>3. p - 1 # 0
    BY <2>1
  <2>4. l2 = [l EXCEPT !.next[u] = l.next[t]]
    BY <1>8, <1>9, <1>10, <2>2, <2>3
  <2>5. u \in Tasks /\ w[u] = i
    <3>1. u \in S
      BY <2>1, <1>3 DEF IsList
    <3> QED
      BY <3>1 DEF S, Registered
  <2> HIDE DEF l2
  <2>6. l2 \in Links
    BY <1>1, <2>4, <2>5 DEF Links
  <2>7. l2.head = l.head /\ l2.next = [l.next EXCEPT ![u] = l.next[t]]
    BY <1>1, <2>4 DEF Links
  <2>8. ASSUME NEW a \in 1 .. m, a # p
        PROVE  l2.next[f[a]] = IF a = p - 1 THEN l.next[f[p]] ELSE l.next[f[a]]
    <3>1. f[a] = u <=> a = p - 1
      BY <1>6, <2>1
    <3>2. f[a] \in Tasks
      OBVIOUS
    <3> HIDE DEF u
    <3> QED
      BY <1>1, <1>4, <2>5, <2>7, <3>1, <3>2 DEF Links
  <2>9. HasList(l2, i, S \ {f[p]})
    <3>1. Leaves(l, l2, i, m, f, p)
      BY <2>7, <2>8, <1>12 DEF Leaves
    <3> QED
      BY <3>1, <1>3, LeaveList
  <2>10. OthersKept(l, l2, w, i)
    BY <1>1, <2>5, <2>7 DEF Links, OthersKept
  <2>11. Linked(l2, [w EXCEPT ![t] = None])
    <3>1. HasList(l2, i, Registered(w, i) \ {t})
      BY <1>4, <2>9 DEF S
    <3> QED
      BY <2>6, <2>10, <3>1, LeaveLinked
  <2> QED
    BY <2>11 DEF l2
<1> QED
  BY <1>11, <1>12

\* An operation takes a task out of its list, if it is in one.
LEMMA WithoutLinked ==
    ASSUME ListInv, NEW k \in Kinds, NEW t \in Tasks
    PROVE  Linked(Without(k, t), [when[k] EXCEPT ![t] = None])
<1>1. Linked(queue[k], when[k]) /\ when[k] \in Registrations
  BY DEF ListInv
<1>2. CASE when[k][t] = None
  <2>1. [when[k] EXCEPT ![t] = None] = when[k]
    BY <1>1, <1>2 DEF Registrations
  <2> QED
    BY <1>1, <1>2, <2>1 DEF Without
<1>3. CASE when[k][t] # None
  <2>1. when[k][t] \in Interrupts
    BY <1>1, <1>3 DEF Registrations
  <2> QED
    BY <1>1, <1>3, <2>1, UnregisterLinked DEF Without
<1> QED
  BY <1>2, <1>3

----------------------------------------------------------------------------
(* The lists have the registered tasks.                                    *)

\* The links of kind k and the registration of one task change together.
LEMMA OneKindLinked ==
    ASSUME ListInv, NEW k \in Kinds, NEW t \in Tasks, NEW l2, NEW x,
           Linked(l2, [when[k] EXCEPT ![t] = x]),
           queue' = [queue EXCEPT ![k] = l2], when' = [when EXCEPT ![k][t] = x]
    PROVE  ListInv'
<1> DEFINE w2 == [when[k] EXCEPT ![t] = x]
<1>1. queue \in [Kinds -> Links] /\ when \in [Kinds -> Registrations]
  BY DEF ListInv
<1>2. l2 \in Links /\ w2 \in Registrations
  BY DEF Linked
<1>3. when' = [when EXCEPT ![k] = w2]
  BY <1>1
<1> HIDE DEF w2
<1>4. queue' \in [Kinds -> Links] /\ when' \in [Kinds -> Registrations]
  BY <1>1, <1>2, <1>3
<1>5. ASSUME NEW z \in Kinds PROVE Linked(queue'[z], when'[z])
  <2>1. CASE z = k
    BY <1>1, <1>3, <2>1 DEF w2
  <2>2. CASE z # k
    BY <1>1, <1>3, <2>2 DEF ListInv
  <2> QED
    BY <2>1, <2>2
<1> QED
  BY <1>4, <1>5 DEF ListInv

LEMMA ListsKept ==
    ASSUME ListInv, UNCHANGED <<queue, when>>
    PROVE  ListInv'
BY DEF ListInv, Linked

\* At the start nothing is linked.
LEMMA InitLists ==
    ASSUME Init
    PROVE  ListInv
<1>1. queue \in [Kinds -> Links] /\ when \in [Kinds -> Registrations]
  BY DEF Init, Links, Registrations, TaskOrNone
<1>2. ASSUME NEW k \in Kinds, NEW i \in Interrupts
      PROVE  HasList(queue[k], i, Registered(when[k], i))
  <2> DEFINE f == [a \in 1 .. 0 |-> Main]
  <2>1. 0 \in Nat /\ f \in [1 .. 0 -> Tasks] /\ 1 .. 0 = {}
    BY SchedulesAssumption
  <2>2. queue[k].head[i] = None /\ Registered(when[k], i) = {}
    BY SchedulesAssumption DEF Init, Registered
  <2> HIDE DEF f
  <2>3. IsList(queue[k], i, Registered(when[k], i), 0, f)
    BY <2>1, <2>2 DEF IsList
  <2> QED
    BY <2>1, <2>3 DEF HasList
<1> QED
  BY <1>1, <1>2 DEF ListInv, Linked

LEMMA ConditionTypes ==
    ASSUME NEW x \in ActivateConditions \cup ContinueConditions \cup ResumeConditions
    PROVE  x[1] \in Tasks /\ x[2] \in Condition /\ x[2].when \in Interrupts \cup {None}
<1>1. x \in Tasks \X Condition
  BY SchedulesAssumption
<1> QED
  BY <1>1 DEF Condition

\* Registered anew, after an operation has taken the task out of its list.
LEMMA AnewLinked ==
    ASSUME ListInv, NEW k \in Kinds, NEW t \in Tasks, NEW i \in Interrupts
    PROVE  Linked(Register(Without(k, t), i, t), [when[k] EXCEPT ![t] = i])
<1> DEFINE w == [when[k] EXCEPT ![t] = None]
<1>1. when[k] \in Registrations
  BY DEF ListInv
<1>2. Linked(Without(k, t), w) /\ w[t] = None
  BY <1>1, WithoutLinked DEF Registrations
<1>3. [w EXCEPT ![t] = i] = [when[k] EXCEPT ![t] = i]
  BY <1>1 DEF Registrations
<1> HIDE DEF w
<1>4. Linked(Register(Without(k, t), i, t), [w EXCEPT ![t] = i])
  BY <1>2, RegisterLinked
<1> QED
  BY <1>3, <1>4

LEMMA StatementLists ==
    ASSUME ListInv, "tidy" \in Assumed, Statements
    PROVE  ListInv'
<1>1. "activate" \in Kinds /\ "continue" \in Kinds
  BY DEF Kinds
<1>2. ASSUME Hang PROVE ListInv'
  BY <1>2, ListsKept DEF Hang, interruptVars
<1>3. ASSUME NEW t \in Tasks, Activate(t) PROVE ListInv'
  <2>1. CASE Locked(when["activate"][t])
    BY <1>2, <1>3, <2>1 DEF Activate
  <2>2. CASE ~Locked(when["activate"][t])
    <3>1. /\ queue' = [queue EXCEPT !["activate"] = Without("activate", t)]
          /\ when' = [when EXCEPT !["activate"][t] = None]
      BY <1>3, <2>2 DEF Activate
    <3> QED
      BY <1>1, <3>1, WithoutLinked, OneKindLinked
  <2> QED
    BY <2>1, <2>2
<1>4. ASSUME NEW t \in Tasks, Prevent(t) PROVE ListInv'
  <2>1. CASE \E k \in Kinds : Locked(when[k][t])
    BY <1>2, <1>4, <2>1 DEF Prevent
  <2>2. CASE ~ \E k \in Kinds : Locked(when[k][t])
    <3>1. /\ queue' = [k \in Kinds |-> Without(k, t)]
          /\ when' = [k \in Kinds |-> [when[k] EXCEPT ![t] = None]]
      BY <1>4, <2>2 DEF Prevent
    <3>2. \A k \in Kinds : Linked(Without(k, t), [when[k] EXCEPT ![t] = None])
      BY WithoutLinked
    <3>3. \A k \in Kinds : Linked(queue'[k], when'[k])
      BY <3>1, <3>2
    <3>4. queue' \in [Kinds -> Links] /\ when' \in [Kinds -> Registrations]
      BY <3>1, <3>2 DEF Linked
    <3> QED
      BY <3>3, <3>4 DEF ListInv
  <2> QED
    BY <2>1, <2>2
<1>5. ASSUME NEW t \in Tasks, End(t) \/ Terminate(t) \/ Suspend(t) PROVE ListInv'
  BY <1>5, ListsKept DEF End, Terminate, Suspend, interruptVars
<1>6. ASSUME NEW t \in Tasks, Continue(t) PROVE ListInv'
  <2>1. CASE Locked(when["continue"][t])
    BY <1>2, <1>6, <2>1 DEF Continue
  <2>2. CASE ~Locked(when["continue"][t])
    <3>1. /\ queue' = [queue EXCEPT !["continue"] = Without("continue", t)]
          /\ when' = [when EXCEPT !["continue"][t] = None]
      BY <1>6, <2>2 DEF Continue
    <3> QED
      BY <1>1, <3>1, WithoutLinked, OneKindLinked
  <2> QED
    BY <2>1, <2>2
<1>7. ASSUME NEW t \in Tasks, NEW c, c.when \in Interrupts \cup {None}, ScheduleActivate(t, c)
      PROVE  ListInv'
  <2>1. CASE Hang
    BY <1>2, <2>1
  <2>2. CASE UNCHANGED <<when, queue>>
    BY <2>2, ListsKept
  <2>3. CASE /\ c.when # None
             /\ queue' = [queue EXCEPT !["activate"] = Register(Without("activate", t), c.when, t)]
             /\ when' = [when EXCEPT !["activate"][t] = c.when]
    <3>1. c.when \in Interrupts
      BY <1>7, <2>3
    <3> QED
      BY <1>1, <2>3, <3>1, AnewLinked, OneKindLinked
  <2> QED
    BY <1>7, <2>1, <2>2, <2>3 DEF ScheduleActivate
<1>8. ASSUME NEW t \in Tasks, NEW c, c.when \in Interrupts \cup {None}, ScheduleContinue(t, c)
      PROVE  ListInv'
  <2>1. CASE Hang
    BY <1>2, <2>1
  <2>2. CASE /\ queue' = [queue EXCEPT !["continue"] = Without("continue", t)]
             /\ when' = [when EXCEPT !["continue"][t] = None]
    BY <1>1, <2>2, WithoutLinked, OneKindLinked
  <2>3. CASE /\ c.when # None
             /\ queue' = [queue EXCEPT !["continue"] = Register(Without("continue", t), c.when, t)]
             /\ when' = [when EXCEPT !["continue"][t] = c.when]
    <3>1. c.when \in Interrupts
      BY <1>8, <2>3
    <3> QED
      BY <1>1, <2>3, <3>1, AnewLinked, OneKindLinked
  <2> QED
    BY <1>8, <2>1, <2>2, <2>3 DEF ScheduleContinue
<1>9. ASSUME NEW me \in Tasks, NEW c, c.when \in Interrupts \cup {None}, Resume(me, c)
      PROVE  ListInv'
  <2>1. CASE Hang
    BY <1>2, <2>1
  <2>2. CASE /\ queue' = [queue EXCEPT !["continue"] = Without("continue", me)]
             /\ when' = [when EXCEPT !["continue"][me] = None]
    BY <1>1, <2>2, WithoutLinked, OneKindLinked
  <2>3. CASE /\ c.when # None /\ Tidy(me)
             /\ queue' = [queue EXCEPT !["continue"] = Register(@, c.when, me)]
             /\ when' = [when EXCEPT !["continue"][me] = c.when]
    <3>1. c.when \in Interrupts /\ when["continue"][me] = None
      BY <1>9, <2>3 DEF Tidy
    <3>2. Linked(queue["continue"], when["continue"])
      BY <1>1 DEF ListInv
    <3>3. Linked(Register(queue["continue"], c.when, me), [when["continue"] EXCEPT ![me] = c.when])
      BY <3>1, <3>2, RegisterLinked
    <3> QED
      BY <1>1, <2>3, <3>3, OneKindLinked
  <2> QED
    BY <1>9, <2>1, <2>2, <2>3 DEF Resume
<1>10. ASSUME NEW i \in Interrupts, Enable(i) \/ Disable(i) PROVE ListInv'
  BY <1>10, ListsKept DEF Enable, Disable
<1> QED
  BY <1>3, <1>4, <1>5, <1>6, <1>7, <1>8, <1>9, <1>10, ConditionTypes DEF Statements

LEMMA NextLists ==
    ASSUME ListInv, "tidy" \in Assumed, [Next]_vars
    PROVE  ListInv'
<1>1. ASSUME NEW i \in Interrupts, TriggerContinue(i) PROVE ListInv'
  <2> DEFINE l == queue["continue"]
             t == l.head[i]
  <2>1. /\ t # None
        /\ queue' = [queue EXCEPT !["continue"].head[i] = l.next[t]]
        /\ when' = [when EXCEPT !["continue"][t] = None]
    BY <1>1 DEF TriggerContinue
  <2>2. "continue" \in Kinds /\ queue \in [Kinds -> Links] /\ Linked(l, when["continue"])
    BY DEF Kinds, ListInv
  <2>3. t \in Tasks /\ Linked([l EXCEPT !.head[i] = l.next[t]], [when["continue"] EXCEPT ![t] = None])
    BY <2>1, <2>2, HeadLinked
  <2>4. queue' = [queue EXCEPT !["continue"] = [l EXCEPT !.head[i] = l.next[t]]]
    BY <2>1, <2>2
  <2> HIDE DEF l, t
  <2> QED
    BY <2>1, <2>2, <2>3, <2>4, OneKindLinked
<1>2. ASSUME NEW i \in Interrupts, Trigger(i) \/ Continued(i) \/ TriggerActivate(i) PROVE ListInv'
  BY <1>2, ListsKept DEF Trigger, Continued, TriggerActivate
<1>3. ASSUME NEW k \in Kinds, NEW t \in Tasks, Expire(k, t) PROVE ListInv'
  BY <1>3, ListsKept DEF Expire, interruptVars
<1>4. ASSUME SignalThread PROVE ListInv'
  BY <1>4, ListsKept DEF SignalThread, ReadSignal, LoadCounts, StoreCounts, TimedActivate,
                         TimedContinue, interruptVars
<1>5. CASE UNCHANGED vars
  BY <1>5, ListsKept DEF vars, interruptVars
<1> QED
  BY <1>1, <1>2, <1>3, <1>4, <1>5, StatementLists DEF Next, Triggering

\* ListInv is what the runs check.
LEMMA ListInvMatches ==
    ASSUME ListInv
    PROVE  ListsMatch
<1>1. ASSUME NEW k \in Kinds, NEW i \in Interrupts
      PROVE  /\ Listed(queue[k], i) = Registered(when[k], i)
             /\ TaskAt(queue[k], i)[Cardinality(Tasks)] = None
  <2>1. queue[k] \in Links /\ HasList(queue[k], i, Registered(when[k], i))
    BY DEF ListInv, Linked
  <2> QED
    BY <2>1, ListFound
<1> QED
  BY <1>1 DEF ListsMatch, Registered

\* The interrupts' lists, linked through the tasks, always have exactly the tasks that
\* are registered, each once, however ACTIVATE, CONTINUE, RESUME, PREVENT and
\* trigger() enter tasks and take them out (Interrupt.cc), provided a task does
\* not execute a RESUME on an interrupt while a CONTINUE of it is registered.
\* Nothing is assumed of the expiries or of what is done during a trigger.
THEOREM ScheduleLists == "tidy" \in Assumed => (Spec => []ListsMatch)
<1> SUFFICES ASSUME "tidy" \in Assumed PROVE Spec => []ListsMatch
  OBVIOUS
<1>1. Init => ListInv
  BY InitLists
<1>2. ListInv /\ [Next]_vars => ListInv'
  BY NextLists
<1>3. ListInv => ListsMatch
  BY ListInvMatches
<1> QED
  BY <1>1, <1>2, <1>3, PTL DEF Spec

----------------------------------------------------------------------------
(* The timers and their expiries.                                          *)

\* What is assumed of start conditions: no AFTER that set() refuses in an ACTIVATE
\* (it leaves mutexTasks locked), and a condition without an interrupt has a timer
\* (AFTER 0 starts nothing and leaves the task pending).  And of TERMINATE: not of a
\* task that has missed an activation (its old body goes on and is counted, too).
Effective(c) == c.its = "none" => c.when # None /\ c.counts = 0

Prepared ==
    /\ Assumed = {"prompt", "tidy", "apart", "unmissed"}
    /\ \A x \in ActivateConditions : x[2].its # "negative"
    /\ \A x \in ActivateConditions \cup ContinueConditions : Effective(x[2])

\* No expiry of the timer is under way.
Quiet(r) == Good(r) /\ (r.counts # 0 => r.armed # "none")

LEMMA CancelQuiet ==
    ASSUME NEW r, Good(r)
    PROVE  Quiet(Cancel(r)) /\ Cancel(r).counts = 0
<1>1. r \in Timer
  BY DEF Good
<1> DEFINE r2 == Cancel(r)
<1>2. /\ r2 \in Timer /\ r2.counts = 0 /\ r2.countsBackup = 0
      /\ r2.armed = "none" /\ r2.its = r.its
  BY <1>1 DEF Cancel, Stop, Timer, Counts
<1> HIDE DEF r2
<1>3. Quiet(r2)
  BY <1>2 DEF Quiet, Good
<1> QED
  BY <1>2, <1>3 DEF r2

LEMMA SetQuiet ==
    ASSUME NEW r, Quiet(r), NEW c \in Condition, c.its # "negative", Effective(c)
    PROVE  /\ Quiet(Set(r, c))
           /\ Set(r, c).counts = r.counts /\ Set(r, c).countsBackup = c.counts
<1>1. r \in Timer
  BY DEF Good, Quiet
<1>2. /\ c.its \in {"none", "once", "cyclic"} /\ c.counts \in Counts
      /\ (c.its = "none" => c.counts = 0) /\ (c.its = "once" => c.counts = 1)
  BY DEF Condition, Effective
<1> DEFINE r2 == Set(r, c)
<1>3. /\ r2 \in Timer /\ r2.counts = r.counts /\ r2.countsBackup = c.counts
      /\ r2.armed = r.armed /\ r2.its = c.its
  BY <1>1, <1>2 DEF Set, Timer
<1> HIDE DEF r2
<1>4. Quiet(r2)
  BY <1>2, <1>3 DEF Quiet, Good
<1> QED
  BY <1>3, <1>4 DEF r2

LEMMA StartQuiet ==
    ASSUME NEW r, Good(r), IsSet(r)
    PROVE  Quiet(Start(r)) /\ Start(r).counts # 0
<1>1. r \in Timer /\ r.countsBackup # 0
  BY DEF Good, IsSet
<1>2. r.its # "none" /\ r.its \in {"none", "once", "cyclic"} /\ (r.its = "once" => r.countsBackup = 1)
  BY <1>1 DEF Good, Timer
<1> DEFINE r2 == Start(r)
<1>3. /\ r2 \in Timer /\ r2.counts = r.countsBackup /\ r2.countsBackup = r.countsBackup
      /\ r2.armed = r.its /\ r2.its = r.its
  BY <1>1, <1>2 DEF Start, Timer
<1> HIDE DEF r2
<1>4. Quiet(r2)
  BY <1>1, <1>2, <1>3 DEF Quiet, Good
<1> QED
  BY <1>1, <1>3, <1>4 DEF r2

\* A start condition without an interrupt starts the timer.
LEMMA StartSetQuiet ==
    ASSUME NEW r, Quiet(r), NEW c \in Condition, c.its # "negative", Effective(c), c.when = None
    PROVE  Quiet(Start(Set(r, c))) /\ Start(Set(r, c)).counts # 0
<1>1. c.counts # 0
  BY DEF Condition, Effective
<1> DEFINE r2 == Set(r, c)
<1>2. Quiet(r2) /\ r2.countsBackup # 0
  BY <1>1, SetQuiet
<1> HIDE DEF r2
<1>3. Quiet(Start(r2)) /\ Start(r2).counts # 0
  BY <1>2, StartQuiet DEF Quiet, IsSet
<1> QED
  BY <1>3 DEF r2

TimersQuiet(tm) ==
    /\ tm \in [Kinds -> [Tasks -> Timer]]
    /\ \A k \in Kinds, t \in Tasks : Quiet(tm[k][t])

Treated == signals = {} /\ signalThread = Idle

\* When all expiries are treated the timers are quiet, and the other way round.
LEMMA TreatedQuiet ==
    ASSUME TimerInv, ExpiryInv, Treated
    PROVE  TimersQuiet(timer)
<1>1. ~Counting
  BY DEF Counting, Treated, Idle
<1> QED
  BY <1>1 DEF TimersQuiet, TimerInv, ExpiryInv, Quiet, Treated

LEMMA QuietTreated ==
    ASSUME TimersQuiet(timer), Treated
    PROVE  TimerInv /\ ExpiryInv
<1>1. ~Counting /\ signalThread.at = "idle" /\ signalThread.at # "store"
  BY DEF Counting, Treated, Idle
<1>2. \A k \in Kinds, t \in Tasks : Good(timer[k][t]) /\ (timer[k][t].counts # 0 => timer[k][t].armed # "none")
  BY DEF TimersQuiet, Quiet
<1>3. TimerInv
  BY <1>2 DEF TimersQuiet, TimerInv
<1>4. ExpiryInv
  BY <1>1, <1>2 DEF ExpiryInv, Treated
<1> QED
  BY <1>3, <1>4

LEMMA OneTimerQuiet ==
    ASSUME NEW tm, TimersQuiet(tm), NEW k \in Kinds, NEW t \in Tasks, NEW r, Quiet(r)
    PROVE  TimersQuiet([tm EXCEPT ![k][t] = r])
<1>1. r \in Timer
  BY DEF Quiet, Good
<1> QED
  BY <1>1 DEF TimersQuiet

LEMMA PreparedConditions ==
    ASSUME Prepared
    PROVE  /\ \A x \in ActivateConditions :
                /\ x[1] \in Tasks /\ x[2] \in Condition
                /\ x[2].its # "negative" /\ Effective(x[2])
           /\ \A x \in ContinueConditions :
                x[1] \in Tasks /\ x[2] \in Condition /\ Effective(x[2])
           /\ \A x \in ResumeConditions : x[1] \in Tasks /\ x[2] \in Condition
BY ConditionTypes DEF Prepared

\* An operation begins when all expiries are treated, and does not change that.
LEMMA StatementTreated ==
    ASSUME Prepared, Statements
    PROVE  Treated /\ Treated'
<1>1. ASSUME Settled PROVE Treated
  BY <1>1 DEF Settled, Prepared, Treated
<1>2. ASSUME Statement, UNCHANGED <<signals, signalThread>> PROVE Treated /\ Treated'
  BY <1>1, <1>2 DEF Statement, Treated
<1>3. ASSUME NEW t \in Tasks, End(t) PROVE Treated /\ Treated'
  BY <1>1, <1>3 DEF End, Treated, timerVars
<1>4. ASSUME NEW t \in Tasks,
             Activate(t) \/ Prevent(t) \/ Suspend(t) \/ Continue(t) \/ Terminate(t)
      PROVE  Statement /\ UNCHANGED <<signals, signalThread>>
  BY <1>4 DEF Activate, Prevent, Suspend, Continue, Terminate, Hang, timerVars
<1>5. ASSUME NEW t, NEW c, ScheduleActivate(t, c) \/ ScheduleContinue(t, c) \/ Resume(t, c)
      PROVE  Statement /\ UNCHANGED <<signals, signalThread>>
  <2>1. CASE ScheduleActivate(t, c)
    BY <2>1 DEF ScheduleActivate, Hang, timerVars
  <2>2. CASE ScheduleContinue(t, c)
    BY <2>2 DEF ScheduleContinue, Hang, timerVars
  <2>3. CASE Resume(t, c)
    BY <2>3 DEF Resume, Hang, timerVars
  <2> QED
    BY <1>5, <2>1, <2>2, <2>3
<1>6. ASSUME NEW i \in Interrupts, Enable(i) \/ Disable(i)
      PROVE  Statement /\ UNCHANGED <<signals, signalThread>>
  BY <1>6 DEF Enable, Disable, timerVars
<1> QED
  BY <1>2, <1>3, <1>4, <1>5, <1>6 DEF Statements

\* An operation leaves every timer stopped or armed.
LEMMA StatementTimers ==
    ASSUME Prepared, TimersQuiet(timer), Statements
    PROVE  TimersQuiet(timer')
<1>1. "activate" \in Kinds /\ "continue" \in Kinds
  BY DEF Kinds
<1>2. \A k \in Kinds, t \in Tasks : Quiet(timer[k][t]) /\ Good(timer[k][t])
  BY DEF TimersQuiet, Quiet
<1>3. ASSUME UNCHANGED timer PROVE TimersQuiet(timer')
  BY <1>3
<1>4. ASSUME Hang PROVE TimersQuiet(timer')
  BY <1>3, <1>4 DEF Hang, timerVars
<1>5. ASSUME NEW k \in Kinds, NEW t \in Tasks
      PROVE  TimersQuiet([timer EXCEPT ![k][t] = Cancel(@)])
  <2>1. Quiet(Cancel(timer[k][t]))
    BY <1>2, CancelQuiet
  <2> QED
    BY <2>1, OneTimerQuiet
<1>6. ASSUME NEW t \in Tasks, Activate(t) PROVE TimersQuiet(timer')
  <2>1. Hang \/ UNCHANGED timer \/ timer' = [timer EXCEPT !["activate"][t] = Cancel(@)]
    BY <1>6 DEF Activate
  <2> QED
    BY <1>1, <1>3, <1>4, <1>5, <2>1
<1>7. ASSUME NEW t \in Tasks, Prevent(t) PROVE TimersQuiet(timer')
  <2>1. CASE Hang
    BY <1>4, <2>1
  <2>2. CASE timer' = [k \in Kinds |-> [timer[k] EXCEPT ![t] = Cancel(@)]]
    <3>1. \A k \in Kinds : Quiet(Cancel(timer[k][t])) /\ Cancel(timer[k][t]) \in Timer
      BY <1>2, CancelQuiet DEF Quiet, Good
    <3> QED
      BY <2>2, <3>1 DEF TimersQuiet
  <2> QED
    BY <1>7, <2>1, <2>2 DEF Prevent
<1>8. ASSUME NEW t \in Tasks, End(t) \/ Terminate(t) \/ Suspend(t) PROVE TimersQuiet(timer')
  BY <1>3, <1>8 DEF End, Terminate, Suspend, timerVars
<1>9. ASSUME NEW t \in Tasks, Continue(t) PROVE TimersQuiet(timer')
  <2>1. Hang \/ timer' = [timer EXCEPT !["continue"][t] = Cancel(@)]
    BY <1>9 DEF Continue
  <2> QED
    BY <1>1, <1>4, <1>5, <2>1
<1>10. ASSUME NEW x \in ActivateConditions, ScheduleActivate(x[1], x[2]) PROVE TimersQuiet(timer')
  <2> DEFINE t == x[1]
             c == x[2]
             r == timer["activate"][t]
  <2>1. t \in Tasks /\ c \in Condition /\ c.its # "negative" /\ Effective(c) /\ Quiet(r)
    BY <1>1, <1>2, PreparedConditions
  <2>2. \/ Hang
        \/ timer' = [timer EXCEPT !["activate"][t] = Set(r, c)]
        \/ c.when = None /\ timer' = [timer EXCEPT !["activate"][t] = Start(Set(r, c))]
    BY <1>10, <2>1 DEF ScheduleActivate
  <2> HIDE DEF t, c, r
  <2>3. Quiet(Set(r, c)) /\ (c.when = None => Quiet(Start(Set(r, c))))
    BY <2>1, SetQuiet, StartSetQuiet
  <2> QED
    BY <1>1, <1>4, <2>1, <2>2, <2>3, OneTimerQuiet
<1>11. ASSUME NEW x \in ContinueConditions, ScheduleContinue(x[1], x[2]) PROVE TimersQuiet(timer')
  <2> DEFINE t == x[1]
             c == x[2]
             r == timer["continue"][t]
  <2>1. t \in Tasks /\ c \in Condition /\ Effective(c) /\ Quiet(r)
    BY <1>1, <1>2, PreparedConditions
  <2>2. \/ Hang
        \/ timer' = [timer EXCEPT !["continue"][t] = r]
        \/ c.its # "negative" /\ timer' = [timer EXCEPT !["continue"][t] = Set(r, c)]
        \/ /\ c.its # "negative" /\ c.when = None
           /\ timer' = [timer EXCEPT !["continue"][t] = Start(Set(r, c))]
    BY <1>11, <2>1 DEF ScheduleContinue
  <2> HIDE DEF t, c, r
  <2>3. c.its # "negative" => Quiet(Set(r, c)) /\ (c.when = None => Quiet(Start(Set(r, c))))
    BY <2>1, SetQuiet, StartSetQuiet
  <2> QED
    BY <1>1, <1>4, <2>1, <2>2, <2>3, OneTimerQuiet
<1>12. ASSUME NEW x \in ResumeConditions, Resume(x[1], x[2]) PROVE TimersQuiet(timer')
  <2> DEFINE t == x[1]
             c == x[2]
             r == timer["continue"][t]
  <2>1. t \in Tasks /\ c \in Condition /\ Quiet(r) /\ Good(r)
    BY <1>1, <1>2, PreparedConditions
  <2>2. \/ Hang
        \/ timer' = [timer EXCEPT !["continue"][t] = Cancel(r)]
        \/ timer' = [timer EXCEPT !["continue"][t] = r]
        \/ /\ c.its = "once" /\ c.when = None
           /\ timer' = [timer EXCEPT !["continue"][t] = Start(Set(r, c))]
    BY <1>12, <2>1 DEF Resume
  <2> HIDE DEF t, c, r
  <2>3. Quiet(Cancel(r))
    BY <2>1, CancelQuiet
  <2>4. c.its = "once" => c.its # "negative" /\ Effective(c)
    BY DEF Effective
  <2>5. c.its = "once" /\ c.when = None => Quiet(Start(Set(r, c)))
    BY <2>1, <2>4, StartSetQuiet
  <2> QED
    BY <1>1, <1>4, <2>1, <2>2, <2>3, <2>5, OneTimerQuiet
<1>13. ASSUME NEW i \in Interrupts, Enable(i) \/ Disable(i) PROVE TimersQuiet(timer')
  BY <1>3, <1>13 DEF Enable, Disable, timerVars
<1> QED
  BY <1>6, <1>7, <1>8, <1>9, <1>10, <1>11, <1>12, <1>13 DEF Statements

ThreadType ==
    [at : {"idle", "update", "store", "callback"}, on : TimerId \cup {None}, counts : Int]

\* The timer of kind k of the task t becomes r.
Becomes(k, t, r) == timer' = [timer EXCEPT ![k][t] = r]

LEMMA OneTimerGood ==
    ASSUME TimerInv, NEW k \in Kinds, NEW t \in Tasks, NEW r, Good(r), Becomes(k, t, r)
    PROVE  /\ TimerInv' /\ timer'[k][t] = r
           /\ \A z \in Kinds, u \in Tasks : <<z, u>> # <<k, t>> => timer'[z][u] = timer[z][u]
<1>1. r \in Timer
  BY DEF Good
<1>2. timer' \in [Kinds -> [Tasks -> Timer]]
  BY <1>1 DEF TimerInv, Becomes
<1>3. timer'[k][t] = r
  BY DEF TimerInv, Becomes
<1>4. \A z \in Kinds, u \in Tasks : <<z, u>> # <<k, t>> => timer'[z][u] = timer[z][u]
  BY DEF TimerInv, Becomes
<1>5. \A z \in Kinds, u \in Tasks : Good(timer'[z][u])
  BY <1>3, <1>4 DEF TimerInv
<1> QED
  BY <1>2, <1>3, <1>4, <1>5 DEF TimerInv

\* A timer expires: it is not at its end, and the expiry before is counted.
LEMMA ExpireTimers ==
    ASSUME Prepared, TimerInv, ExpiryInv, signalThread \in ThreadType,
           NEW k \in Kinds, NEW t \in Tasks, Expire(k, t)
    PROVE  TimerInv' /\ ExpiryInv' /\ \A z \in Kinds, u \in Tasks : timer'[z][u].counts = timer[z][u].counts
<1> DEFINE r == timer[k][t]
           r2 == [r EXCEPT !.armed = IF @ = "once" THEN "none" ELSE @]
<1>1. r \in Timer /\ Good(r)
  BY DEF TimerInv
<1>2. /\ r.armed # "none"
      /\ signalThread.on = <<k, t>> => signalThread.at = "callback"
      /\ signals' = signals \cup {<<k, t>>}
      /\ signalThread' = signalThread
      /\ timer' = [timer EXCEPT ![k][t] = r2]
  BY DEF Expire, Prepared, TimerInv
<1>3. /\ r2 \in Timer /\ r2.counts = r.counts /\ r2.countsBackup = r.countsBackup
      /\ r2.its = r.its /\ r2.armed = IF r.armed = "once" THEN "none" ELSE r.armed
  BY <1>1 DEF Timer
<1>4. r.counts # 0
  BY <1>1, <1>2 DEF Good
<1> HIDE DEF r, r2
<1>5. Good(r2)
  BY <1>1, <1>3 DEF Good
<1>6. /\ TimerInv' /\ timer'[k][t] = r2
      /\ \A z \in Kinds, u \in Tasks : <<z, u>> # <<k, t>> => timer'[z][u] = timer[z][u]
  <2>1. Becomes(k, t, r2)
    BY <1>2 DEF Becomes
  <2> QED
    BY <1>5, <2>1, OneTimerGood
<1>7. \A z \in Kinds, u \in Tasks : timer'[z][u].counts = timer[z][u].counts
  BY <1>3, <1>6 DEF r
<1>8. Counting' = Counting /\ (Counting => signalThread.on # <<k, t>>)
  BY <1>2 DEF Counting
<1>9. ASSUME Counting
      PROVE  /\ signalThread.on \notin signals'
             /\ timer'[signalThread.on[1]][signalThread.on[2]].counts =
                  timer[signalThread.on[1]][signalThread.on[2]].counts
  <2>1. signalThread.on \in TimerId /\ signalThread.on \notin signals
    BY <1>9 DEF ExpiryInv, Counting
  <2>2. signalThread.on[1] \in Kinds /\ signalThread.on[2] \in Tasks
    BY <2>1 DEF TimerId
  <2> QED
    BY <1>2, <1>7, <1>8, <1>9, <2>1, <2>2
<1>10. ASSUME NEW z \in Kinds, NEW u \in Tasks
       PROVE  /\ <<z, u>> \in signals' => timer'[z][u].counts # 0
              /\ timer'[z][u].counts # 0 =>
                   \/ timer'[z][u].armed # "none"
                   \/ <<z, u>> \in signals'
                   \/ Counting' /\ signalThread'.on = <<z, u>>
  <2>1. CASE <<z, u>> = <<k, t>>
    BY <1>2, <1>3, <1>4, <1>6, <2>1
  <2>2. CASE <<z, u>> # <<k, t>>
    BY <1>2, <1>6, <1>8, <2>2 DEF ExpiryInv
  <2> QED
    BY <2>1, <2>2
<1>11. ExpiryInv'
  <2>1. signalThread.at = "store" => Counting
    BY DEF Counting
  <2> QED
    BY <1>2, <1>8, <1>9, <1>10, <2>1 DEF ExpiryInv
<1> QED
  BY <1>6, <1>7, <1>11

LEMMA ReadTimers ==
    ASSUME TimerInv, ExpiryInv, signals \subseteq TimerId, ReadSignal
    PROVE  TimerInv' /\ ExpiryInv'
<1>1. PICK x \in signals : /\ signals' = signals \ {x}
                           /\ signalThread' = [at |-> "update", on |-> x, counts |-> 0]
  BY DEF ReadSignal
<1>2. signalThread.at = "idle" /\ timer' = timer
  BY DEF ReadSignal
<1>3. PICK k \in Kinds, t \in Tasks : x = <<k, t>>
  BY <1>1 DEF TimerId
<1>4. x[1] = k /\ x[2] = t /\ timer[k][t].counts # 0
  BY <1>1, <1>3 DEF ExpiryInv
<1>5. TimerInv'
  BY <1>2 DEF TimerInv
<1>6. /\ signalThread'.at = "update" /\ signalThread'.on = x /\ Counting' /\ ~Counting
  BY <1>1, <1>2 DEF Counting
<1>7. x \in TimerId /\ x \notin signals'
  BY <1>1
<1>8. \A z \in Kinds, u \in Tasks :
         /\ <<z, u>> \in signals' => timer'[z][u].counts # 0
         /\ timer'[z][u].counts # 0 =>
              \/ timer'[z][u].armed # "none"
              \/ <<z, u>> \in signals'
              \/ Counting' /\ signalThread'.on = <<z, u>>
  BY <1>1, <1>2, <1>6 DEF ExpiryInv
<1>9. ExpiryInv'
  BY <1>2, <1>4, <1>6, <1>7, <1>8 DEF ExpiryInv
<1> QED
  BY <1>5, <1>9

LEMMA LoadTimers ==
    ASSUME TimerInv, ExpiryInv, signalThread \in ThreadType, LoadCounts
    PROVE  TimerInv' /\ ExpiryInv' /\ signalThread'.on = signalThread.on
<1> DEFINE x == signalThread.on
           r == timer[x[1]][x[2]]
<1>1. /\ signalThread.at = "update" /\ timer' = timer /\ signals' = signals
      /\ signalThread' = IF r.counts < 0
                         THEN [signalThread EXCEPT !.at = "callback"]
                         ELSE [signalThread EXCEPT !.at = "store", !.counts = r.counts]
  BY DEF LoadCounts
<1>2. Counting /\ x \in TimerId /\ x \notin signals /\ r.counts # 0
  BY <1>1 DEF Counting, ExpiryInv
<1>3. x[1] \in Kinds /\ x[2] \in Tasks /\ x = <<x[1], x[2]>>
  BY <1>2 DEF TimerId
<1>4. Good(r) /\ r.counts \in Int
  BY <1>3 DEF TimerInv, Timer, Counts
<1>5. TimerInv'
  BY <1>1 DEF TimerInv
<1>6. CASE r.counts < 0
  <2>1. signalThread'.at = "callback" /\ signalThread'.on = x /\ ~Counting'
    BY <1>1, <1>6 DEF ThreadType, Counting
  <2>2. r.armed = "cyclic"
    BY <1>4, <1>6 DEF Good
  <2>3. ASSUME NEW z \in Kinds, NEW u \in Tasks
        PROVE  /\ <<z, u>> \in signals' => timer'[z][u].counts # 0
               /\ timer'[z][u].counts # 0 =>
                    timer'[z][u].armed # "none" \/ <<z, u>> \in signals'
    <3>1. CASE <<z, u>> = x
      BY <1>1, <1>2, <2>2, <3>1
    <3>2. CASE <<z, u>> # x
      BY <1>1, <3>2 DEF ExpiryInv
    <3> QED
      BY <3>1, <3>2
  <2>4. ExpiryInv'
    BY <1>2, <2>1, <2>3 DEF ExpiryInv
  <2> QED
    BY <1>5, <2>1, <2>4
<1>7. CASE ~ (r.counts < 0)
  <2>1. /\ signalThread'.at = "store" /\ signalThread'.on = x /\ signalThread'.counts = r.counts
        /\ Counting'
    BY <1>1, <1>7 DEF ThreadType, Counting
  <2>2. r.counts > 0
    BY <1>2, <1>4, <1>7
  <2>3. ExpiryInv'
    <3> HIDE DEF x
    <3>1. \A z \in Kinds, u \in Tasks :
            /\ <<z, u>> \in signals' => timer'[z][u].counts # 0
            /\ timer'[z][u].counts # 0 =>
                 \/ timer'[z][u].armed # "none"
                 \/ <<z, u>> \in signals'
                 \/ Counting' /\ signalThread'.on = <<z, u>>
      BY <1>1, <2>1 DEF ExpiryInv, x
    <3>2. /\ signalThread'.on \in TimerId /\ signalThread'.on \notin signals'
          /\ timer'[signalThread'.on[1]][signalThread'.on[2]].counts = signalThread'.counts
          /\ signalThread'.counts > 0 /\ signalThread'.counts # 0
      BY <1>1, <1>2, <2>1, <2>2 DEF x
    <3> QED
      BY <2>1, <3>1, <3>2 DEF ExpiryInv
  <2> QED
    BY <1>5, <2>1, <2>3
<1> QED
  BY <1>6, <1>7

\* update() writes the count back: the last expiry stops the timer.
LEMMA StoreTimers ==
    ASSUME TimerInv, ExpiryInv, signalThread \in ThreadType, StoreCounts
    PROVE  /\ TimerInv' /\ ExpiryInv' /\ signalThread'.on = signalThread.on
           /\ \A z \in Kinds, u \in Tasks :
                <<z, u>> # signalThread.on => timer'[z][u] = timer[z][u]
<1> DEFINE x == signalThread.on
           k == x[1]
           t == x[2]
           r == timer[k][t]
           r2 == Counted(r, signalThread.counts)
<1>1. /\ signalThread.at = "store" /\ signals' = signals
      /\ signalThread' = [signalThread EXCEPT !.at = "callback"]
      /\ timer' = [timer EXCEPT ![k][t] = r2]
  BY DEF StoreCounts
<1>2. /\ Counting /\ x \in TimerId /\ x \notin signals /\ r.counts > 0
      /\ signalThread.counts = r.counts
  BY <1>1 DEF Counting, ExpiryInv
<1>3. k \in Kinds /\ t \in Tasks /\ x = <<k, t>>
  BY <1>2 DEF TimerId
<1>4. Good(r) /\ r \in Timer /\ r.counts \in Int
  BY <1>3 DEF TimerInv, Timer, Counts
<1>5. signalThread'.at = "callback" /\ signalThread'.on = x /\ ~Counting'
  BY <1>1 DEF ThreadType, Counting
<1>6. Quiet(r2)
  <2>1. CASE r.counts = 1
    <3>1. /\ r2 \in Timer /\ r2.counts = 0 /\ r2.armed = "none" /\ r2.its = r.its
          /\ r2.countsBackup = r.countsBackup
      <4>1. r2 = Stop(r)
        BY <1>2, <2>1 DEF Counted
      <4>2. r \in Timer
        BY <1>4
      <4> HIDE DEF r, r2
      <4> QED
        BY <4>1, <4>2 DEF Stop, Timer, Counts
    <3> HIDE DEF r2
    <3> QED
      BY <1>4, <3>1 DEF Quiet, Good
  <2>2. CASE r.counts # 1
    <3>1. r.armed = "cyclic" /\ r.counts - 1 \in Nat /\ r.counts - 1 # 0
      <4>1. r.counts > 0 /\ r.counts # 1 /\ r.counts \in Int /\ Good(r)
        BY <1>2, <1>4, <2>2
      <4> HIDE DEF r
      <4>2. r.counts - 1 \in Nat /\ r.counts - 1 # 0
        BY <4>1
      <4> QED
        BY <4>1, <4>2 DEF Good
    <3>2. /\ r2 \in Timer /\ r2.counts = r.counts - 1 /\ r2.armed = r.armed /\ r2.its = r.its
          /\ r2.countsBackup = r.countsBackup
      BY <1>2, <1>4, <2>2, <3>1 DEF Counted, Timer, Counts
    <3> HIDE DEF r2
    <3> QED
      BY <1>4, <3>1, <3>2 DEF Quiet, Good
  <2> QED
    BY <2>1, <2>2
<1> HIDE DEF r2, r, k, t
<1>7. /\ TimerInv' /\ timer'[k][t] = r2
      /\ \A z \in Kinds, u \in Tasks : <<z, u>> # <<k, t>> => timer'[z][u] = timer[z][u]
  <2>1. Good(r2)
    BY <1>6 DEF Quiet
  <2>2. Becomes(k, t, r2)
    BY <1>1 DEF Becomes
  <2> HIDE DEF x
  <2> QED
    BY <1>3, <2>1, <2>2, OneTimerGood
<1>8. ASSUME NEW z \in Kinds, NEW u \in Tasks
      PROVE  /\ <<z, u>> \in signals' => timer'[z][u].counts # 0
             /\ timer'[z][u].counts # 0 =>
                  timer'[z][u].armed # "none" \/ <<z, u>> \in signals'
  <2>1. CASE <<z, u>> = <<k, t>>
    BY <1>1, <1>2, <1>3, <1>6, <1>7, <2>1 DEF Quiet
  <2>2. CASE <<z, u>> # <<k, t>>
    BY <1>1, <1>3, <1>7, <2>2 DEF ExpiryInv
  <2> QED
    BY <2>1, <2>2
<1>9. ExpiryInv'
  BY <1>2, <1>5, <1>8 DEF ExpiryInv
<1> QED
  BY <1>3, <1>5, <1>7, <1>9

\* The callback of the signal thread is over.
LEMMA CallbackTimers ==
    ASSUME TimerInv, ExpiryInv, signalThread.at = "callback", signalThread' = Idle,
           UNCHANGED <<timer, signals>>
    PROVE  TimerInv' /\ ExpiryInv'
<1>1. ~Counting /\ ~Counting' /\ signalThread'.at = "idle"
  BY DEF Counting, Idle
<1>2. \A z \in Kinds, u \in Tasks :
        /\ <<z, u>> \in signals' => timer'[z][u].counts # 0
        /\ timer'[z][u].counts # 0 =>
             timer'[z][u].armed # "none" \/ <<z, u>> \in signals'
  BY <1>1 DEF ExpiryInv
<1>3. ExpiryInv'
  BY <1>1, <1>2 DEF ExpiryInv
<1> QED
  BY <1>3 DEF TimerInv

LEMMA TimersKept ==
    ASSUME TimerInv, ExpiryInv, UNCHANGED <<timer, signals, signalThread>>
    PROVE  TimerInv' /\ ExpiryInv'
BY DEF TimerInv, ExpiryInv, Counting

\* trigger() starts the timers that are set; they are quiet before and after.
LEMMA TriggerTimers ==
    ASSUME TimersQuiet(timer), ListInv, NEW i \in Interrupts,
           TriggerContinue(i) \/ TriggerActivate(i)
    PROVE  TimersQuiet(timer')
<1>1. timer \in [Kinds -> [Tasks -> Timer]] /\ "activate" \in Kinds /\ "continue" \in Kinds
  BY DEF Kinds, TimersQuiet
<1>2. ASSUME NEW k \in Kinds, NEW t \in Tasks, IsSet(timer[k][t])
      PROVE  Quiet(Start(timer[k][t])) /\ Start(timer[k][t]) \in Timer
  <2>1. Good(timer[k][t])
    BY DEF TimersQuiet, Quiet
  <2> QED
    BY <1>2, <2>1, StartQuiet DEF Quiet, Good
<1>3. CASE TriggerContinue(i)
  <2> DEFINE t == queue["continue"].head[i]
             r == timer["continue"][t]
  <2>1. CASE UNCHANGED timer
    BY <2>1
  <2>2. CASE IsSet(r) /\ timer' = [timer EXCEPT !["continue"][t] = Start(r)]
    <3>1. t \in Tasks
      <4>1. t # None /\ Linked(queue["continue"], when["continue"])
        BY <1>1, <1>3 DEF TriggerContinue, ListInv
      <4> QED
        BY <4>1, HeadLinked
    <3>2. Quiet(Start(r))
      BY <1>1, <1>2, <2>2, <3>1
    <3> HIDE DEF t, r
    <3> QED
      BY <1>1, <2>2, <3>1, <3>2, OneTimerQuiet
  <2> QED
    BY <1>3, <2>1, <2>2 DEF TriggerContinue
<1>4. CASE TriggerActivate(i)
  <2> DEFINE delayed == {t \in Listed(queue["activate"], i) : IsSet(timer["activate"][t])}
             tm == timer["activate"]
             tm2 == [t \in Tasks |-> IF t \in delayed THEN Start(tm[t]) ELSE tm[t]]
  <2>1. timer' = [timer EXCEPT !["activate"] = tm2]
    BY <1>4 DEF TriggerActivate
  <2>2. \A t \in Tasks : Quiet(tm2[t]) /\ tm2[t] \in Timer
    BY <1>1, <1>2 DEF TimersQuiet
  <2>3. tm2 \in [Tasks -> Timer]
    BY <2>2
  <2> HIDE DEF tm2
  <2>4. timer' \in [Kinds -> [Tasks -> Timer]]
    BY <1>1, <2>1, <2>3
  <2>5. \A k \in Kinds, t \in Tasks : Quiet(timer'[k][t])
    BY <1>1, <2>1, <2>2 DEF TimersQuiet
  <2> QED
    BY <2>4, <2>5 DEF TimersQuiet
<1> QED
  BY <1>3, <1>4

LEMMA NextTimers ==
    ASSUME Prepared, TimerInv, ExpiryInv, TriggerInv, ListInv, signalThread \in ThreadType,
           signals \subseteq TimerId, [Next]_vars
    PROVE  TimerInv' /\ ExpiryInv'
<1>1. ASSUME Treated, Treated', TimersQuiet(timer) => TimersQuiet(timer')
      PROVE  TimerInv' /\ ExpiryInv'
  <2>1. TimersQuiet(timer')
    BY <1>1, TreatedQuiet
  <2>2. TimersQuiet(timer)'
    BY <2>1 DEF TimersQuiet
  <2> QED
    BY <1>1, <2>2, QuietTreated, PTL
<1>2. CASE Statements
  BY <1>1, <1>2, StatementTreated, StatementTimers
<1>3. ASSUME NEW k \in Kinds, NEW t \in Tasks, Expire(k, t) PROVE TimerInv' /\ ExpiryInv'
  BY <1>3, ExpireTimers
<1>4. CASE SignalThread
  <2>1. CASE TimedActivate
    BY <2>1, CallbackTimers DEF TimedActivate
  <2>2. CASE TimedContinue
    BY <2>2, CallbackTimers DEF TimedContinue
  <2> QED
    BY <1>4, <2>1, <2>2, ReadTimers, LoadTimers, StoreTimers DEF SignalThread
<1>5. ASSUME NEW i \in Interrupts, Trigger(i) PROVE TimerInv' /\ ExpiryInv'
  BY <1>5, TimersKept DEF Trigger, timerVars
<1>6. ASSUME NEW i \in Interrupts, Continued(i) PROVE TimerInv' /\ ExpiryInv'
  BY <1>6, TimersKept DEF Continued, timerVars
<1>7. ASSUME NEW i \in Interrupts, TriggerContinue(i) \/ TriggerActivate(i)
      PROVE  TimerInv' /\ ExpiryInv'
  <2>1. trigger[i].at = "going" /\ UNCHANGED <<signals, signalThread>>
    BY <1>7 DEF TriggerContinue, TriggerActivate
  <2>2. Treated /\ Treated'
    BY <2>1 DEF TriggerInv, Treated
  <2>3. TimersQuiet(timer) => TimersQuiet(timer')
    BY <1>7, TriggerTimers
  <2> QED
    BY <1>1, <2>2, <2>3
<1>8. CASE UNCHANGED vars
  BY <1>8, TimersKept DEF vars, timerVars
<1> QED
  BY <1>2, <1>3, <1>4, <1>5, <1>6, <1>7, <1>8 DEF Next, Triggering

----------------------------------------------------------------------------
(* The types.                                                              *)

States == {"TERMINATED", "RUNNING", "SUSPENDED"}

TriggerType == [at : {"idle", "going", "waiting", "thrown"}, on : TaskOrNone]

\* What TypeOK says of the variables that ListInv and TimerInv do not speak of.
OtherTypes ==
    /\ taskState \in [Tasks -> States]
    /\ schedActivateOverrun \in [Tasks -> BOOLEAN]
    /\ signals \subseteq TimerId
    /\ signalThread \in ThreadType
    /\ isEnabled \in [Interrupts -> BOOLEAN]
    /\ trigger \in [Interrupts -> TriggerType]
    /\ mutexTasks \in BOOLEAN
    /\ nbrPendingTasks \in Int
    /\ exited \in BOOLEAN
    /\ beside \in BOOLEAN

LEMMA TypeParts == TypeOK <=> /\ OtherTypes
                              /\ queue \in [Kinds -> Links] /\ when \in [Kinds -> Registrations]
                              /\ timer \in [Kinds -> [Tasks -> Timer]]
BY DEF TypeOK, OtherTypes, States, TriggerType, ThreadType, Links, Registrations

LEMMA MonitorTypes ==
    ASSUME OtherTypes, IncPendingTasks \/ DecPendingTasks \/ UNCHANGED monitorVars
    PROVE  nbrPendingTasks' \in Int /\ exited' \in BOOLEAN /\ beside' \in BOOLEAN
<1>1. nbrPendingTasks' \in Int /\ beside' \in BOOLEAN
  BY DEF OtherTypes, IncPendingTasks, DecPendingTasks, monitorVars
<1>2. CASE IncPendingTasks \/ UNCHANGED monitorVars
  BY <1>1, <1>2 DEF OtherTypes, IncPendingTasks, monitorVars
<1>3. CASE DecPendingTasks
  <2>1. exited' \in BOOLEAN
    BY <1>3, Zenon DEF DecPendingTasks
  <2> QED
    BY <1>1, <2>1
<1> QED
  BY <1>2, <1>3

LEMMA StatementTypes ==
    ASSUME OtherTypes, Statements
    PROVE  OtherTypes'
<1>1. ASSUME Hang PROVE OtherTypes'
  BY <1>1 DEF Hang, OtherTypes, taskVars, timerVars, interruptVars, monitorVars
<1>2. ASSUME NEW t \in Tasks, Activate(t) PROVE OtherTypes'
  <2>1. CASE Hang
    BY <1>1, <2>1
  <2>2. CASE ~Hang
    <3>1. /\ taskState' = [taskState EXCEPT ![t] = "RUNNING"]
          /\ UNCHANGED <<schedActivateOverrun, signals, signalThread, isEnabled, trigger, mutexTasks>>
      BY <1>2, <2>2 DEF Activate
    <3>2. nbrPendingTasks' \in Int /\ exited' \in BOOLEAN /\ beside' \in BOOLEAN
      <4>1. CASE IncPendingTasks
        BY <4>1, MonitorTypes
      <4>2. CASE exited' = (nbrPendingTasks - 1 = 0) /\ UNCHANGED <<nbrPendingTasks, beside>>
        <5>1. exited' \in BOOLEAN
          BY <4>2, Zenon
        <5> QED
          BY <4>2, <5>1 DEF OtherTypes
      <4> QED
        BY <1>2, <2>2, <4>1, <4>2 DEF Activate
    <3> QED
      BY <3>1, <3>2 DEF OtherTypes, States
  <2> QED
    BY <2>1, <2>2
<1>3. ASSUME NEW t \in Tasks, Prevent(t) PROVE OtherTypes'
  <2>1. CASE Hang
    BY <1>1, <2>1
  <2>2. CASE ~Hang
    <3>1. UNCHANGED <<taskVars, signals, signalThread, isEnabled, trigger, mutexTasks>>
      BY <1>3, <2>2 DEF Prevent
    <3>2. nbrPendingTasks' \in Int /\ exited' \in BOOLEAN /\ beside' \in BOOLEAN
      BY <1>3, <2>2, MonitorTypes DEF Prevent
    <3> QED
      BY <3>1, <3>2 DEF OtherTypes, taskVars
  <2> QED
    BY <2>1, <2>2
<1>4. ASSUME NEW t \in Tasks, End(t) \/ Terminate(t) PROVE OtherTypes'
  <2>1. Restarted(t) \/ Ended(t) \/ GoesOnBeside(t)
    BY <1>4 DEF End, Terminate
  <2>2. /\ taskState' \in [Tasks -> States]
        /\ schedActivateOverrun' \in [Tasks -> BOOLEAN]
    BY <2>1 DEF Restarted, Ended, GoesOnBeside, OtherTypes, States
  <2>3. nbrPendingTasks' \in Int /\ exited' \in BOOLEAN /\ beside' \in BOOLEAN
    <3>1. CASE GoesOnBeside(t)
      BY <3>1 DEF GoesOnBeside, OtherTypes
    <3>2. CASE Ended(t)
      BY <3>2, MonitorTypes DEF Ended
    <3>3. CASE UNCHANGED monitorVars
      BY <3>3, MonitorTypes
    <3> QED
      BY <1>4, <3>1, <3>2, <3>3 DEF End, Terminate
  <2> QED
    BY <1>4, <2>2, <2>3 DEF End, Terminate, OtherTypes, timerVars, interruptVars
<1>5. ASSUME NEW t \in Tasks, Suspend(t) PROVE OtherTypes'
  BY <1>5 DEF Suspend, OtherTypes, States, timerVars, interruptVars, monitorVars
<1>6. ASSUME NEW t \in Tasks, Continue(t) PROVE OtherTypes'
  <2>1. CASE Hang
    BY <1>1, <2>1
  <2>2. CASE ~Hang
    BY <1>6, <2>2 DEF Continue, OtherTypes, States, monitorVars
  <2> QED
    BY <2>1, <2>2
<1>7. ASSUME NEW t, NEW c, ScheduleActivate(t, c) PROVE OtherTypes'
  <2>1. CASE Hang
    BY <1>1, <2>1
  <2>2. CASE ~Hang
    <3>1. UNCHANGED <<taskVars, signals, signalThread, isEnabled, trigger>>
      BY <1>7, <2>2 DEF ScheduleActivate
    <3>2. nbrPendingTasks' \in Int /\ exited' \in BOOLEAN /\ beside' \in BOOLEAN
      BY <1>7, <2>2, MonitorTypes DEF ScheduleActivate
    <3>3. mutexTasks' \in BOOLEAN
      BY <1>7, <2>2 DEF ScheduleActivate, OtherTypes
    <3> QED
      BY <3>1, <3>2, <3>3 DEF OtherTypes, taskVars
  <2> QED
    BY <2>1, <2>2
<1>8. ASSUME NEW t, NEW c, ScheduleContinue(t, c) PROVE OtherTypes'
  <2>1. CASE Hang
    BY <1>1, <2>1
  <2>2. CASE ~Hang
    BY <1>8, <2>2 DEF ScheduleContinue, OtherTypes, taskVars, monitorVars
  <2> QED
    BY <2>1, <2>2
<1>9. ASSUME NEW t, NEW c, Resume(t, c) PROVE OtherTypes'
  <2>1. CASE Hang
    BY <1>1, <2>1
  <2>2. CASE ~Hang
    BY <1>9, <2>2 DEF Resume, OtherTypes, States, monitorVars
  <2> QED
    BY <2>1, <2>2
<1>10. ASSUME NEW i \in Interrupts, Enable(i) \/ Disable(i) PROVE OtherTypes'
  BY <1>10 DEF Enable, Disable, OtherTypes, taskVars, timerVars, monitorVars
<1> QED
  BY <1>2, <1>3, <1>4, <1>5, <1>6, <1>7, <1>8, <1>9, <1>10 DEF Statements

LEMMA StartOrNoteTypes ==
    ASSUME OtherTypes, NEW ts, StartOrNote(ts)
    PROVE  taskState' \in [Tasks -> States] /\ schedActivateOverrun' \in [Tasks -> BOOLEAN]
BY DEF StartOrNote, OtherTypes, States

LEMMA NextTypes ==
    ASSUME OtherTypes, ListInv, TimerInv, ExpiryInv, TriggerInv, [Next]_vars
    PROVE  OtherTypes'
<1>1. ASSUME NEW k \in Kinds, NEW t \in Tasks, Expire(k, t) PROVE OtherTypes'
  BY <1>1 DEF Expire, OtherTypes, TimerId, taskVars, interruptVars, monitorVars
<1>2. CASE ReadSignal
  BY <1>2 DEF ReadSignal, OtherTypes, ThreadType, taskVars, interruptVars, monitorVars
<1>3. CASE LoadCounts
  <2> DEFINE x == signalThread.on
  <2>1. x \in TimerId
    BY <1>3 DEF LoadCounts, ExpiryInv
  <2>2. x[1] \in Kinds /\ x[2] \in Tasks
    BY <2>1 DEF TimerId
  <2>3. timer[x[1]][x[2]].counts \in Int
    BY <2>2 DEF TimerInv, Timer, Counts
  <2>4. signalThread' \in ThreadType
    BY <1>3, <2>3 DEF LoadCounts, OtherTypes, ThreadType
  <2> QED
    BY <1>3, <2>4 DEF LoadCounts, OtherTypes, taskVars, interruptVars, monitorVars
<1>4. CASE StoreCounts
  BY <1>4 DEF StoreCounts, OtherTypes, ThreadType, taskVars, interruptVars, monitorVars
<1>5. Idle \in ThreadType
  BY DEF Idle, ThreadType
<1>6. CASE TimedActivate
  <2>1. taskState' \in [Tasks -> States] /\ schedActivateOverrun' \in [Tasks -> BOOLEAN]
    BY <1>6, StartOrNoteTypes DEF TimedActivate
  <2> QED
    BY <1>5, <1>6, <2>1 DEF TimedActivate, OtherTypes, interruptVars, monitorVars
<1>7. CASE TimedContinue
  <2>1. taskState' \in [Tasks -> States]
    BY <1>7 DEF TimedContinue, OtherTypes, States
  <2> QED
    BY <1>5, <1>7, <2>1 DEF TimedContinue, OtherTypes, interruptVars, monitorVars
<1>8. ASSUME NEW i \in Interrupts, Trigger(i) PROVE OtherTypes'
  BY <1>8 DEF Trigger, OtherTypes, TriggerType, taskVars, timerVars, monitorVars
<1>9. ASSUME NEW i \in Interrupts, TriggerContinue(i) PROVE OtherTypes'
  <2> DEFINE t == queue["continue"].head[i]
  <2>1. t \in Tasks
    <3>1. t # None /\ "continue" \in Kinds
      BY <1>9 DEF TriggerContinue, Kinds
    <3>2. Linked(queue["continue"], when["continue"])
      BY <3>1 DEF ListInv
    <3> QED
      BY <3>1, <3>2, HeadLinked
  <2>2. trigger' \in [Interrupts -> TriggerType] /\ mutexTasks' \in BOOLEAN
    <3>1. CASE UNCHANGED <<trigger, mutexTasks>>
      BY <3>1 DEF OtherTypes
    <3>2. CASE /\ trigger' = [trigger EXCEPT ![i] =
                    CASE taskState[t] = "SUSPENDED"  -> [at |-> "waiting", on |-> t]
                      [] taskState[t] = "RUNNING"    -> @
                      [] taskState[t] = "TERMINATED" -> [at |-> "thrown", on |-> None]]
               /\ mutexTasks' = (taskState[t] # "RUNNING")
      <4>1. taskState[t] \in States /\ t \in TaskOrNone /\ None \in TaskOrNone
        BY <2>1 DEF OtherTypes, TaskOrNone
      <4> HIDE DEF t
      <4> QED
        BY <3>2, <4>1 DEF OtherTypes, TriggerType, States
    <3> QED
      BY <1>9, <3>1, <3>2 DEF TriggerContinue
  <2> QED
    BY <1>9, <2>2 DEF TriggerContinue, OtherTypes, taskVars, monitorVars
<1>10. ASSUME NEW i \in Interrupts, Continued(i) PROVE OtherTypes'
  <2>1. taskState' \in [Tasks -> States] /\ trigger' \in [Interrupts -> TriggerType]
    BY <1>10 DEF Continued, OtherTypes, TriggerType, TaskOrNone, States
  <2> QED
    BY <1>10, <2>1 DEF Continued, OtherTypes, timerVars, monitorVars
<1>11. ASSUME NEW i \in Interrupts, TriggerActivate(i) PROVE OtherTypes'
  <2>1. taskState' \in [Tasks -> States] /\ schedActivateOverrun' \in [Tasks -> BOOLEAN]
    BY <1>11, StartOrNoteTypes DEF TriggerActivate
  <2>2. trigger' \in [Interrupts -> TriggerType]
    BY <1>11 DEF TriggerActivate, OtherTypes, TriggerType
  <2> QED
    BY <1>11, <2>1, <2>2 DEF TriggerActivate, OtherTypes, monitorVars
<1>12. CASE UNCHANGED vars
  BY <1>12 DEF vars, OtherTypes, taskVars, timerVars, interruptVars, monitorVars
<1> QED
  BY <1>1, <1>2, <1>3, <1>4, <1>6, <1>7, <1>8, <1>9, <1>10, <1>11, <1>12, StatementTypes
  DEF Next, Triggering, SignalThread

----------------------------------------------------------------------------
(* The triggers.                                                           *)

\* A step that leaves all tasks but t alone does not disturb a trigger, if it does
\* not continue t.
LEMMA WaitKept ==
    ASSUME WaitInv, OtherTypes, UNCHANGED trigger, NEW t,
           t \in Tasks => taskState[t] # "SUSPENDED" \/ ~BeingContinued(t),
           \A u \in Tasks : u # t => /\ taskState'[u] = taskState[u]
                                    /\ when'["continue"][u] = when["continue"][u]
    PROVE  WaitInv'
<1>1. ASSUME NEW i \in Interrupts, trigger[i].at = "waiting"
      PROVE  trigger[i].on \in Tasks /\ trigger[i].on # t
  <2>1. trigger[i] \in TriggerType
    BY DEF OtherTypes
  <2>2. trigger[i] = [at |-> "waiting", on |-> trigger[i].on]
    BY <1>1, <2>1 DEF TriggerType
  <2>3. BeingContinued(trigger[i].on)
    BY <2>2 DEF BeingContinued
  <2> QED
    BY <1>1, <2>3 DEF WaitInv
<1> QED
  BY <1>1 DEF WaitInv

\* Only the continuation of a task that is not being continued, or is not suspended,
\* is changed by an operation.
LEMMA StatementWaits ==
    ASSUME Prepared, WaitInv, OtherTypes, ListInv, Statements
    PROVE  WaitInv'
<1>1. /\ "activate" \in Kinds /\ "continue" \in Kinds /\ "activate" # "continue"
      /\ when \in [Kinds -> Registrations] /\ taskState \in [Tasks -> States]
      /\ None \notin Tasks
  BY SchedulesAssumption DEF Kinds, ListInv, OtherTypes
<1>2. ASSUME UNCHANGED <<taskState, when, trigger>> PROVE WaitInv'
  BY <1>2 DEF WaitInv
<1>3. ASSUME Hang PROVE WaitInv'
  BY <1>2, <1>3 DEF Hang, taskVars, interruptVars
<1>4. ASSUME NEW t \in Tasks, Activate(t) PROVE WaitInv'
  <2>1. CASE Hang
    BY <1>3, <2>1
  <2>2. CASE ~Hang
    <3>1. /\ taskState[t] # "SUSPENDED" /\ UNCHANGED trigger
          /\ taskState' = [taskState EXCEPT ![t] = "RUNNING"]
          /\ when' = [when EXCEPT !["activate"][t] = None]
      BY <1>4, <2>2 DEF Activate
    <3>2. \A u \in Tasks : u # t => /\ taskState'[u] = taskState[u]
                                   /\ when'["continue"][u] = when["continue"][u]
      BY <1>1, <3>1
    <3> QED
      BY <3>1, <3>2, WaitKept
  <2> QED
    BY <2>1, <2>2
<1>5. ASSUME NEW t \in Tasks, Prevent(t) PROVE WaitInv'
  <2>1. CASE Hang
    BY <1>3, <2>1
  <2>2. CASE ~Hang
    <3>1. /\ UNCHANGED <<trigger, taskState>>
          /\ when' = [k \in Kinds |-> [when[k] EXCEPT ![t] = None]]
      BY <1>5, <2>2 DEF Prevent, taskVars
    <3>2. \A u \in Tasks : when["continue"][u] = None => when'["continue"][u] = None
      BY <1>1, <3>1 DEF Registrations
    <3> QED
      BY <3>1, <3>2 DEF WaitInv
  <2> QED
    BY <2>1, <2>2
<1>6. ASSUME NEW t \in Tasks, End(t) \/ Terminate(t) \/ Suspend(t) PROVE WaitInv'
  <2>1. \E s : taskState' = [taskState EXCEPT ![t] = s]
    BY <1>6 DEF End, Terminate, Restarted, Ended, GoesOnBeside, Suspend
  <2>2. \A u \in Tasks : u # t => taskState'[u] = taskState[u]
    BY <1>1, <2>1
  <2>3. taskState[t] # "SUSPENDED" \/ ~BeingContinued(t)
    BY <1>6 DEF End, Terminate, Suspend
  <2>4. UNCHANGED <<trigger, when>>
    BY <1>6 DEF End, Terminate, Suspend, interruptVars
  <2> QED
    BY <2>2, <2>3, <2>4, WaitKept
<1>7. ASSUME NEW t \in Tasks, Continue(t) PROVE WaitInv'
  <2>1. CASE Hang
    BY <1>3, <2>1
  <2>2. CASE ~Hang
    <3>1. ~BeingContinued(t) /\ UNCHANGED trigger
      BY <1>7, <2>2 DEF Continue
    <3>2. /\ taskState' = [taskState EXCEPT ![t] = IF @ = "SUSPENDED" THEN "RUNNING" ELSE @]
          /\ when' = [when EXCEPT !["continue"][t] = None]
      BY <1>7, <2>2 DEF Continue
    <3>3. \A u \in Tasks : u # t => /\ taskState'[u] = taskState[u]
                                   /\ when'["continue"][u] = when["continue"][u]
      BY <1>1, <3>2 DEF Registrations
    <3> QED
      BY <3>1, <3>3, WaitKept
  <2> QED
    BY <2>1, <2>2
<1>8. ASSUME NEW t \in Tasks, NEW c, ScheduleActivate(t, c) PROVE WaitInv'
  <2>1. CASE Hang
    BY <1>3, <2>1
  <2>2. CASE ~Hang
    <3>1. /\ UNCHANGED <<trigger, taskState>>
          /\ UNCHANGED when \/ when' = [when EXCEPT !["activate"][t] = c.when]
      BY <1>8, <2>2 DEF ScheduleActivate, taskVars
    <3>2. when'["continue"] = when["continue"]
      BY <1>1, <3>1
    <3> QED
      BY <3>1, <3>2 DEF WaitInv
  <2> QED
    BY <2>1, <2>2
<1>9. ASSUME NEW t \in Tasks, NEW c, ScheduleContinue(t, c) PROVE WaitInv'
  <2>1. CASE Hang
    BY <1>3, <2>1
  <2>2. CASE ~Hang
    <3>1. ~BeingContinued(t) /\ UNCHANGED <<trigger, taskState>>
      BY <1>9, <2>2 DEF ScheduleContinue, Prepared, taskVars
    <3>2. when' = [when EXCEPT !["continue"][t] = IF c.its = "negative" THEN None ELSE c.when]
      BY <1>9, <2>2 DEF ScheduleContinue
    <3>3. \A u \in Tasks : u # t => when'["continue"][u] = when["continue"][u]
      BY <1>1, <3>2 DEF Registrations
    <3> QED
      BY <3>1, <3>3, WaitKept
  <2> QED
    BY <2>1, <2>2
<1>10. ASSUME NEW t \in Tasks, NEW c, Resume(t, c) PROVE WaitInv'
  <2>1. CASE Hang
    BY <1>3, <2>1
  <2>2. CASE ~Hang
    <3>1. /\ taskState[t] # "SUSPENDED" /\ UNCHANGED trigger
          /\ taskState' = [taskState EXCEPT ![t] = "SUSPENDED"]
          /\ \/ when' = [when EXCEPT !["continue"][t] = c.when]
             \/ when' = [when EXCEPT !["continue"][t] = None]
      BY <1>10, <2>2 DEF Resume
    <3>2. \A u \in Tasks : u # t => /\ taskState'[u] = taskState[u]
                                   /\ when'["continue"][u] = when["continue"][u]
      BY <1>1, <3>1 DEF Registrations
    <3> QED
      BY <3>1, <3>2, WaitKept
  <2> QED
    BY <2>1, <2>2
<1>11. ASSUME NEW i \in Interrupts, Enable(i) \/ Disable(i) PROVE WaitInv'
  BY <1>2, <1>11 DEF Enable, Disable, taskVars
<1> QED
  BY <1>4, <1>5, <1>6, <1>7, <1>8, <1>9, <1>10, <1>11, ConditionTypes DEF Statements

LEMMA TriggerRecord ==
    ASSUME OtherTypes, NEW i \in Interrupts
    PROVE  trigger[i] = [at |-> trigger[i].at, on |-> trigger[i].on]
BY DEF OtherTypes, TriggerType

LEMMA SuspendedKept ==
    ASSUME OtherTypes, NEW ts, StartOrNote(ts)
    PROVE  \A u \in Tasks : taskState[u] # "TERMINATED" => taskState'[u] = taskState[u]
BY DEF StartOrNote

\* The trigger of interrupt i stops waiting or does not wait.
LEMMA OtherWaits ==
    ASSUME WaitInv, NEW i \in Interrupts, trigger'[i].at # "waiting",
           \A j \in Interrupts : j # i => trigger'[j] = trigger[j],
           \A j \in Interrupts : j # i /\ trigger[j].at = "waiting" =>
             /\ taskState'[trigger[j].on] = "SUSPENDED"
             /\ when'["continue"][trigger[j].on] = None
    PROVE  WaitInv'
<1>1. \A j \in Interrupts : trigger'[j].at = "waiting" => j # i /\ trigger'[j] = trigger[j]
  OBVIOUS
<1>2. \A j \in Interrupts : trigger'[j].at = "waiting" =>
         /\ trigger'[j].on \in Tasks
         /\ taskState'[trigger'[j].on] = "SUSPENDED"
         /\ when'["continue"][trigger'[j].on] = None
  BY <1>1 DEF WaitInv
<1>3. ASSUME NEW j \in Interrupts, NEW z \in Interrupts,
             trigger'[j].at = "waiting", trigger'[z] = trigger'[j]
      PROVE  j = z
  BY <1>1, <1>3 DEF WaitInv
<1> QED
  BY <1>2, <1>3 DEF WaitInv

LEMMA TriggeringWaits ==
    ASSUME WaitInv, OtherTypes, ListInv, NEW i \in Interrupts, Trigger(i) \/ Triggering(i)
    PROVE  WaitInv'
<1>1. taskState \in [Tasks -> States] /\ trigger \in [Interrupts -> TriggerType]
  BY DEF OtherTypes
<1>2. CASE Trigger(i)
  <2>1. UNCHANGED <<taskState, when>>
    BY <1>2 DEF Trigger, taskVars
  <2>2. CASE UNCHANGED trigger
    BY <2>1, <2>2 DEF WaitInv
  <2>3. CASE trigger' = [trigger EXCEPT ![i].at = "going"]
    <3>1. trigger'[i].at = "going" /\ \A j \in Interrupts : j # i => trigger'[j] = trigger[j]
      BY <1>1, <2>3 DEF TriggerType
    <3> QED
      BY <2>1, <3>1, OtherWaits DEF WaitInv
  <2> QED
    BY <1>2, <2>2, <2>3 DEF Trigger
<1>3. CASE TriggerActivate(i)
  <2>1. trigger'[i].at = "idle" /\ \A j \in Interrupts : j # i => trigger'[j] = trigger[j]
    BY <1>1, <1>3 DEF TriggerActivate, TriggerType
  <2>2. when' = when /\ \A u \in Tasks : taskState[u] # "TERMINATED" => taskState'[u] = taskState[u]
    BY <1>3, SuspendedKept DEF TriggerActivate
  <2>3. \A j \in Interrupts : trigger[j].at = "waiting" =>
           /\ taskState'[trigger[j].on] = "SUSPENDED"
           /\ when'["continue"][trigger[j].on] = None
    BY <2>2 DEF WaitInv
  <2> QED
    BY <2>1, <2>3, OtherWaits
<1>4. CASE Continued(i)
  <2> DEFINE t == trigger[i].on
  <2>1. /\ trigger[i].at = "waiting" /\ taskState' = [taskState EXCEPT ![t] = "RUNNING"]
        /\ trigger' = [trigger EXCEPT ![i] = [at |-> "going", on |-> None]] /\ when' = when
    BY <1>4 DEF Continued
  <2>2. trigger'[i].at = "going" /\ \A j \in Interrupts : j # i => trigger'[j] = trigger[j]
    BY <1>1, <2>1
  <2>3. ASSUME NEW j \in Interrupts, j # i, trigger[j].at = "waiting"
        PROVE  /\ taskState'[trigger[j].on] = "SUSPENDED"
               /\ when'["continue"][trigger[j].on] = None
    <3>1. trigger[j].on # t
      <4>1. SUFFICES ASSUME trigger[j].on = t PROVE FALSE
        OBVIOUS
      <4>2. trigger[j] = trigger[i]
        BY <1>1, <2>1, <2>3, <4>1, TriggerRecord
      <4> QED
        BY <2>1, <2>3, <4>2 DEF WaitInv
    <3>2. /\ trigger[j].on \in Tasks /\ taskState[trigger[j].on] = "SUSPENDED"
          /\ when["continue"][trigger[j].on] = None
      BY <2>3 DEF WaitInv
    <3> QED
      BY <1>1, <2>1, <3>1, <3>2
  <2> QED
    BY <2>2, <2>3, OtherWaits
<1>5. CASE TriggerContinue(i)
  <2> DEFINE t == queue["continue"].head[i]
  <2>1. /\ trigger[i].at = "going" /\ t # None /\ "continue" \in Kinds
        /\ when' = [when EXCEPT !["continue"][t] = None] /\ taskState' = taskState
    BY <1>5 DEF TriggerContinue, Kinds, taskVars
  <2>2. t \in Tasks /\ when["continue"][t] = i
    <3>1. Linked(queue["continue"], when["continue"])
      BY <2>1 DEF ListInv
    <3> QED
      BY <2>1, <3>1, HeadLinked
  <2>3. when \in [Kinds -> Registrations] /\ i # None
    BY SchedulesAssumption DEF ListInv
  <2>4. /\ when'["continue"][t] = None
        /\ \A u \in Tasks : u # t => when'["continue"][u] = when["continue"][u]
    BY <2>1, <2>2, <2>3 DEF Registrations
  <2>5. ASSUME NEW j \in Interrupts, trigger[j].at = "waiting"
        PROVE  /\ trigger[j].on \in Tasks /\ trigger[j].on # t /\ j # i
               /\ taskState'[trigger[j].on] = "SUSPENDED"
               /\ when'["continue"][trigger[j].on] = None
    BY <2>1, <2>2, <2>3, <2>4, <2>5 DEF WaitInv
  <2> HIDE DEF t
  <2>6. CASE taskState[t] = "SUSPENDED" /\ trigger' = [trigger EXCEPT ![i] = [at |-> "waiting", on |-> t]]
    <3>1. /\ trigger'[i] = [at |-> "waiting", on |-> t]
          /\ \A j \in Interrupts : j # i => trigger'[j] = trigger[j]
      BY <1>1, <2>6
    <3>2. trigger'[i].on = t
      BY <3>1
    <3>3. ASSUME NEW j \in Interrupts, trigger'[j].at = "waiting"
          PROVE  /\ trigger'[j].on \in Tasks
                 /\ taskState'[trigger'[j].on] = "SUSPENDED"
                 /\ when'["continue"][trigger'[j].on] = None
                 /\ j # i => trigger'[j].on # t /\ trigger[j].at = "waiting"
      <4>1. CASE j = i
        BY <2>1, <2>2, <2>4, <2>6, <3>2, <4>1
      <4>2. CASE j # i
        BY <2>5, <3>1, <3>3, <4>2
      <4> QED
        BY <4>1, <4>2
    <3>4. ASSUME NEW j \in Interrupts, NEW z \in Interrupts,
                 trigger'[j].at = "waiting", trigger'[z] = trigger'[j]
          PROVE  j = z
      <4>1. trigger'[z].at = "waiting" /\ trigger'[z].on = trigger'[j].on
        BY <3>4
      <4>2. CASE j = i \/ z = i
        BY <3>2, <3>3, <3>4, <4>1, <4>2
      <4>3. CASE j # i /\ z # i
        <5>1. trigger[z] = trigger[j] /\ trigger[j].at = "waiting"
          BY <3>1, <3>3, <3>4, <4>3
        <5> QED
          BY <5>1 DEF WaitInv
      <4> QED
        BY <4>2, <4>3
    <3> QED
      BY <3>3, <3>4 DEF WaitInv
  <2>7. CASE /\ trigger'[i].at # "waiting"
             /\ \A j \in Interrupts : j # i => trigger'[j] = trigger[j]
    BY <2>5, <2>7, OtherWaits
  <2>8. CASE UNCHANGED trigger
    BY <2>1, <2>7, <2>8
  <2>9. CASE taskState[t] = "TERMINATED" /\ trigger' = [trigger EXCEPT ![i] = [at |-> "thrown", on |-> None]]
    <3>1. trigger'[i].at # "waiting" /\ \A j \in Interrupts : j # i => trigger'[j] = trigger[j]
      BY <1>1, <2>9
    <3> QED
      BY <2>7, <3>1
  <2>10. CASE taskState[t] = "RUNNING" /\ trigger' = [trigger EXCEPT ![i] = trigger[i]]
    <3>1. trigger' = trigger
      BY <2>10 DEF OtherTypes
    <3> QED
      BY <2>8, <3>1
  <2>11. taskState[t] \in States
    BY <1>1, <2>2
  <2> QED
    BY <1>5, <2>6, <2>8, <2>9, <2>10, <2>11 DEF TriggerContinue, States, t
<1> QED
  BY <1>2, <1>3, <1>4, <1>5 DEF Triggering

LEMMA NextTriggers ==
    ASSUME Prepared, TriggerInv, OtherTypes, ListInv, [Next]_vars
    PROVE  TriggerInv'
<1>1. WaitInv
  BY DEF TriggerInv
<1>2. ASSUME Treated', WaitInv' PROVE TriggerInv'
  BY <1>2 DEF TriggerInv, Treated
<1>3. ASSUME ~Treated \/ UNCHANGED <<signals, signalThread>>, UNCHANGED trigger, WaitInv'
      PROVE  TriggerInv'
  BY <1>3 DEF TriggerInv, Treated
<1>4. ASSUME UNCHANGED <<taskState, when, trigger>> PROVE WaitInv'
  BY <1>1, <1>4 DEF WaitInv
<1>5. CASE Statements
  BY <1>1, <1>2, <1>5, StatementTreated, StatementWaits
<1>6. ASSUME NEW k \in Kinds, NEW t \in Tasks, Expire(k, t) PROVE TriggerInv'
  <2>1. UNCHANGED <<taskState, when, trigger>> /\ \A i \in Interrupts : trigger[i].at \in {"idle", "thrown"}
    BY <1>6 DEF Expire, Prepared, taskVars, interruptVars
  <2> QED
    BY <1>4, <2>1 DEF TriggerInv
<1>7. CASE ReadSignal \/ LoadCounts \/ StoreCounts
  <2>1. ~Treated
    BY <1>7 DEF ReadSignal, LoadCounts, StoreCounts, Treated, Idle
  <2>2. UNCHANGED <<taskState, when, trigger>>
    BY <1>7 DEF ReadSignal, LoadCounts, StoreCounts, taskVars, interruptVars
  <2> QED
    BY <1>3, <1>4, <2>1, <2>2
<1>8. CASE TimedActivate
  <2>1. ~Treated /\ UNCHANGED <<when, trigger>>
    BY <1>8 DEF TimedActivate, Treated, Idle, interruptVars
  <2>2. \A u \in Tasks : taskState[u] # "TERMINATED" => taskState'[u] = taskState[u]
    BY <1>8, SuspendedKept DEF TimedActivate
  <2>3. WaitInv'
    BY <1>1, <2>1, <2>2 DEF WaitInv
  <2> QED
    BY <1>3, <2>1, <2>3
<1>9. CASE TimedContinue
  <2> DEFINE t == signalThread.on[2]
  <2>1. /\ ~Treated /\ UNCHANGED <<when, trigger>> /\ ~BeingContinued(t)
        /\ taskState' = [taskState EXCEPT ![t] = IF @ = "SUSPENDED" THEN "RUNNING" ELSE @]
    BY <1>9 DEF TimedContinue, Treated, Idle, interruptVars
  <2> HIDE DEF t
  <2>2. \A u \in Tasks : u # t => taskState'[u] = taskState[u]
    BY <2>1 DEF OtherTypes
  <2>3. WaitInv'
    BY <1>1, <2>1, <2>2, WaitKept
  <2> QED
    BY <1>3, <2>1, <2>3
<1>10. ASSUME NEW i \in Interrupts, Trigger(i) \/ Triggering(i) PROVE TriggerInv'
  <2>1. CASE Trigger(i)
    <3>1. Treated /\ Treated'
      BY <2>1 DEF Trigger, Settled, Prepared, Treated, timerVars
    <3> QED
      BY <1>1, <1>2, <1>10, <3>1, TriggeringWaits
  <2>2. CASE Triggering(i)
    <3>1. trigger[i].at \in {"going", "waiting"} /\ UNCHANGED <<signals, signalThread>>
      BY <2>2 DEF Triggering, TriggerContinue, Continued, TriggerActivate, timerVars
    <3>2. Treated'
      BY <3>1 DEF TriggerInv, Treated
    <3> QED
      BY <1>1, <1>2, <1>10, <3>2, TriggeringWaits
  <2> QED
    BY <1>10, <2>1, <2>2
<1>11. CASE UNCHANGED vars
  BY <1>3, <1>4, <1>11 DEF vars, taskVars, timerVars, interruptVars
<1> QED
  BY <1>5, <1>6, <1>7, <1>8, <1>9, <1>10, <1>11 DEF Next, SignalThread

----------------------------------------------------------------------------
(* The count of pending tasks.                                             *)

Pending(t) == taskState[t] # "TERMINATED" \/ Scheduled(t) \/ UnderWay("activate", t)

PendingTasks == {t \in Tasks : Pending(t)}

LEMMA PendingParts ==
    PendingCounted <=> /\ nbrPendingTasks = Cardinality(PendingTasks)
                       /\ exited <=> nbrPendingTasks = 0
BY DEF PendingCounted, PendingTasks, Pending

LEMMA PendingFinite == IsFiniteSet(PendingTasks) /\ Cardinality(PendingTasks) \in Nat
<1>1. PendingTasks \in SUBSET Tasks
  BY DEF PendingTasks
<1>2. IsFiniteSet(PendingTasks)
  BY <1>1, FS_Subset, SchedulesAssumption
<1> QED
  BY <1>2, FS_CardinalityType

LEMMA CountKept ==
    ASSUME PendingCounted, nbrPendingTasks' = nbrPendingTasks, exited' <=> exited,
           \A t \in Tasks : Pending(t)' <=> Pending(t)
    PROVE  PendingCounted'
<1>1. PendingTasks' = PendingTasks
  BY DEF PendingTasks
<1>2. nbrPendingTasks = Cardinality(PendingTasks) /\ (exited <=> nbrPendingTasks = 0)
  BY PendingParts
<1>3. nbrPendingTasks' = Cardinality(PendingTasks') /\ (exited' <=> nbrPendingTasks' = 0)
  BY <1>1, <1>2
<1> QED
  BY <1>3 DEF PendingCounted, PendingTasks, Pending

\* A task becomes pending.
LEMMA CountUp ==
    ASSUME PendingCounted, IncPendingTasks, ~exited, NEW t \in Tasks, ~Pending(t), Pending(t)',
           \A u \in Tasks : u # t => (Pending(u)' <=> Pending(u))
    PROVE  PendingCounted'
<1>1. PendingTasks' = PendingTasks \cup {t} /\ t \notin PendingTasks
  BY DEF PendingTasks
<1>2. Cardinality(PendingTasks') = Cardinality(PendingTasks) + 1
  BY <1>1, PendingFinite, FS_AddElement
<1>3. nbrPendingTasks = Cardinality(PendingTasks)
  BY PendingParts
<1>4. nbrPendingTasks' = Cardinality(PendingTasks') /\ nbrPendingTasks' # 0 /\ exited' = exited
  BY <1>2, <1>3, PendingFinite DEF IncPendingTasks
<1>5. nbrPendingTasks' = Cardinality(PendingTasks') /\ (exited' <=> nbrPendingTasks' = 0)
  BY <1>4
<1> QED
  BY <1>5 DEF PendingCounted, PendingTasks, Pending

\* A task is not pending any more; the last one ends the program.
LEMMA CountDown ==
    ASSUME PendingCounted, DecPendingTasks, NEW t \in Tasks, Pending(t), ~Pending(t)',
           \A u \in Tasks : u # t => (Pending(u)' <=> Pending(u))
    PROVE  PendingCounted'
<1>1. PendingTasks' = PendingTasks \ {t} /\ t \in PendingTasks
  BY DEF PendingTasks
<1>2. Cardinality(PendingTasks') = Cardinality(PendingTasks) - 1
  BY <1>1, PendingFinite, FS_RemoveElement
<1>3. nbrPendingTasks = Cardinality(PendingTasks)
  BY PendingParts
<1>4. nbrPendingTasks' = Cardinality(PendingTasks')
  BY <1>2, <1>3, PendingFinite DEF DecPendingTasks
<1>5. exited' <=> nbrPendingTasks' = 0
  BY DEF DecPendingTasks
<1> QED
  BY <1>4, <1>5 DEF PendingCounted, PendingTasks, Pending

\* Active or scheduled.
Busy(t) ==
    taskState[t] # "TERMINATED" \/ timer["activate"][t].counts # 0 \/ when["activate"][t] # None

\* When all expiries are treated a pending task is active or scheduled.
LEMMA TreatedBusy ==
    ASSUME Treated, NEW t \in Tasks
    PROVE  Pending(t) <=> Busy(t)
<1>1. None # <<"activate", t>>
  BY SchedulesAssumption DEF Kinds
<1>2. signals = {} /\ signalThread.on = None
  BY DEF Treated, Idle
<1> QED
  BY <1>1, <1>2 DEF Pending, Busy, Scheduled, UnderWay, IsActive

LEMMA TreatedBusyNext ==
    ASSUME Treated', NEW t \in Tasks
    PROVE  Pending(t)' <=> Busy(t)'
<1>1. None # <<"activate", t>>
  BY SchedulesAssumption DEF Kinds
<1>2. signals' = {} /\ signalThread'.on = None
  BY DEF Treated, Idle
<1> QED
  BY <1>1, <1>2 DEF Pending, Busy, Scheduled, UnderWay, IsActive

\* An operation on t: how the count changes with t.
LEMMA OperationCounted ==
    ASSUME PendingCounted, ~exited, Treated, Treated', NEW t \in Tasks,
           \A u \in Tasks : u # t => (Busy(u)' <=> Busy(u)),
           \/ Busy(t) /\ Busy(t)' /\ UNCHANGED monitorVars
           \/ ~Busy(t) /\ ~Busy(t)' /\ UNCHANGED monitorVars
           \/ ~Busy(t) /\ Busy(t)' /\ IncPendingTasks
           \/ Busy(t) /\ ~Busy(t)' /\ DecPendingTasks
    PROVE  PendingCounted'
<1>1. \A u \in Tasks : Pending(u) <=> Busy(u)
  BY TreatedBusy
<1>2. \A u \in Tasks : Pending(u)' <=> Busy(u)'
  BY TreatedBusyNext
<1>3. CASE (Busy(t)' <=> Busy(t)) /\ UNCHANGED monitorVars
  <2>1. nbrPendingTasks' = nbrPendingTasks /\ (exited' <=> exited)
    BY <1>3 DEF monitorVars
  <2>2. \A u \in Tasks : Pending(u)' <=> Pending(u)
    BY <1>1, <1>2, <1>3
  <2> QED
    BY <2>1, <2>2, CountKept
<1>4. CASE ~Busy(t) /\ Busy(t)' /\ IncPendingTasks
  BY <1>1, <1>2, <1>4, CountUp
<1>5. CASE Busy(t) /\ ~Busy(t)' /\ DecPendingTasks
  BY <1>1, <1>2, <1>5, CountDown
<1> QED
  BY <1>3, <1>4, <1>5

LEMMA BusyKept ==
    ASSUME NEW u, timer'["activate"][u].counts = timer["activate"][u].counts,
           when'["activate"][u] = when["activate"][u],
           taskState'[u] = "TERMINATED" <=> taskState[u] = "TERMINATED"
    PROVE  Busy(u)' <=> Busy(u)
BY DEF Busy

LEMMA ActivateCounted ==
    ASSUME PendingCounted, Treated, Treated', OtherTypes, ListInv, TimerInv,
           NEW t \in Tasks, Activate(t), ~Hang
    PROVE  PendingCounted'
<1>1. /\ ~exited /\ taskState[t] = "TERMINATED"
      /\ taskState' = [taskState EXCEPT ![t] = "RUNNING"]
      /\ when' = [when EXCEPT !["activate"][t] = None]
      /\ \/ timer' = [timer EXCEPT !["activate"][t] = Cancel(@)]
         \/ timer' = timer
  BY DEF Activate, Statement, Runs
<1>2. PICK me \in Tasks : taskState[me] = "RUNNING"
  BY DEF Activate, Statement
<1>3. /\ taskState \in [Tasks -> States] /\ when \in [Kinds -> Registrations]
      /\ timer \in [Kinds -> [Tasks -> Timer]] /\ "activate" \in Kinds
  BY DEF OtherTypes, ListInv, TimerInv, Kinds
<1>4. ASSUME NEW u \in Tasks, u # t PROVE Busy(u)' <=> Busy(u)
  <2>1. /\ timer'["activate"][u] = timer["activate"][u]
        /\ when'["activate"][u] = when["activate"][u] /\ taskState'[u] = taskState[u]
    BY <1>1, <1>3, <1>4 DEF Registrations
  <2> QED
    BY <2>1, BusyKept
<1>5. Busy(t)'
  BY <1>1, <1>3 DEF Busy
<1>6. Busy(t) <=> Scheduled(t)
  BY <1>1 DEF Busy, Scheduled, IsActive
<1>7. CASE ~Scheduled(t)
  <2>1. IncPendingTasks
    BY <1>7 DEF Activate
  <2> QED
    BY <1>1, <1>4, <1>5, <1>6, <1>7, <2>1, OperationCounted
<1>8. CASE Scheduled(t)
  <2>1. /\ nbrPendingTasks' = nbrPendingTasks
        /\ exited' = (nbrPendingTasks - 1 = 0)
    BY <1>8 DEF Activate
  <2>2. t \in PendingTasks /\ me \in PendingTasks /\ me # t
    BY <1>1, <1>2, <1>8 DEF PendingTasks, Pending
  <2>3. Cardinality(PendingTasks) # 1
    <3>1. ~ \E x : PendingTasks = {x}
      BY <2>2
    <3> QED
      BY <3>1, PendingFinite, FS_Singleton
  <2>4. nbrPendingTasks # 1 /\ nbrPendingTasks \in Int
    BY <2>3, PendingParts DEF OtherTypes
  <2>5. ~exited'
    <3>1. nbrPendingTasks - 1 # 0
      BY <2>4
    <3> QED
      BY <2>1, <3>1, Zenon
  <2>6. UNCHANGED nbrPendingTasks /\ (exited' <=> exited)
    BY <1>1, <2>1, <2>5
  <2>7. \A u \in Tasks : Pending(u) <=> Busy(u)
    BY TreatedBusy
  <2>8. \A u \in Tasks : Pending(u)' <=> Busy(u)'
    BY TreatedBusyNext
  <2>9. \A u \in Tasks : Pending(u)' <=> Pending(u)
    BY <1>4, <1>5, <1>6, <1>8, <2>7, <2>8
  <2> QED
    BY <2>6, <2>9, CountKept
<1> QED
  BY <1>7, <1>8

\* A step that neither schedules nor starts nor ends a task does not count.
LEMMA NothingCounted ==
    ASSUME PendingCounted, Treated, Treated', UNCHANGED monitorVars,
           \A u \in Tasks : Busy(u)' <=> Busy(u)
    PROVE  PendingCounted'
<1>1. \A u \in Tasks : Pending(u)' <=> Pending(u)
  BY TreatedBusy, TreatedBusyNext
<1>2. nbrPendingTasks' = nbrPendingTasks /\ (exited' <=> exited)
  BY DEF monitorVars
<1> QED
  BY <1>1, <1>2, CountKept

LEMMA StatementCounted ==
    ASSUME Prepared, PendingCounted, TimersQuiet(timer), OtherTypes, ListInv, TimerInv, Statements
    PROVE  PendingCounted'
<1>1. Treated /\ Treated'
  BY StatementTreated
<1>2. /\ taskState \in [Tasks -> States] /\ when \in [Kinds -> Registrations]
      /\ timer \in [Kinds -> [Tasks -> Timer]]
      /\ "activate" \in Kinds /\ "continue" \in Kinds /\ "activate" # "continue"
  BY DEF OtherTypes, ListInv, TimerInv, Kinds
<1>3. ASSUME UNCHANGED monitorVars, timer'["activate"] = timer["activate"],
             when'["activate"] = when["activate"],
             \A u \in Tasks : taskState'[u] = "TERMINATED" <=> taskState[u] = "TERMINATED"
      PROVE  PendingCounted'
  <2>1. \A u \in Tasks : Busy(u)' <=> Busy(u)
    BY <1>3, BusyKept
  <2> QED
    BY <1>1, <1>3, <2>1, NothingCounted
<1>4. CASE Hang
  BY <1>3, <1>4 DEF Hang, taskVars, timerVars, interruptVars
<1>5. ASSUME NEW t \in Tasks, Activate(t), ~Hang PROVE PendingCounted'
  BY <1>1, <1>5, ActivateCounted
<1>6. ASSUME NEW t \in Tasks, Prevent(t), ~Hang PROVE PendingCounted'
  <2>1. /\ ~exited /\ UNCHANGED taskState
        /\ timer' = [k \in Kinds |-> [timer[k] EXCEPT ![t] = Cancel(@)]]
        /\ when' = [k \in Kinds |-> [when[k] EXCEPT ![t] = None]]
        /\ IF taskState[t] = "TERMINATED" /\ Scheduled(t)
           THEN DecPendingTasks ELSE UNCHANGED monitorVars
    BY <1>6 DEF Prevent, Statement, Runs, taskVars
  <2>2. Good(timer["activate"][t])
    BY <1>2 DEF TimerInv
  <2>3. Cancel(timer["activate"][t]).counts = 0
    BY <2>2, CancelQuiet
  <2>4. timer'["activate"][t].counts = 0 /\ when'["activate"][t] = None
    BY <1>2, <2>1, <2>3 DEF Registrations
  <2>5. Busy(t)' <=> taskState[t] # "TERMINATED"
    BY <2>1, <2>4 DEF Busy
  <2>6. Busy(t) <=> taskState[t] # "TERMINATED" \/ Scheduled(t)
    BY DEF Busy, Scheduled, IsActive
  <2>7. ASSUME NEW u \in Tasks, u # t PROVE Busy(u)' <=> Busy(u)
    <3>1. /\ timer'["activate"][u] = timer["activate"][u]
          /\ when'["activate"][u] = when["activate"][u] /\ taskState'[u] = taskState[u]
      BY <1>2, <2>1, <2>7 DEF Registrations
    <3> QED
      BY <3>1, BusyKept
  <2> QED
    BY <1>1, <2>1, <2>5, <2>6, <2>7, OperationCounted
<1>7. ASSUME NEW t \in Tasks, End(t) \/ Terminate(t) PROVE PendingCounted'
  <2>1. ~exited /\ taskState[t] # "TERMINATED" /\ UNCHANGED <<timer, when>>
    BY <1>7 DEF End, Terminate, Statement, Runs, timerVars, interruptVars
  <2>2. Ended(t) \/ (Restarted(t) /\ UNCHANGED monitorVars)
    <3>1. "unmissed" \in Assumed
      BY DEF Prepared
    <3> QED
      BY <1>7, <3>1 DEF End, Terminate, Unmissed
  <2>3. CASE Restarted(t) /\ UNCHANGED monitorVars
    <3>1. \A u \in Tasks : taskState'[u] = "TERMINATED" <=> taskState[u] = "TERMINATED"
      BY <1>2, <2>1, <2>3 DEF Restarted
    <3> QED
      BY <1>3, <2>1, <2>3, <3>1
  <2>4. CASE Ended(t)
    <3>1. /\ taskState' = [taskState EXCEPT ![t] = "TERMINATED"]
          /\ IF Scheduled(t) THEN UNCHANGED monitorVars ELSE DecPendingTasks
      BY <2>4 DEF Ended
    <3>2. Busy(t) /\ (Busy(t)' <=> Scheduled(t))
      BY <1>2, <2>1, <3>1 DEF Busy, Scheduled, IsActive
    <3>3. ASSUME NEW u \in Tasks, u # t PROVE Busy(u)' <=> Busy(u)
      <4>1. taskState'[u] = taskState[u]
        BY <1>2, <3>1, <3>3
      <4> QED
        BY <2>1, <4>1, BusyKept
    <3> QED
      BY <1>1, <2>1, <3>1, <3>2, <3>3, OperationCounted
  <2> QED
    BY <2>2, <2>3, <2>4
<1>8. ASSUME NEW t \in Tasks, Suspend(t) PROVE PendingCounted'
  <2>1. /\ UNCHANGED <<timer, when, monitorVars>>
        /\ \A u \in Tasks : taskState'[u] = "TERMINATED" <=> taskState[u] = "TERMINATED"
    BY <1>2, <1>8 DEF Suspend, timerVars, interruptVars
  <2> QED
    BY <1>3, <2>1
<1>9. ASSUME NEW t \in Tasks, Continue(t), ~Hang PROVE PendingCounted'
  <2>1. /\ UNCHANGED monitorVars
        /\ taskState' = [taskState EXCEPT ![t] = IF @ = "SUSPENDED" THEN "RUNNING" ELSE @]
        /\ timer' = [timer EXCEPT !["continue"][t] = Cancel(@)]
        /\ when' = [when EXCEPT !["continue"][t] = None]
    BY <1>9 DEF Continue
  <2>2. timer'["activate"] = timer["activate"] /\ when'["activate"] = when["activate"]
    BY <1>2, <2>1
  <2>3. \A u \in Tasks : taskState'[u] = "TERMINATED" <=> taskState[u] = "TERMINATED"
    BY <1>2, <2>1
  <2> QED
    BY <1>3, <2>1, <2>2, <2>3
<1>10. ASSUME NEW x \in ActivateConditions, ScheduleActivate(x[1], x[2]), ~Hang
       PROVE  PendingCounted'
  <2> DEFINE t == x[1]
             c == x[2]
             r == timer["activate"][t]
  <2>1. t \in Tasks /\ c \in Condition /\ c.its # "negative" /\ Effective(c)
    BY PreparedConditions
  <2>2. Quiet(r)
    BY <1>2, <2>1 DEF TimersQuiet
  <2>3. /\ ~exited /\ UNCHANGED taskState
        /\ IF Scheduled(t) \/ taskState[t] # "TERMINATED" THEN UNCHANGED monitorVars ELSE IncPendingTasks
        /\ \/ /\ c.when # None /\ timer' = [timer EXCEPT !["activate"][t] = Set(r, c)]
              /\ when' = [when EXCEPT !["activate"][t] = c.when]
           \/ /\ c.when = None /\ timer' = [timer EXCEPT !["activate"][t] = Start(Set(r, c))]
              /\ UNCHANGED when
    BY <1>10, <2>1 DEF ScheduleActivate, Statement, Runs, taskVars
  <2>4. Busy(t) <=> Scheduled(t) \/ taskState[t] # "TERMINATED"
    BY DEF Busy, Scheduled, IsActive
  <2> HIDE DEF t, c, r
  <2>5. Busy(t)'
    <3>1. CASE c.when # None
      <4>1. when'["activate"][t] = c.when
        BY <1>2, <2>1, <2>3, <3>1 DEF Registrations
      <4> QED
        BY <3>1, <4>1 DEF Busy
    <3>2. CASE c.when = None
      <4>1. Start(Set(r, c)).counts # 0
        BY <2>1, <2>2, <3>2, StartSetQuiet
      <4>2. timer'["activate"][t] = Start(Set(r, c))
        BY <1>2, <2>1, <2>3, <3>2
      <4> QED
        BY <4>1, <4>2 DEF Busy
    <3> QED
      BY <3>1, <3>2
  <2>6. ASSUME NEW u \in Tasks, u # t PROVE Busy(u)' <=> Busy(u)
    <3>1. timer'["activate"][u] = timer["activate"][u] /\ taskState'[u] = taskState[u]
      BY <1>2, <2>1, <2>3, <2>6
    <3>2. when'["activate"][u] = when["activate"][u]
      BY <1>2, <2>1, <2>3, <2>6 DEF Registrations
    <3> QED
      BY <3>1, <3>2, BusyKept
  <2> QED
    BY <1>1, <2>1, <2>3, <2>4, <2>5, <2>6, OperationCounted
<1>11. ASSUME NEW t \in Tasks, NEW c, ScheduleContinue(t, c), ~Hang PROVE PendingCounted'
  <2>1. /\ UNCHANGED <<monitorVars, taskState>>
        /\ \E y : timer' = [timer EXCEPT !["continue"][t] = y]
        /\ \E y : when' = [when EXCEPT !["continue"][t] = y]
    BY <1>11 DEF ScheduleContinue, taskVars
  <2>2. timer'["activate"] = timer["activate"] /\ when'["activate"] = when["activate"]
    BY <1>2, <2>1
  <2> QED
    BY <1>3, <2>1, <2>2
<1>12. ASSUME NEW t \in Tasks, NEW c, Resume(t, c), ~Hang PROVE PendingCounted'
  <2>1. /\ UNCHANGED monitorVars /\ taskState[t] = "RUNNING"
        /\ taskState' = [taskState EXCEPT ![t] = "SUSPENDED"]
        /\ \E y : timer' = [timer EXCEPT !["continue"][t] = y]
        /\ \E y : when' = [when EXCEPT !["continue"][t] = y]
    BY <1>12 DEF Resume
  <2>2. timer'["activate"] = timer["activate"] /\ when'["activate"] = when["activate"]
    BY <1>2, <2>1
  <2>3. \A u \in Tasks : taskState'[u] = "TERMINATED" <=> taskState[u] = "TERMINATED"
    BY <1>2, <2>1
  <2> QED
    BY <1>3, <2>1, <2>2, <2>3
<1>13. ASSUME NEW i \in Interrupts, Enable(i) \/ Disable(i) PROVE PendingCounted'
  BY <1>3, <1>13 DEF Enable, Disable, taskVars, timerVars
<1> QED
  BY <1>4, <1>5, <1>6, <1>7, <1>8, <1>9, <1>10, <1>11, <1>12, <1>13, ConditionTypes DEF Statements

\* The signal thread: an expiry keeps its task pending until the task is started.
LEMMA ExpiryCounted ==
    ASSUME Prepared, PendingCounted, OtherTypes, TimerInv, ExpiryInv,
           SignalThread \/ \E k \in Kinds, t \in Tasks : Expire(k, t)
    PROVE  PendingCounted'
<1>1. ASSUME UNCHANGED monitorVars, \A u \in Tasks : Pending(u)' <=> Pending(u)
      PROVE  PendingCounted'
  <2>1. nbrPendingTasks' = nbrPendingTasks /\ (exited' <=> exited)
    BY <1>1 DEF monitorVars
  <2> QED
    BY <1>1, <2>1, CountKept
<1>2. /\ taskState \in [Tasks -> States] /\ "activate" \in Kinds
      /\ signalThread \in ThreadType /\ signals \subseteq TimerId
  BY DEF OtherTypes, Kinds
<1>3. \A u : None # <<"activate", u>> \/ u \notin Tasks
  BY SchedulesAssumption DEF Kinds
<1>4. ASSUME NEW k \in Kinds, NEW t \in Tasks, Expire(k, t) PROVE PendingCounted'
  <2>1. /\ UNCHANGED <<taskState, when, signalThread, monitorVars>>
        /\ signals' = signals \cup {<<k, t>>} /\ timer[k][t].armed # "none"
    BY <1>4 DEF Expire, taskVars, interruptVars
  <2>2. \A z \in Kinds, u \in Tasks : timer'[z][u].counts = timer[z][u].counts
    BY <1>2, <1>4, ExpireTimers
  <2>3. timer[k][t].counts # 0
    BY <2>1 DEF TimerInv, Good
  <2>4. ASSUME NEW u \in Tasks PROVE Pending(u)' <=> Pending(u)
    <3>1. Scheduled(u)' <=> Scheduled(u)
      BY <1>2, <2>1, <2>2 DEF Scheduled, IsActive
    <3>2. CASE k = "activate" /\ u = t
      <4>1. Scheduled(u)
        BY <2>3, <3>2 DEF Scheduled, IsActive
      <4> QED
        BY <3>1, <4>1 DEF Pending
    <3>3. CASE ~ (k = "activate" /\ u = t)
      <4>1. <<"activate", u>> \in signals' <=> <<"activate", u>> \in signals
        BY <2>1, <3>3
      <4> QED
        BY <2>1, <3>1, <4>1 DEF Pending, UnderWay
    <3> QED
      BY <3>2, <3>3
  <2> QED
    BY <1>1, <2>1, <2>4
<1>5. CASE ReadSignal
  <2>1. PICK x \in signals : /\ signals' = signals \ {x}
                             /\ signalThread' = [at |-> "update", on |-> x, counts |-> 0]
    BY <1>5 DEF ReadSignal
  <2>2. /\ signalThread.on = None /\ signalThread'.on = x
        /\ UNCHANGED <<taskState, when, timer, monitorVars>>
    BY <1>5, <2>1 DEF ReadSignal, ExpiryInv, Idle, taskVars, interruptVars
  <2>3. ASSUME NEW u \in Tasks PROVE UnderWay("activate", u)' <=> UnderWay("activate", u)
    BY <1>3, <2>1, <2>2 DEF UnderWay
  <2>4. \A u \in Tasks : Pending(u)' <=> Pending(u)
    BY <2>2, <2>3 DEF Pending, Scheduled
  <2> QED
    BY <1>1, <2>2, <2>4
<1>6. CASE LoadCounts
  <2>1. /\ signalThread'.on = signalThread.on
        /\ UNCHANGED <<taskState, when, timer, signals, monitorVars>>
    BY <1>2, <1>6, LoadTimers DEF LoadCounts, taskVars, interruptVars
  <2>2. \A u \in Tasks : Pending(u)' <=> Pending(u)
    BY <2>1 DEF Pending, Scheduled, UnderWay
  <2> QED
    BY <1>1, <2>1, <2>2
<1>7. CASE StoreCounts
  <2>1. /\ signalThread'.on = signalThread.on
        /\ \A z \in Kinds, u \in Tasks :
             <<z, u>> # signalThread.on => timer'[z][u] = timer[z][u]
    BY <1>2, <1>7, StoreTimers
  <2>2. UNCHANGED <<taskState, when, signals, monitorVars>>
    BY <1>7 DEF StoreCounts, taskVars, interruptVars
  <2>3. ASSUME NEW u \in Tasks PROVE Pending(u)' <=> Pending(u)
    <3>1. UnderWay("activate", u)' <=> UnderWay("activate", u)
      BY <2>1, <2>2 DEF UnderWay
    <3>2. CASE <<"activate", u>> = signalThread.on
      BY <3>1, <3>2 DEF Pending, UnderWay
    <3>3. CASE <<"activate", u>> # signalThread.on
      <4>1. timer'["activate"][u] = timer["activate"][u]
        BY <1>2, <2>1, <3>3
      <4> QED
        BY <2>2, <3>1, <4>1 DEF Pending, Scheduled
    <3> QED
      BY <3>2, <3>3
  <2> QED
    BY <1>1, <2>2, <2>3
<1>8. CASE TimedActivate \/ TimedContinue
  <2> DEFINE x == signalThread.on
  <2>1. /\ UNCHANGED <<when, timer, signals, monitorVars>> /\ signalThread'.on = None
        /\ x \in TimerId
    BY <1>8 DEF TimedActivate, TimedContinue, ExpiryInv, Idle, interruptVars
  <2>2. x[2] \in Tasks /\ x = <<x[1], x[2]>>
    BY <2>1 DEF TimerId
  <2> HIDE DEF x
  <2>3. /\ \A u \in Tasks : taskState[u] # "TERMINATED" => taskState'[u] # "TERMINATED"
        /\ \A u \in Tasks : x # <<"activate", u>> =>
             (taskState[u] = "TERMINATED" => taskState'[u] = "TERMINATED")
        /\ x[1] = "activate" => taskState'[x[2]] # "TERMINATED"
    <3>1. CASE TimedActivate
      <4>1. x[1] = "activate" /\ StartOrNote({x[2]})
        BY <3>1 DEF TimedActivate, x
      <4>2. \A u \in Tasks : taskState'[u] = IF u = x[2] /\ taskState[u] = "TERMINATED"
                                             THEN "RUNNING" ELSE taskState[u]
        BY <4>1 DEF StartOrNote
      <4> QED
        BY <2>2, <4>1, <4>2
    <3>2. CASE TimedContinue
      <4>1. /\ x[1] = "continue"
            /\ taskState' = [taskState EXCEPT ![x[2]] = IF @ = "SUSPENDED" THEN "RUNNING" ELSE @]
        BY <3>2 DEF TimedContinue, x
      <4> QED
        BY <1>2, <4>1
    <3> QED
      BY <1>8, <3>1, <3>2
  <2>4. ASSUME NEW u \in Tasks PROVE Pending(u)' <=> Pending(u)
    <3>1. Scheduled(u)' <=> Scheduled(u)
      BY <2>1 DEF Scheduled
    <3>2. CASE x = <<"activate", u>>
      <4>1. taskState'[u] # "TERMINATED"
        BY <2>3, <3>2
      <4> QED
        BY <3>2, <4>1 DEF Pending, UnderWay, x
    <3>3. CASE x # <<"activate", u>>
      <4>1. UnderWay("activate", u)' <=> UnderWay("activate", u)
        BY <1>3, <2>1, <3>3 DEF UnderWay, x
      <4> QED
        BY <2>3, <3>1, <3>3, <4>1 DEF Pending
    <3> QED
      BY <3>2, <3>3
  <2> QED
    BY <1>1, <2>1, <2>4
<1> QED
  BY <1>4, <1>5, <1>6, <1>7, <1>8 DEF SignalThread

\* A trigger starts only tasks that are registered, and continues only active ones.
LEMMA TriggerCounted ==
    ASSUME Prepared, PendingCounted, OtherTypes, ListInv, TimerInv, TriggerInv,
           NEW i \in Interrupts, Triggering(i)
    PROVE  PendingCounted'
<1>1. /\ taskState \in [Tasks -> States] /\ timer \in [Kinds -> [Tasks -> Timer]]
      /\ when \in [Kinds -> Registrations] /\ queue \in [Kinds -> Links]
      /\ "activate" \in Kinds /\ "continue" \in Kinds /\ "activate" # "continue"
  BY DEF OtherTypes, ListInv, TimerInv, Kinds
<1>2. Treated /\ Treated' /\ UNCHANGED monitorVars
  <2>1. /\ trigger[i].at \notin {"idle", "thrown"}
        /\ UNCHANGED <<signals, signalThread, monitorVars>>
    BY DEF Triggering, TriggerContinue, Continued, TriggerActivate, timerVars
  <2> QED
    BY <2>1 DEF TriggerInv, Treated
<1>3. SUFFICES ASSUME NEW u \in Tasks PROVE Busy(u)' <=> Busy(u)
  BY <1>2, NothingCounted
<1>4. CASE TriggerContinue(i)
  <2>1. /\ UNCHANGED taskState
        /\ \E y : when' = [when EXCEPT !["continue"] = y]
        /\ \E y : timer' = [timer EXCEPT !["continue"] = y]
    <3> DEFINE t == queue["continue"].head[i]
    <3>1. when' = [when EXCEPT !["continue"] = [when["continue"] EXCEPT ![t] = None]]
      BY <1>1, <1>4 DEF TriggerContinue
    <3>2. timer' = timer \/ \E y : timer' = [timer EXCEPT !["continue"][t] = y]
      BY <1>4 DEF TriggerContinue
    <3>3. \E y : timer' = [timer EXCEPT !["continue"] = y]
      <4>1. CASE timer' = timer
        <5>1. timer' = [timer EXCEPT !["continue"] = timer["continue"]]
          BY <1>1, <4>1
        <5> QED
          BY <5>1
      <4>2. CASE \E y : timer' = [timer EXCEPT !["continue"][t] = y]
        <5>1. PICK y : timer' = [timer EXCEPT !["continue"][t] = y]
          BY <4>2
        <5>2. timer' = [timer EXCEPT !["continue"] = [timer["continue"] EXCEPT ![t] = y]]
          BY <5>1
        <5> QED
          BY <5>2
      <4> QED
        BY <3>2, <4>1, <4>2
    <3> QED
      BY <1>4, <3>1, <3>3 DEF TriggerContinue, taskVars
  <2>2. timer'["activate"] = timer["activate"] /\ when'["activate"] = when["activate"]
    BY <1>1, <2>1
  <2> QED
    BY <2>1, <2>2, BusyKept
<1>5. CASE Continued(i)
  <2> DEFINE t == trigger[i].on
  <2>1. /\ UNCHANGED <<timer, when>> /\ trigger[i].at = "waiting"
        /\ taskState' = [taskState EXCEPT ![t] = "RUNNING"]
    BY <1>5 DEF Continued, timerVars
  <2>2. t \in Tasks /\ taskState[t] = "SUSPENDED"
    BY <2>1 DEF TriggerInv, WaitInv
  <2>3. taskState'[u] = "TERMINATED" <=> taskState[u] = "TERMINATED"
    BY <1>1, <2>1, <2>2
  <2> QED
    BY <2>1, <2>3, BusyKept
<1>6. CASE TriggerActivate(i)
  <2> DEFINE listed == Listed(queue["activate"], i)
             delayed == {t \in listed : IsSet(timer["activate"][t])}
  <2>1. /\ timer' = [timer EXCEPT !["activate"] =
                      [t \in Tasks |-> IF t \in delayed THEN Start(@[t]) ELSE @[t]]]
        /\ StartOrNote(listed \ delayed) /\ UNCHANGED when
    BY <1>6 DEF TriggerActivate
  <2>2. listed = Registered(when["activate"], i)
    <3>1. /\ queue["activate"] \in Links
          /\ HasList(queue["activate"], i, Registered(when["activate"], i))
      BY <1>1 DEF ListInv, Linked
    <3> QED
      BY <3>1, ListFound
  <2> HIDE DEF listed
  <2>3. CASE u \in listed
    <3>1. when["activate"][u] # None
      BY <2>2, <2>3, SchedulesAssumption DEF Registered
    <3> QED
      BY <2>1, <3>1 DEF Busy
  <2>4. CASE u \notin listed
    <3>1. taskState'[u] = taskState[u]
      BY <2>1, <2>4 DEF StartOrNote
    <3>2. timer'["activate"][u] = timer["activate"][u]
      BY <1>1, <2>1, <2>4
    <3> QED
      BY <2>1, <3>1, <3>2, BusyKept
  <2> QED
    BY <2>3, <2>4
<1> QED
  BY <1>4, <1>5, <1>6 DEF Triggering

LEMMA NextCounted ==
    ASSUME Prepared, PendingCounted, OtherTypes, ListInv, TimerInv, ExpiryInv, TriggerInv,
           [Next]_vars
    PROVE  PendingCounted'
<1>1. CASE Statements
  <2>1. TimersQuiet(timer)
    BY <1>1, StatementTreated, TreatedQuiet
  <2> QED
    BY <1>1, <2>1, StatementCounted
<1>2. CASE SignalThread \/ \E k \in Kinds, t \in Tasks : Expire(k, t)
  BY <1>2, ExpiryCounted
<1>3. ASSUME NEW i \in Interrupts, Triggering(i) PROVE PendingCounted'
  BY <1>3, TriggerCounted
<1>4. ASSUME UNCHANGED <<taskVars, timerVars, when, monitorVars>> PROVE PendingCounted'
  BY <1>4 DEF PendingCounted, Scheduled, UnderWay, IsActive, taskVars, timerVars, monitorVars
<1>5. ASSUME NEW i \in Interrupts, Trigger(i) PROVE PendingCounted'
  BY <1>4, <1>5 DEF Trigger
<1>6. CASE UNCHANGED vars
  BY <1>4, <1>6 DEF vars, interruptVars
<1> QED
  BY <1>1, <1>2, <1>3, <1>5, <1>6 DEF Next

----------------------------------------------------------------------------
(* The theorems about pending tasks and timers.                            *)

IInv ==
    /\ OtherTypes /\ ListInv
    /\ TimerInv /\ ExpiryInv /\ TriggerInv
    /\ PendingCounted

LEMMA InitInv ==
    ASSUME Init
    PROVE  IInv
<1>1. OtherTypes
  <2>1. signalThread \in ThreadType /\ signals \subseteq TimerId
    BY DEF Init, ThreadType, Idle
  <2>2. taskState \in [Tasks -> States] /\ schedActivateOverrun \in [Tasks -> BOOLEAN]
    <3>1. /\ taskState = [t \in Tasks |-> IF t = Main THEN "RUNNING" ELSE "TERMINATED"]
          /\ schedActivateOverrun = [t \in Tasks |-> FALSE]
      BY DEF Init
    <3> QED
      BY <3>1 DEF States
  <2>3. isEnabled \in [Interrupts -> BOOLEAN] /\ trigger \in [Interrupts -> TriggerType]
    <3>1. /\ isEnabled = [i \in Interrupts |-> FALSE]
          /\ trigger = [i \in Interrupts |-> [at |-> "idle", on |-> None]]
      BY DEF Init
    <3> QED
      BY <3>1 DEF TriggerType, TaskOrNone
  <2>4. /\ mutexTasks \in BOOLEAN /\ nbrPendingTasks \in Int
        /\ exited \in BOOLEAN /\ beside \in BOOLEAN
    <3>1. mutexTasks \in BOOLEAN /\ exited \in BOOLEAN /\ beside \in BOOLEAN
      BY Zenon DEF Init
    <3>2. nbrPendingTasks \in Int
      BY DEF Init
    <3> QED
      BY <3>1, <3>2
  <2> QED
    BY <2>1, <2>2, <2>3, <2>4 DEF OtherTypes
<1>2. Treated
  BY DEF Init, Treated
<1>3. TimersQuiet(timer)
  BY DEF Init, TimersQuiet, Quiet, Good, Timer, Counts
<1>4. TriggerInv
  BY DEF Init, TriggerInv, WaitInv
<1>5. PendingCounted
  <2>1. ASSUME NEW t \in Tasks PROVE Busy(t) <=> t = Main
    BY DEF Init, Busy, Kinds
  <2>2. PendingTasks = {Main}
    BY <1>2, <2>1, TreatedBusy, SchedulesAssumption DEF PendingTasks
  <2>3. Cardinality(PendingTasks) = 1
    BY <2>2, FS_Singleton
  <2>4. nbrPendingTasks = 1 /\ ~exited
    BY DEF Init
  <2> QED
    BY <2>3, <2>4, PendingParts
<1> QED
  BY <1>1, <1>2, <1>3, <1>4, <1>5, InitLists, QuietTreated DEF IInv

LEMMA NextInv ==
    ASSUME Prepared, IInv, [Next]_vars
    PROVE  IInv'
<1>1. /\ OtherTypes /\ ListInv /\ TimerInv /\ ExpiryInv /\ TriggerInv /\ PendingCounted
      /\ "tidy" \in Assumed /\ signalThread \in ThreadType /\ signals \subseteq TimerId
  BY DEF IInv, Prepared, OtherTypes
<1>2. OtherTypes'
  BY <1>1, NextTypes
<1>3. ListInv'
  BY <1>1, NextLists
<1>4. TimerInv' /\ ExpiryInv'
  BY <1>1, NextTimers
<1>5. TriggerInv'
  BY <1>1, NextTriggers
<1>6. PendingCounted'
  BY <1>1, NextCounted
<1> QED
  BY <1>2, <1>3, <1>4, <1>5, <1>6 DEF IInv

LEMMA ScheduleInvariant == Prepared => (Spec => []IInv)
<1> SUFFICES ASSUME Prepared PROVE Spec => []IInv
  OBVIOUS
<1>1. Init => IInv
  BY InitInv
<1>2. IInv /\ [Next]_vars => IInv'
  BY NextInv
<1> QED
  BY <1>1, <1>2, PTL DEF Spec

\* Where every expiry is treated before the next operation, no task that has missed an
\* activation is terminated, and the operations keep to the rest of what Prepared says,
\* every variable keeps its type, whatever the tasks, the signal thread and the triggers do.
THEOREM ScheduleTypes == Prepared => (Spec => []TypeOK)
<1> SUFFICES ASSUME Prepared PROVE Spec => []TypeOK
  OBVIOUS
<1>1. Spec => []IInv
  BY ScheduleInvariant
<1>2. IInv => TypeOK
  BY TypeParts DEF IInv, ListInv, TimerInv
<1> QED
  BY <1>1, <1>2, PTL

\* Under the same assumptions a timer counts on exactly as long as the operating
\* system has it armed or an expiry is under way, although update() counts without
\* mutexTasks: start(), stop(), cancel() and update() of TaskTimerCommon.cc.
THEOREM ScheduleTimers == Prepared => (Spec => []ActiveMeansArmed)
<1> SUFFICES ASSUME Prepared PROVE Spec => []ActiveMeansArmed
  OBVIOUS
<1>1. Spec => []IInv
  BY ScheduleInvariant
<1>2. ASSUME IInv PROVE ActiveMeansArmed
  <2>1. ASSUME NEW k \in Kinds, NEW t \in Tasks
        PROVE  /\ timer[k][t].counts # 0 => timer[k][t].armed # "none" \/ UnderWay(k, t)
               /\ timer[k][t].armed # "none" => timer[k][t].counts # 0
    BY <1>2 DEF IInv, TimerInv, ExpiryInv, Good, UnderWay
  <2> QED
    BY <2>1 DEF ActiveMeansArmed, IsActive
<1> QED
  BY <1>1, <1>2, PTL

\* Under the same assumptions (the one on TERMINATE is needed: the old body that goes on
\* beside its new thread is counted down, too) nbrPendingTasks is the number of tasks that are active,
\* scheduled or about to be started, so the program ends exactly when there is none:
\* the incPendingTasks() and decPendingTasks() of TaskCommon.cc keep step with the
\* states of the tasks, with their timers and with the lists of the interrupts.
THEOREM SchedulePending == Prepared => (Spec => []PendingCounted)
<1> SUFFICES ASSUME Prepared PROVE Spec => []PendingCounted
  OBVIOUS
<1>1. Spec => []IInv
  BY ScheduleInvariant
<1>2. IInv => PendingCounted
  BY DEF IInv
<1> QED
  BY <1>1, <1>2, PTL

\* Then the program does not end while a task is active, which it may do where an
\* expiry is still under way when the next operation begins (TaskMonitor.cc).
THEOREM ScheduleEnd == Prepared => (Spec => []EndsWithLastTask)
<1> SUFFICES ASSUME Prepared PROVE Spec => []EndsWithLastTask
  OBVIOUS
<1>1. PendingCounted => EndsWithLastTask
  <2> SUFFICES ASSUME PendingCounted, exited, NEW t \in Tasks
               PROVE  taskState[t] = "TERMINATED"
    BY DEF EndsWithLastTask
  <2>1. nbrPendingTasks = 0 /\ nbrPendingTasks = Cardinality(PendingTasks)
    BY PendingParts
  <2>2. PendingTasks = {}
    BY <2>1, PendingFinite, FS_EmptySet
  <2> QED
    BY <2>2 DEF PendingTasks, Pending
<1> QED
  BY <1>1, SchedulePending, PTL
=============================================================================
