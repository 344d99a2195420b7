------------------------ MODULE PriorityQueueProofs ------------------------
EXTENDS PriorityQueue, WellFoundedInduction, SequenceTheorems, TLAPS

\* Every non-empty set of naturals has a least element.
LEMMA LeastNatural ==
    ASSUME NEW S \in SUBSET Nat, S # {}
    PROVE  \E i \in S : \A j \in S : i <= j
<1> DEFINE R == {p \in Nat \X Nat : p[1] < p[2]}
<1>1. OpToRel(<, Nat) = R
  BY Zenon DEF OpToRel
<1>2. IsWellFoundedOn(R, Nat)
  BY <1>1, NatLessThanWellFounded, Zenon
<1>3. \E i \in S : \A j \in S : ~ (<<j, i>> \in R)
  BY <1>2, WFMin, Zenon
<1>4. PICK i \in S : \A j \in S : ~ (<<j, i>> \in R)
  BY <1>3
<1>5. \A j \in S : i <= j
  <2>1. SUFFICES ASSUME NEW j \in S, j < i PROVE FALSE
    OBVIOUS
  <2>2. <<j, i>> \in R
    BY <2>1
  <2> QED
    BY <2>2, <1>4
<1> QED
  BY <1>5

\* insert() finds a place: in front of the head, or behind the first element
\* at which its loop stops.
LEMMA InsertPosFound ==
    ASSUME NEW T, NEW q \in Seq(T), NEW x \in T, NEW prio
    PROVE  LET k == InsertPos(q, x, prio) IN
           \/ k = 0 /\ (q = <<>> \/ prio[q[1]] > prio[x])
           \/ /\ k \in 1 .. Len(q)
              /\ q # <<>>
              /\ ~ (prio[q[1]] > prio[x])
              /\ StopsBehind(q, k, prio[x], prio)
              /\ \A j \in 1 .. Len(q) : j < k => ~StopsBehind(q, j, prio[x], prio)
<1> DEFINE Stops == {i \in 1 .. Len(q) : StopsBehind(q, i, prio[x], prio)}
<1>1. CASE q = <<>> \/ prio[q[1]] > prio[x]
  BY <1>1 DEF InsertPos
<1>2. CASE ~ (q = <<>> \/ prio[q[1]] > prio[x])
  <2>1. Len(q) \in Nat /\ Len(q) >= 1 /\ DOMAIN q = 1 .. Len(q)
    BY <1>2
  <2>2. Stops # {}
    BY <2>1 DEF StopsBehind
  <2>3. PICK i \in Stops : \A j \in Stops : i <= j
    <3>1. Stops \in SUBSET Nat
      BY <2>1
    <3> HIDE DEF Stops
    <3> QED
      BY <2>2, <3>1, LeastNatural
  <2>4. \A j \in 1 .. Len(q) : j < i => ~StopsBehind(q, j, prio[x], prio)
    BY <2>1, <2>3
  <2>5. \E k \in DOMAIN q :
            /\ StopsBehind(q, k, prio[x], prio)
            /\ \A j \in DOMAIN q : j < k => ~StopsBehind(q, j, prio[x], prio)
    BY <2>1, <2>3, <2>4, Zenon
  <2> QED
    BY <1>2, <2>1, <2>5 DEF InsertPos
<1> QED
  BY <1>1, <1>2

\* Putting x behind element k makes a queue with x added, nothing doubled.
LEMMA InsertBehindProperties ==
    ASSUME NEW T, NEW q \in Seq(T), NEW x \in T, NEW k \in 0 .. Len(q)
    PROVE  LET r == InsertBehind(q, k, x) IN
           /\ r \in Seq(T)
           /\ Len(r) = Len(q) + 1
           /\ DOMAIN r = 1 .. Len(q) + 1
           /\ QueueSet(r) = QueueSet(q) \cup {x}
           /\ Distinct(q) /\ x \notin QueueSet(q) => Distinct(r)
<1> DEFINE r == InsertBehind(q, k, x)
           n == Len(q)
<1>1. n \in Nat /\ DOMAIN q = 1 .. n /\ q \in [1 .. n -> T]
  BY LenProperties
<1>2. r \in [1 .. n + 1 -> T]
  BY <1>1 DEF InsertBehind
<1>3. r \in Seq(T) /\ Len(r) = n + 1 /\ DOMAIN r = 1 .. n + 1
  BY <1>1, <1>2
<1>4. /\ \A j \in 1 .. k : r[j] = q[j]
      /\ r[k + 1] = x
      /\ \A j \in k + 2 .. n + 1 : r[j] = q[j - 1]
  BY <1>1 DEF InsertBehind
<1>5. QueueSet(r) = QueueSet(q) \cup {x}
  <2>1. \A j \in 1 .. n + 1 : r[j] \in QueueSet(q) \cup {x}
    BY <1>1, <1>4 DEF QueueSet
  <2>2. \A i \in 1 .. n : \E j \in 1 .. n + 1 : r[j] = q[i]
    <3> SUFFICES ASSUME NEW i \in 1 .. n PROVE \E j \in 1 .. n + 1 : r[j] = q[i]
      OBVIOUS
    <3>1. CASE i <= k
      BY <1>1, <1>4, <3>1
    <3>2. CASE i > k
      <4>1. r[i + 1] = q[i] /\ i + 1 \in 1 .. n + 1
        BY <1>1, <1>4, <3>2
      <4> QED
        BY <4>1
    <3> QED
      BY <3>1, <3>2
  <2>3. x \in QueueSet(r)
    BY <1>1, <1>3, <1>4 DEF QueueSet
  <2> QED
    BY <1>1, <1>3, <2>1, <2>2, <2>3 DEF QueueSet
<1>6. Distinct(q) /\ x \notin QueueSet(q) => Distinct(r)
  <2> SUFFICES ASSUME Distinct(q), x \notin QueueSet(q),
                      NEW i \in 1 .. n + 1, NEW j \in 1 .. n + 1, i < j
               PROVE  r[i] # r[j]
    BY <1>1, <1>3 DEF Distinct
  <2>1. \A a \in 1 .. n : q[a] # x
    BY <1>1 DEF QueueSet
  <2>2. \A a, b \in 1 .. n : a # b => q[a] # q[b]
    BY <1>1 DEF Distinct
  <2>3. CASE j <= k
    BY <1>1, <1>4, <2>2, <2>3
  <2>4. CASE j = k + 1
    BY <1>1, <1>4, <2>1, <2>4
  <2>5. CASE j > k + 1
    <3>1. r[j] = q[j - 1] /\ j - 1 \in 1 .. n
      BY <1>1, <1>4, <2>5
    <3>2. CASE i <= k
      BY <1>1, <1>4, <2>2, <2>5, <3>1, <3>2
    <3>3. CASE i = k + 1
      BY <1>1, <1>4, <2>1, <3>1, <3>3
    <3>4. CASE i > k + 1
      BY <1>1, <1>4, <2>2, <3>1, <3>4
    <3> QED
      BY <1>1, <3>2, <3>3, <3>4
  <2> QED
    BY <1>1, <2>3, <2>4, <2>5
<1> QED
  BY <1>3, <1>5, <1>6

\* insert() adds exactly the task it is given.
LEMMA InsertProperties ==
    ASSUME NEW T, NEW q \in Seq(T), NEW x \in T, NEW prio
    PROVE  LET r == Insert(q, x, prio) IN
           /\ r \in Seq(T)
           /\ QueueSet(r) = QueueSet(q) \cup {x}
           /\ Distinct(q) /\ x \notin QueueSet(q) => Distinct(r)
<1> DEFINE k == InsertPos(q, x, prio)
<1>1. k \in 0 .. Len(q)
  BY InsertPosFound
<1>2. LET r == InsertBehind(q, k, x) IN
      /\ r \in Seq(T)
      /\ QueueSet(r) = QueueSet(q) \cup {x}
      /\ Distinct(q) /\ x \notin QueueSet(q) => Distinct(r)
  <2> HIDE DEF k
  <2> QED
    BY <1>1, InsertBehindProperties
<1> QED
  BY <1>2, Zenon DEF Insert

\* insert() keeps a sorted queue sorted.
LEMMA InsertSorted ==
    ASSUME NEW T, NEW q \in Seq(T), NEW x \in T,
           NEW prio \in [T -> Int], SortedBy(q, prio)
    PROVE  SortedBy(Insert(q, x, prio), prio)
<1> DEFINE k == InsertPos(q, x, prio)
           n == Len(q)
           r == InsertBehind(q, k, x)
<1>1. n \in Nat /\ DOMAIN q = 1 .. n /\ q \in [1 .. n -> T] /\ prio[x] \in Int
  BY LenProperties
<1>2. \A i \in 1 .. n : prio[q[i]] \in Int
  BY <1>1
<1>3. k \in 0 .. n
  BY InsertPosFound
<1>4. DOMAIN r = 1 .. n + 1
  BY <1>3, InsertBehindProperties
<1>5. /\ \A j \in 1 .. k : r[j] = q[j]
      /\ r[k + 1] = x
      /\ \A j \in k + 2 .. n + 1 : r[j] = q[j - 1]
  BY <1>1, <1>3 DEF InsertBehind
<1>6. \A i, j \in 1 .. n : i <= j => prio[q[i]] <= prio[q[j]]
  BY <1>1, <1>2 DEF SortedBy
<1>7. \A i \in 1 .. k : prio[q[i]] <= prio[x]
  <2>1. CASE k = 0
    BY <2>1
  <2>2. CASE k # 0
    <3>1. StopsBehind(q, k, prio[x], prio) /\ prio[q[1]] <= prio[x] /\ n >= 1
      BY <1>1, <1>2, <1>3, <2>2, InsertPosFound
    <3>2. \A j \in 1 .. n : j < k => ~StopsBehind(q, j, prio[x], prio)
      BY <2>2, InsertPosFound
    <3>3. CASE prio[q[k]] <= prio[x]
      BY <1>1, <1>2, <1>3, <1>6, <3>3
    <3>4. CASE prio[q[k]] > prio[x]
      \* Then the priorities step over prio[x] somewhere before k.
      <4> DEFINE Above == {i \in 1 .. n : prio[q[i]] > prio[x]}
      <4>1. Above # {} /\ Above \in SUBSET Nat
        BY <1>1, <1>3, <2>2, <3>4
      <4>2. PICK m \in Above : \A j \in Above : m <= j
        BY <4>1, LeastNatural
      <4>3. m <= k /\ m # 1 /\ m \in 1 .. n /\ prio[q[m]] > prio[x]
        BY <1>1, <1>2, <1>3, <2>2, <3>1, <3>4, <4>2
      <4>4. m - 1 \in 1 .. n /\ m - 1 < k /\ prio[q[m - 1]] <= prio[x]
        BY <1>1, <1>2, <1>3, <4>2, <4>3
      <4>5. StopsBehind(q, m - 1, prio[x], prio)
        BY <1>1, <1>2, <4>3, <4>4 DEF StopsBehind
      <4> QED
        BY <3>2, <4>4, <4>5
    <3> QED
      BY <1>1, <1>2, <1>3, <2>2, <3>3, <3>4
  <2> QED
    BY <2>1, <2>2
<1>8. \A i \in k + 1 .. n : prio[x] <= prio[q[i]]
  <2>1. CASE k = 0
    <3>1. n = 0 \/ prio[q[1]] > prio[x]
      BY <2>1, InsertPosFound
    <3> QED
      BY <1>1, <1>2, <1>6, <2>1, <3>1
  <2>2. CASE k # 0
    <3>1. StopsBehind(q, k, prio[x], prio)
      BY <2>2, InsertPosFound
    <3> QED
      BY <1>1, <1>2, <1>3, <1>6, <2>2, <3>1 DEF StopsBehind
  <2> QED
    BY <2>1, <2>2
<1>9. ASSUME NEW i \in 1 .. n + 1, NEW j \in 1 .. n + 1, i < j
      PROVE  prio[r[i]] <= prio[r[j]]
  <2>1. CASE j <= k
    BY <1>1, <1>3, <1>5, <1>6, <1>9, <2>1
  <2>2. CASE j = k + 1
    BY <1>1, <1>3, <1>5, <1>7, <1>9, <2>2
  <2>3. CASE j > k + 1
    <3>1. r[j] = q[j - 1] /\ j - 1 \in k + 1 .. n
      BY <1>1, <1>3, <1>5, <2>3
    <3>2. CASE i <= k
      <4>1. r[i] = q[i] /\ i \in 1 .. n /\ i <= j - 1 /\ j - 1 \in 1 .. n
        BY <1>1, <1>3, <1>5, <1>9, <3>1, <3>2
      <4> QED
        BY <1>6, <3>1, <4>1
    <3>3. CASE i = k + 1
      BY <1>1, <1>3, <1>5, <1>8, <3>1, <3>3
    <3>4. CASE i > k + 1
      <4>1. /\ i \in k + 2 .. n + 1 /\ i - 1 \in 1 .. n /\ j - 1 \in 1 .. n
            /\ i - 1 <= j - 1
        BY <1>1, <1>3, <1>9, <3>1, <3>4
      <4>2. r[i] = q[i - 1]
        BY <1>5, <4>1
      <4>3. prio[q[i - 1]] <= prio[q[j - 1]]
        BY <1>6, <4>1
      <4> QED
        BY <3>1, <4>2, <4>3
    <3> QED
      BY <1>1, <1>3, <3>2, <3>3, <3>4
  <2> QED
    BY <1>1, <1>3, <2>1, <2>2, <2>3
<1> QED
  BY <1>4, <1>9 DEF SortedBy, Insert

\* remove() takes exactly the task it is given out of the queue.
LEMMA RemoveProperties ==
    ASSUME NEW T, NEW q \in Seq(T), NEW x, Distinct(q)
    PROVE  LET r == Remove(q, x) IN
           /\ r \in Seq(T)
           /\ QueueSet(r) = QueueSet(q) \ {x}
           /\ Distinct(r)
           /\ \A prio : SortedBy(q, prio) => SortedBy(r, prio)
<1> DEFINE n == Len(q)
<1>1. n \in Nat /\ DOMAIN q = 1 .. n /\ q \in [1 .. n -> T]
  BY LenProperties
<1>2. CASE x \notin QueueSet(q)
  BY <1>2 DEF Remove
<1>3. CASE x \in QueueSet(q)
  <2> DEFINE k == CHOOSE i \in DOMAIN q : q[i] = x
             r == [j \in 1 .. n - 1 |-> IF j < k THEN q[j] ELSE q[j + 1]]
             up(j) == IF j < k THEN j ELSE j + 1
  <2>1. k \in 1 .. n /\ q[k] = x
    BY <1>1, <1>3 DEF QueueSet
  <2>2. Remove(q, x) = r
    BY <1>3 DEF Remove
  <2> HIDE DEF k
  <2>3. r \in [1 .. n - 1 -> T]
    BY <1>1, <2>1
  <2>4. r \in Seq(T) /\ DOMAIN r = 1 .. n - 1
    BY <1>1, <2>1, <2>3
  <2>5. \A j \in 1 .. n - 1 : up(j) \in 1 .. n /\ up(j) # k /\ r[j] = q[up(j)]
    BY <1>1, <2>1
  <2>6. \A i, j \in 1 .. n - 1 : i < j => up(i) < up(j)
    BY <1>1, <2>1
  <2>7. \A i \in 1 .. n : i # k => \E j \in 1 .. n - 1 : r[j] = q[i]
    <3> SUFFICES ASSUME NEW i \in 1 .. n, i # k
                 PROVE  \E j \in 1 .. n - 1 : r[j] = q[i]
      OBVIOUS
    <3>1. CASE i < k
      BY <1>1, <2>1, <3>1
    <3>2. CASE i > k
      <4>1. i - 1 \in 1 .. n - 1 /\ r[i - 1] = q[i]
        BY <1>1, <2>1, <3>2
      <4> QED
        BY <4>1
    <3> QED
      BY <1>1, <2>1, <3>1, <3>2
  <2>8. \A i \in 1 .. n : q[i] = x => i = k
    BY <1>1, <2>1 DEF Distinct
  <2>9. QueueSet(r) = QueueSet(q) \ {x}
    <3>1. \A j \in 1 .. n - 1 : r[j] \in QueueSet(q) \ {x}
      BY <1>1, <2>5, <2>8 DEF QueueSet
    <3>2. \A i \in 1 .. n : q[i] # x => \E j \in 1 .. n - 1 : r[j] = q[i]
      BY <2>1, <2>7
    <3> QED
      BY <1>1, <2>4, <3>1, <3>2 DEF QueueSet
  <2>10. Distinct(r)
    <3> SUFFICES ASSUME NEW i \in 1 .. n - 1, NEW j \in 1 .. n - 1, i < j
                 PROVE  r[i] # r[j]
      BY <1>1, <2>4 DEF Distinct
    <3> QED
      BY <1>1, <2>5, <2>6 DEF Distinct
  <2>11. ASSUME NEW prio, SortedBy(q, prio)
         PROVE  SortedBy(r, prio)
    BY <1>1, <2>4, <2>5, <2>6, <2>11 DEF SortedBy
  <2> QED
    BY <2>2, <2>4, <2>9, <2>10, <2>11
<1> QED
  BY <1>2, <1>3

\* Only the priorities of the queued tasks matter.
LEMMA SortedByLocal ==
    ASSUME NEW q, NEW prio, NEW new, SortedBy(q, prio),
           \A t \in QueueSet(q) : new[t] = prio[t]
    PROVE  SortedBy(q, new)
  BY DEF SortedBy, QueueSet

\* The head taken from a list, as startNextWriter() and endSequence() do.
LEMMA TailProperties ==
    ASSUME NEW T, NEW q \in Seq(T), NEW prio, q # <<>>, Distinct(q), SortedBy(q, prio)
    PROVE  /\ Head(q) \in QueueSet(q) /\ Tail(q) \in Seq(T)
           /\ QueueSet(Tail(q)) = QueueSet(q) \ {Head(q)}
           /\ Distinct(Tail(q)) /\ SortedBy(Tail(q), prio)
<1> DEFINE r == Tail(q)
           n == Len(q)
<1>1. n \in Nat /\ n > 0 /\ DOMAIN q = 1 .. n /\ q \in [1 .. n -> T] /\ Head(q) = q[1]
  BY LenProperties, EmptySeq
<1>2. r \in Seq(T) /\ DOMAIN r = 1 .. n - 1
  BY <1>1
<1>3. \A i \in DOMAIN r : r[i] = q[i + 1] /\ i + 1 \in DOMAIN q
  BY <1>1
<1> HIDE DEF r
<1>4. Distinct(r)
  BY <1>1, <1>2, <1>3 DEF Distinct
<1>5. SortedBy(r, prio)
  BY <1>1, <1>2, <1>3 DEF SortedBy
<1>6. QueueSet(r) \subseteq QueueSet(q) \ {Head(q)}
  BY <1>1, <1>2, <1>3 DEF QueueSet, Distinct
<1>7. \A i \in DOMAIN q : i # 1 => i - 1 \in DOMAIN r /\ r[i - 1] = q[i]
  BY <1>1, <1>2, <1>3
<1>8. QueueSet(q) \ {Head(q)} \subseteq QueueSet(r)
  BY <1>1, <1>7 DEF QueueSet
<1>9. Head(q) \in QueueSet(q)
  BY <1>1 DEF QueueSet
<1> QED
  BY <1>2, <1>4, <1>5, <1>6, <1>8, <1>9 DEF r

-----------------------------------------------------------------------------
\* q is the wait queue of the tasks in S: each of them once, sorted by prio.
QueueOf(q, T, S, prio) ==
    q \in Seq(T) /\ Distinct(q) /\ QueueSet(q) = S /\ SortedBy(q, prio)

\* x, which was not waiting, is queued, maybe with a new priority.
LEMMA QueueOfInsert ==
    ASSUME NEW T, NEW q, NEW S, NEW prio, QueueOf(q, T, S, prio), NEW x \in T, x \notin S,
           NEW new \in [T -> Int], \A u \in S : new[u] = prio[u]
    PROVE  QueueOf(Insert(q, x, new), T, S \cup {x}, new)
<1>1. q \in Seq(T) /\ Distinct(q) /\ QueueSet(q) = S /\ SortedBy(q, prio)
  BY DEF QueueOf
<1>2. SortedBy(q, new)
  BY <1>1, SortedByLocal
<1>3. SortedBy(Insert(q, x, new), new)
  BY <1>1, <1>2, InsertSorted
<1> QED
  BY <1>1, <1>3, InsertProperties DEF QueueOf

\* x, waiting or not, leaves the queue, maybe with a new priority.
LEMMA QueueOfRemove ==
    ASSUME NEW T, NEW q, NEW S, NEW prio, QueueOf(q, T, S, prio), NEW x,
           NEW new, \A u \in S \ {x} : new[u] = prio[u]
    PROVE  QueueOf(Remove(q, x), T, S \ {x}, new)
<1>1. /\ Remove(q, x) \in Seq(T) /\ Distinct(Remove(q, x))
      /\ QueueSet(Remove(q, x)) = S \ {x} /\ SortedBy(Remove(q, x), prio)
  BY RemoveProperties DEF QueueOf
<1>2. SortedBy(Remove(q, x), new)
  BY <1>1, SortedByLocal
<1> QED
  BY <1>1, <1>2 DEF QueueOf

\* A waiting x is sorted in anew after its priority has changed.
LEMMA QueueOfResort ==
    ASSUME NEW T, NEW q, NEW S, NEW prio, QueueOf(q, T, S, prio), NEW x \in T, x \in S,
           NEW new \in [T -> Int], \A u \in S \ {x} : new[u] = prio[u]
    PROVE  QueueOf(Insert(Remove(q, x), x, new), T, S, new)
<1>1. QueueOf(Remove(q, x), T, S \ {x}, new)
  BY QueueOfRemove
<1>2. QueueOf(Insert(Remove(q, x), x, new), T, (S \ {x}) \cup {x}, new)
  BY <1>1, QueueOfInsert
<1>3. (S \ {x}) \cup {x} = S
  OBVIOUS
<1> QED
  BY <1>2, <1>3

\* Priorities change, but none of a waiting task.
LEMMA QueueOfSame ==
    ASSUME NEW T, NEW q, NEW S, NEW prio, QueueOf(q, T, S, prio),
           NEW new, \A u \in S : new[u] = prio[u]
    PROVE  QueueOf(q, T, S, new)
  BY SortedByLocal DEF QueueOf
=============================================================================
