------------------------- MODULE ConsoleLineProofs -------------------------
(***************************************************************************)
(* Proofs about the line editing of the device Console, for every length   *)
(* of the line.                                                            *)
(***************************************************************************)
EXTENDS ConsoleLine, SequenceTheorems, TLAPS

Queue == INSTANCE PriorityQueueProofs

----------------------------------------------------------------------------
(* Loops and the recursive functions that model them.                      *)

\* A set with 0 that contains the successor of each of its members below n has all
\* numbers up to n: the induction by which the loops of compress() are proved.
LEMMA UpTo ==
    ASSUME NEW n \in Nat, NEW S, 0 \in S,
           \A i \in 0 .. n : i # n /\ i \in S => i + 1 \in S
    PROVE  \A i \in 0 .. n : i \in S
<1> DEFINE Missing == {i \in 0 .. n : i \notin S}
<1>1. SUFFICES ASSUME Missing # {} PROVE FALSE
  OBVIOUS
<1>2. Missing \in SUBSET Nat
  OBVIOUS
<1> HIDE DEF Missing
<1>3. PICK m \in Missing : \A j \in Missing : m <= j
  BY <1>1, <1>2, Queue!LeastNatural
<1>4. m \in 0 .. n /\ m \notin S /\ m # 0
  BY <1>3 DEF Missing
<1>5. m - 1 \in 0 .. n /\ m - 1 # n /\ m - 1 \notin Missing
  BY <1>3, <1>4, <1>2
<1>6. m - 1 \in S
  BY <1>5 DEF Missing
<1>7. (m - 1) + 1 \in S
  BY <1>5, <1>6
<1> QED
  BY <1>4, <1>7

\* f is base, and F of the value before and the index.
Iterates(f, n, base, F) ==
    /\ f[0] = base
    /\ \A i \in 1 .. n : f[i] = F[<<f[i - 1], i>>]

\* A recursive definition over 0 .. n, whose step is the function F, has a solution.
LEMMA Recursion ==
    ASSUME NEW n \in Nat, NEW V, NEW base \in V, NEW F \in [V \X (1 .. n) -> V]
    PROVE  \E f \in [0 .. n -> V] : Iterates(f, n, base, F)
<1> DEFINE Solves(f, m) == Iterates(f, m, base, F)
           S == {m \in 0 .. n : \E f \in [0 .. n -> V] : Solves(f, m)}
<1>1. 0 \in S
  <2> DEFINE f == [i \in 0 .. n |-> base]
  <2>1. f \in [0 .. n -> V]
    OBVIOUS
  <2>2. Solves(f, 0)
    BY DEF Iterates
  <2> HIDE DEF f, Solves
  <2> QED
    BY <2>1, <2>2
<1>2. ASSUME NEW m \in 0 .. n, m # n, m \in S
      PROVE  m + 1 \in S
  <2>1. PICK f \in [0 .. n -> V] : Solves(f, m)
    BY <1>2
  <2> DEFINE g == [f EXCEPT ![m + 1] = F[<<f[m], m + 1>>]]
  <2>2. m + 1 \in 1 .. n /\ m + 1 \in 0 .. n /\ m \in 0 .. n
    BY <1>2
  <2>3. F[<<f[m], m + 1>>] \in V
    BY <2>2
  <2>4. g \in [0 .. n -> V]
    BY <2>3
  <2>5. g[m + 1] = F[<<f[m], m + 1>>] /\ \A i \in 0 .. m : g[i] = f[i]
    BY <2>2
  <2> HIDE DEF g
  <2>6. g[0] = base
    BY <2>1, <2>2, <2>5 DEF Iterates
  <2>7. ASSUME NEW i \in 1 .. m + 1
        PROVE  g[i] = F[<<g[i - 1], i>>]
    <3>1. CASE i = m + 1
      <4>1. g[i - 1] = f[m]
        BY <2>2, <2>5, <3>1
      <4> QED
        BY <3>1, <4>1, <2>5
    <3>2. CASE i \in 1 .. m
      <4>1. g[i] = f[i] /\ g[i - 1] = f[i - 1]
        BY <2>2, <2>5, <3>2
      <4> QED
        BY <3>2, <4>1, <2>1 DEF Iterates
    <3> QED
      BY <2>2, <3>1, <3>2
  <2>8. Solves(g, m + 1)
    BY <2>6, <2>7 DEF Iterates
  <2> HIDE DEF Solves
  <2> QED
    BY <2>2, <2>4, <2>8
<1> HIDE DEF S
<1>3. n \in S
  BY <1>1, <1>2, UpTo
<1> QED
  BY <1>3 DEF S

----------------------------------------------------------------------------
(* The union and the terminal.                                             *)

WideChar == [page : Byte, ch : Byte]

Line == [Columns -> WideChar]

Memory == [0 .. 2 * Size + 3 -> Byte]

Cell == WideChar \cup {Blank}

Terminal == [cells : [Columns -> Cell], column : Int]

\* What a key gives is a wide character, and so are NL and the null.
LEMMA CharsAreWide ==
    /\ Chars \subseteq WideChar
    /\ Wide(Newline) \in WideChar
    /\ Wide(Zero) \in WideChar
<1>1. ASSUME NEW char \in Chars PROVE char \in WideChar
  <2>1. char = [page |-> char.page, ch |-> char.ch]
    BY ConsoleLineAssumption
  <2>2. char.page \in Byte /\ char.ch \in Byte
    BY DEF Byte
  <2> QED
    BY <2>1, <2>2 DEF WideChar
<1>2. Newline \in Byte /\ Zero \in Byte
  BY DEF Byte
<1> QED
  BY <1>1, <1>2 DEF Wide, WideChar

\* The bytes of the union as wide characters.
LEMMA LineProperties ==
    ASSUME inputLine \in Memory
    PROVE  /\ WLine \in Line
           /\ \A i \in Columns : WLine[i] = wLine(i)
<1>1. ASSUME NEW i \in Columns
      PROVE  wLine(i) \in WideChar
  <2>1. 2 * i \in 0 .. 2 * Size + 3 /\ 2 * i + 1 \in 0 .. 2 * Size + 3
    BY ConsoleLineAssumption DEF Columns
  <2>2. inputLine[2 * i] \in Byte /\ inputLine[2 * i + 1] \in Byte
    BY <2>1 DEF Memory
  <2> QED
    BY <2>2 DEF wLine, WideChar
<1> QED
  BY <1>1 DEF WLine, Line

\* Both bytes of a wide character are where the union has them.
LEMMA UnionProperties ==
    ASSUME NEW w \in Line
    PROVE  /\ Union(w) \in Memory
           /\ \A i \in Columns : /\ Union(w)[2 * i] = w[i].page
                                 /\ Union(w)[2 * i + 1] = w[i].ch
<1>1. \A i \in Columns : w[i].page \in Byte /\ w[i].ch \in Byte
  BY DEF Line, WideChar
<1>2. \A c \in 0 .. 2 * Size + 3 : c \div 2 \in Columns
  BY ConsoleLineAssumption DEF Columns
<1>3. Union(w) \in Memory
  BY <1>1, <1>2 DEF Union, Memory
<1>4. ASSUME NEW i \in Columns
      PROVE  /\ Union(w)[2 * i] = w[i].page
             /\ Union(w)[2 * i + 1] = w[i].ch
  <2>1. 2 * i \in 0 .. 2 * Size + 3 /\ 2 * i + 1 \in 0 .. 2 * Size + 3
    BY ConsoleLineAssumption DEF Columns
  <2>2. /\ (2 * i) % 2 = 0 /\ (2 * i) \div 2 = i
        /\ (2 * i + 1) % 2 # 0 /\ (2 * i + 1) \div 2 = i
    BY ConsoleLineAssumption DEF Columns
  <2> QED
    BY <2>1, <2>2 DEF Union
<1> QED
  BY <1>3, <1>4

\* What is stored in the union is found there.
LEMMA Stored ==
    ASSUME NEW w \in Line, inputLine' = Union(w)
    PROVE  /\ inputLine' \in Memory
           /\ WLine' = w
           /\ \A i \in Columns : wLine(i)' = w[i]
<1>1. ASSUME NEW i \in Columns
      PROVE  [page |-> inputLine'[2 * i], ch |-> inputLine'[2 * i + 1]] = w[i]
  <2>1. inputLine'[2 * i] = w[i].page /\ inputLine'[2 * i + 1] = w[i].ch
    BY UnionProperties
  <2>2. w[i] \in WideChar
    BY DEF Line
  <2> QED
    BY <2>1, <2>2 DEF WideChar
<1>2. WLine' = w
  BY <1>1 DEF WLine, wLine, Line
<1> QED
  BY <1>1, <1>2, UnionProperties DEF wLine

\* The characters first .. last - 1 as a string.
LEMMA CellsProperties ==
    ASSUME NEW w \in Line, NEW first \in Nat, NEW last \in Nat,
           first <= last, last <= Size + 2
    PROVE  /\ Cells(w, first, last) \in Seq(WideChar)
           /\ Len(Cells(w, first, last)) = last - first
           /\ \A k \in 1 .. last - first : Cells(w, first, last)[k] = w[first + k - 1]
<1>1. \A k \in 1 .. last - first : w[first + k - 1] \in WideChar
  BY ConsoleLineAssumption DEF Line, Columns
<1>2. last - first \in Nat
  OBVIOUS
<1>3. Cells(w, first, last) \in [1 .. last - first -> WideChar]
  BY <1>1 DEF Cells
<1>4. Cells(w, first, last) \in Seq(WideChar)
  BY <1>2, <1>3 DEF Cells
<1> QED
  BY <1>2, <1>3, <1>4, LenProperties DEF Cells

LEMMA PutStringProperties ==
    ASSUME NEW t \in Terminal, NEW string \in Seq(Cell)
    PROVE  /\ PutString(t, string) \in Terminal
           /\ PutString(t, string).column = t.column + Len(string)
           /\ \A c \in Columns :
                  PutString(t, string).cells[c] = IF c - t.column \in 0 .. Len(string) - 1
                                                  THEN string[c - t.column + 1]
                                                  ELSE t.cells[c]
<1>1. Len(string) \in Nat /\ string \in [1 .. Len(string) -> Cell]
  BY LenProperties
<1>2. t.column \in Int /\ t.cells \in [Columns -> Cell]
  BY DEF Terminal
<1> DEFINE at(c) == IF c - t.column \in 0 .. Len(string) - 1
                    THEN string[c - t.column + 1]
                    ELSE t.cells[c]
<1>3. ASSUME NEW c \in Columns PROVE at(c) \in Cell
  <2>1. c \in Int
    BY ConsoleLineAssumption DEF Columns
  <2>2. CASE c - t.column \in 0 .. Len(string) - 1
    <3>1. c - t.column + 1 \in 1 .. Len(string)
      BY <1>1, <1>2, <2>1, <2>2
    <3> QED
      BY <1>1, <2>2, <3>1
  <2> QED
    BY <1>2, <2>2
<1>4. PutString(t, string) = [cells |-> [c \in Columns |-> at(c)],
                              column |-> t.column + Len(string)]
  BY DEF PutString
<1>5. t.column + Len(string) \in Int
  BY <1>1, <1>2
<1> HIDE DEF at
<1>6. [c \in Columns |-> at(c)] \in [Columns -> Cell]
  BY <1>3
<1>7. PutString(t, string) \in Terminal
  BY <1>4, <1>5, <1>6 DEF Terminal
<1>8. /\ PutString(t, string).column = t.column + Len(string)
      /\ \A c \in Columns : PutString(t, string).cells[c] = at(c)
  BY <1>4
<1> QED
  BY <1>7, <1>8 DEF at

LEMMA PutCharProperties ==
    ASSUME NEW t \in Terminal, NEW char \in Chars
    PROVE  /\ PutString(t, <<char>>) \in Terminal
           /\ PutString(t, <<char>>).column = t.column + 1
           /\ \A c \in Columns : PutString(t, <<char>>).cells[c] = IF c = t.column THEN char
                                                                   ELSE t.cells[c]
<1> DEFINE string == <<char>>
<1>1. string \in Seq(Cell) /\ Len(string) = 1 /\ string[1] = char
  BY CharsAreWide DEF Cell
<1> HIDE DEF string
<1>2. /\ PutString(t, string) \in Terminal
      /\ PutString(t, string).column = t.column + Len(string)
      /\ \A c \in Columns :
             PutString(t, string).cells[c] = IF c - t.column \in 0 .. Len(string) - 1
                                             THEN string[c - t.column + 1]
                                             ELSE t.cells[c]
  BY <1>1, PutStringProperties
<1>3. t.column \in Int /\ Columns \subseteq Int
  BY ConsoleLineAssumption DEF Terminal, Columns
<1>4. ASSUME NEW c \in Columns
      PROVE  PutString(t, string).cells[c] = IF c = t.column THEN char ELSE t.cells[c]
  <2>1. CASE c = t.column
    BY <1>1, <1>2, <1>3, <2>1
  <2>2. CASE c # t.column
    BY <1>1, <1>2, <1>3, <2>2
  <2> QED
    BY <2>1, <2>2
<1> QED
  BY <1>1, <1>2, <1>4 DEF string

LEMMA GoLeftProperties ==
    ASSUME NEW t \in Terminal, NEW n \in Int
    PROVE  /\ GoLeft(t, n) \in Terminal
           /\ GoLeft(t, n).column = t.column - n
           /\ GoLeft(t, n).cells = t.cells
<1>1. t.column - n \in Int
  BY DEF Terminal
<1> QED
  BY <1>1 DEF GoLeft, Terminal

\* After a rewrite the terminal shows w from the cursor on, the blank of a deletion behind
\* it, and the cursor is back.
LEMMA RewriteProperties ==
    ASSUME NEW t \in Terminal, NEW w \in Line, NEW cursor \in Nat, NEW nbr \in Nat,
           cursor <= nbr, nbr <= Size, t.column = cursor, NEW blanks \in {<<>>, <<Blank>>}
    PROVE  LET r == Rewrite(t, w, cursor, nbr, blanks) IN
           /\ r \in Terminal
           /\ r.column = cursor
           /\ \A c \in Columns :
                  r.cells[c] = IF c \in cursor .. nbr - 1 THEN w[c]
                               ELSE IF blanks # <<>> /\ c = nbr THEN Blank
                               ELSE t.cells[c]
<1> DEFINE string == Cells(w, cursor, nbr) \o blanks
           put == PutString(t, string)
           r == Rewrite(t, w, cursor, nbr, blanks)
<1>1. Size \in Nat
  BY ConsoleLineAssumption
<1>2. /\ Cells(w, cursor, nbr) \in Seq(Cell)
      /\ Len(Cells(w, cursor, nbr)) = nbr - cursor
      /\ \A k \in 1 .. nbr - cursor : Cells(w, cursor, nbr)[k] = w[cursor + k - 1]
  <2>1. nbr <= Size + 2
    BY <1>1
  <2>2. /\ Cells(w, cursor, nbr) \in Seq(WideChar)
        /\ Len(Cells(w, cursor, nbr)) = nbr - cursor
        /\ \A k \in 1 .. nbr - cursor : Cells(w, cursor, nbr)[k] = w[cursor + k - 1]
    BY <2>1, CellsProperties
  <2>3. Seq(WideChar) \subseteq Seq(Cell)
    BY DEF Cell
  <2> QED
    BY <2>2, <2>3
<1>3. /\ blanks \in Seq(Cell)
      /\ \/ blanks = <<>> /\ Len(blanks) = 0
         \/ blanks # <<>> /\ Len(blanks) = 1 /\ blanks[1] = Blank
  <2>1. CASE blanks = <<>>
    BY <2>1
  <2>2. CASE blanks = <<Blank>>
    <3>1. Blank \in Cell
      BY DEF Cell
    <3> QED
      BY <2>2, <3>1
  <2> QED
    BY <2>1, <2>2
<1>4. /\ string \in Seq(Cell)
      /\ Len(string) = nbr - cursor + Len(blanks)
      /\ \A k \in 1 .. nbr - cursor : string[k] = w[cursor + k - 1]
      /\ blanks # <<>> => string[nbr - cursor + 1] = Blank
  <2> DEFINE cells == Cells(w, cursor, nbr)
  <2>1. /\ cells \in Seq(Cell) /\ Len(cells) = nbr - cursor
        /\ \A k \in 1 .. nbr - cursor : cells[k] = w[cursor + k - 1]
    BY <1>2
  <2> HIDE DEF cells
  <2>2. /\ cells \o blanks \in Seq(Cell)
        /\ Len(cells \o blanks) = Len(cells) + Len(blanks)
        /\ \A k \in 1 .. Len(cells) + Len(blanks) :
               (cells \o blanks)[k] = IF k <= Len(cells) THEN cells[k]
                                      ELSE blanks[k - Len(cells)]
    BY <1>3, <2>1, ConcatProperties
  <2> DEFINE both == cells \o blanks
             m == Len(blanks)
  <2>3. both = string
    BY DEF cells
  <2>4. /\ both \in Seq(Cell) /\ Len(both) = nbr - cursor + m
        /\ \A k \in 1 .. nbr - cursor + m :
               both[k] = IF k <= nbr - cursor THEN cells[k] ELSE blanks[k - (nbr - cursor)]
    BY <2>1, <2>2
  <2>5. \/ blanks = <<>> /\ m = 0
        \/ blanks # <<>> /\ m = 1 /\ blanks[1] = Blank
    BY <1>3, Zenon
  <2> HIDE DEF both, m, string
  <2>6. \A k \in 1 .. nbr - cursor : both[k] = w[cursor + k - 1]
    <3>1. \A k \in 1 .. nbr - cursor : k \in 1 .. nbr - cursor + m /\ k <= nbr - cursor
      BY <2>5
    <3> QED
      BY <2>1, <2>4, <3>1
  <2>7. blanks # <<>> => both[nbr - cursor + 1] = Blank
    <3>1. SUFFICES ASSUME blanks # <<>> PROVE both[nbr - cursor + 1] = Blank
      OBVIOUS
    <3>2. m = 1 /\ blanks[1] = Blank
      BY <2>5, <3>1
    <3> DEFINE k == nbr - cursor + 1
    <3>3. k \in 1 .. nbr - cursor + m /\ ~ (k <= nbr - cursor) /\ k - (nbr - cursor) = 1
      BY <3>2
    <3> HIDE DEF k
    <3>4. both[k] = Blank
      BY <2>4, <3>2, <3>3
    <3> QED
      BY <3>4 DEF k
  <2> QED
    BY <2>3, <2>4, <2>6, <2>7 DEF m
<1> HIDE DEF string
<1>5. /\ put \in Terminal
      /\ put.column = cursor + Len(string)
      /\ \A c \in Columns : put.cells[c] = IF c - cursor \in 0 .. Len(string) - 1
                                           THEN string[c - cursor + 1]
                                           ELSE t.cells[c]
  BY <1>4, PutStringProperties
<1> HIDE DEF put
<1>6. r = GoLeft(put, nbr - cursor + Len(blanks))
  BY DEF Rewrite, put, string
<1> HIDE DEF r
<1>7. /\ r \in Terminal
      /\ r.column = put.column - (nbr - cursor + Len(blanks))
      /\ r.cells = put.cells
  <2> DEFINE back == nbr - cursor + Len(blanks)
  <2>1. back \in Int
    BY <1>3
  <2>2. r = GoLeft(put, back)
    BY <1>6
  <2> HIDE DEF back
  <2>3. r \in Terminal /\ r.column = put.column - back /\ r.cells = put.cells
    BY <1>5, <2>1, <2>2, GoLeftProperties
  <2> QED
    BY <2>3 DEF back
<1>8. r.column = cursor
  BY <1>3, <1>4, <1>5, <1>7
<1>9. ASSUME NEW c \in Columns
      PROVE  r.cells[c] = IF c \in cursor .. nbr - 1 THEN w[c]
                          ELSE IF blanks # <<>> /\ c = nbr THEN Blank
                          ELSE t.cells[c]
  <2>1. c \in Nat
    BY <1>1 DEF Columns
  <2>2. r.cells[c] = IF c - cursor \in 0 .. Len(string) - 1
                     THEN string[c - cursor + 1]
                     ELSE t.cells[c]
    BY <1>5, <1>7
  <2>3. CASE c \in cursor .. nbr - 1
    <3>1. string[c - cursor + 1] = w[c]
      BY <1>4, <2>1, <2>3
    <3> QED
      BY <1>3, <1>4, <2>1, <2>2, <2>3, <3>1
  <2>4. CASE c = nbr
    BY <1>3, <1>4, <2>1, <2>2, <2>4
  <2>5. CASE c \notin cursor .. nbr
    <3>1. Len(string) - 1 <= nbr - cursor
      <4>1. Len(blanks) \in 0 .. 1
        BY <1>3
      <4>2. Len(string) = nbr - cursor + Len(blanks)
        BY <1>4
      <4> DEFINE l == Len(string)
                 m == Len(blanks)
      <4>3. m \in 0 .. 1 /\ l = nbr - cursor + m
        BY <4>1, <4>2
      <4> HIDE DEF l, m
      <4>4. l - 1 <= nbr - cursor
        BY <4>3
      <4> QED
        BY <4>4 DEF l
    <3>2. ~ (c - cursor \in 0 .. Len(string) - 1)
      BY <1>3, <1>4, <2>1, <2>5, <3>1
    <3> QED
      BY <2>1, <2>2, <2>5, <3>2
  <2> QED
    BY <2>1, <2>3, <2>4, <2>5
<1> QED
  BY <1>7, <1>8, <1>9 DEF r

----------------------------------------------------------------------------
(* compress().                                                             *)

Compressed == [bytes : Memory, writePointer : Nat]

LEMMA PutProperties ==
    ASSUME NEW s \in Compressed, NEW b \in Byte
    PROVE  /\ Put(s, b) \in Compressed
           /\ Put(s, b).writePointer = s.writePointer + 1
           /\ \A k \in 0 .. 2 * Size + 3 :
                  Put(s, b).bytes[k] = IF k = s.writePointer THEN b ELSE s.bytes[k]
<1>1. s.bytes \in Memory /\ s.writePointer \in Nat /\ s.writePointer + 1 \in Nat
  BY DEF Compressed
<1>2. [s.bytes EXCEPT ![s.writePointer] = b] \in Memory
  BY <1>1 DEF Memory
<1>3. Put(s, b) \in Compressed
  BY <1>1, <1>2 DEF Put, Compressed
<1> QED
  BY <1>1, <1>3 DEF Put, Memory

LEMMA CompressOneType ==
    ASSUME NEW s \in Compressed, NEW i \in 1 .. Size + 2
    PROVE  CompressOne(s, i) \in Compressed
<1>1. 2 * i - 2 \in 0 .. 2 * Size + 3 /\ 2 * i - 1 \in 0 .. 2 * Size + 3
  BY ConsoleLineAssumption
<1>2. \A r \in Compressed : r.bytes[2 * i - 2] \in Byte /\ r.bytes[2 * i - 1] \in Byte
  BY <1>1 DEF Compressed, Memory
<1> DEFINE p == IF s.bytes[2 * i - 2] # Zero THEN Put(s, s.bytes[2 * i - 2]) ELSE s
<1>3. p \in Compressed
  BY <1>2, PutProperties
<1>4. CompressOne(s, i) = Put(p, p.bytes[2 * i - 1])
  BY DEF CompressOne
<1> HIDE DEF p
<1> QED
  BY <1>2, <1>3, <1>4, PutProperties

\* The recursive function of Compress is what its definition says, and its values are of
\* the type.
LEMMA CompressLoop ==
    ASSUME NEW bytes \in Memory, NEW n \in 0 .. Size + 2
    PROVE  \E upTo \in [0 .. n -> Compressed] :
               /\ upTo[0] = [bytes |-> bytes, writePointer |-> 0]
               /\ \A i \in 1 .. n : upTo[i] = CompressOne(upTo[i - 1], i)
               /\ Compress(bytes, n) = upTo[n]
<1> DEFINE base == [bytes |-> bytes, writePointer |-> 0]
           F == [p \in Compressed \X (1 .. n) |-> CompressOne(p[1], p[2])]
           Solves(f) == f = [i \in 0 .. n |-> IF i = 0 THEN base ELSE CompressOne(f[i - 1], i)]
           upTo == CHOOSE f : Solves(f)
<1>1. n \in Nat /\ Size \in Nat
  BY ConsoleLineAssumption
<1>2. base \in Compressed
  BY DEF Compressed
<1>3. F \in [Compressed \X (1 .. n) -> Compressed]
  BY <1>1, CompressOneType
<1> HIDE DEF base
<1>4. \A s \in Compressed, i \in 1 .. n : F[<<s, i>>] = CompressOne(s, i)
  OBVIOUS
<1> HIDE DEF F
<1>5. PICK f \in [0 .. n -> Compressed] : Iterates(f, n, base, F)
  BY <1>1, <1>2, <1>3, Recursion
<1>6. ASSUME NEW i \in 1 .. n PROVE f[i] = CompressOne(f[i - 1], i)
  <2>1. i - 1 \in 0 .. n
    BY <1>1
  <2>2. f[i - 1] \in Compressed
    BY <2>1
  <2> QED
    BY <1>4, <1>5, <2>2, Zenon DEF Iterates
<1>7. Solves(f)
  BY <1>1, <1>5, <1>6 DEF Iterates
<1> HIDE DEF Solves
<1>8. Solves(upTo)
  BY <1>7
<1>9. Compress(bytes, n) = upTo[n]
  BY DEF Compress, Solves, base
<1> HIDE DEF upTo
<1>10. upTo[0] = base /\ \A i \in 1 .. n : upTo[i] = CompressOne(upTo[i - 1], i)
  BY <1>1, <1>8 DEF Solves
<1>11. upTo \in [0 .. n -> Compressed]
  <2> DEFINE S == {i \in 0 .. n : upTo[i] \in Compressed}
  <2>1. 0 \in S
    BY <1>1, <1>2, <1>10
  <2>2. ASSUME NEW i \in 0 .. n, i # n, i \in S
        PROVE  i + 1 \in S
    <3>1. i + 1 \in 1 .. n /\ i + 1 \in 1 .. Size + 2 /\ (i + 1) - 1 = i
      BY <1>1, <2>2
    <3>2. upTo[i + 1] = CompressOne(upTo[i], i + 1)
      BY <1>10, <3>1
    <3> QED
      BY <1>1, <2>2, <3>1, <3>2, CompressOneType
  <2> HIDE DEF S
  <2>3. \A i \in 0 .. n : i \in S
    BY <1>1, <2>1, <2>2, UpTo
  <2>4. \A i \in 0 .. n : upTo[i] \in Compressed
    BY <2>3 DEF S
  <2> QED
    BY <1>8, <2>4 DEF Solves
<1> QED
  BY <1>9, <1>10, <1>11 DEF base

----------------------------------------------------------------------------
(* The invariant.  Every action needs that the terminal's cursor is where  *)
(* the text's is: from there it writes and goes back.                      *)

Inv == TypeOK /\ terminal \in Terminal /\ ScreenMatches

\* The terminal shows the first n characters of w.
Shows(t, w, n) == \A c \in Columns : t.cells[c] = IF c < n THEN w[c] ELSE Blank

LEMMA InvInit == Init => Inv
<1> SUFFICES ASSUME Init PROVE Inv
  OBVIOUS
<1>1. Size \in Nat /\ Zero \in Byte
  BY ConsoleLineAssumption DEF Byte
<1>2. TypeOK
  <2>1. inputLine \in [0 .. 2 * Size + 3 -> Byte]
    BY <1>1 DEF Init
  <2>2. terminal.column = 0 /\ 0 \in Columns
    BY <1>1 DEF Init, EmptyTerminal, Columns
  <2>3. insertMode \in BOOLEAN /\ crashed \in BOOLEAN
    BY Zenon DEF Init
  <2> QED
    BY <1>1, <2>1, <2>2, <2>3 DEF Init, TypeOK
<1>3. terminal \in Terminal
  BY DEF Init, EmptyTerminal, Terminal, Cell
<1>4. ScreenMatches
  BY <1>1 DEF Init, EmptyTerminal, ScreenMatches, Columns
<1> QED
  BY <1>2, <1>3, <1>4 DEF Inv

\* What the actions know of a state.
LEMMA InvFacts ==
    ASSUME Inv
    PROVE  /\ Size \in Nat
           /\ inputLine \in Memory
           /\ WLine \in Line
           /\ \A i \in Columns : WLine[i] = wLine(i)
           /\ nbrEnteredCharacters \in Nat /\ nbrEnteredCharacters <= Size
           /\ cursorPosition \in Nat /\ cursorPosition <= nbrEnteredCharacters
           /\ terminal \in Terminal
           /\ terminal.column = cursorPosition
           /\ Shows(terminal, WLine, nbrEnteredCharacters)
<1>1. Size \in Nat /\ inputLine \in Memory
  BY ConsoleLineAssumption DEF Inv, TypeOK, Memory
<1>2. WLine \in Line /\ \A i \in Columns : WLine[i] = wLine(i)
  BY <1>1, LineProperties
<1>3. Shows(terminal, WLine, nbrEnteredCharacters)
  BY <1>2 DEF Inv, ScreenMatches, Shows
<1> QED
  BY <1>1, <1>2, <1>3 DEF Inv, TypeOK, ScreenMatches

\* What an action has to leave.
LEMMA InvFromParts ==
    ASSUME Size \in Nat,
           nbrEnteredCharacters' \in Nat, nbrEnteredCharacters' <= Size,
           cursorPosition' \in Nat, cursorPosition' <= nbrEnteredCharacters',
           inputLine' \in Memory, terminal' \in Terminal,
           insertMode' \in BOOLEAN, crashed' \in BOOLEAN, wch' \in Decoded,
           terminal'.column = cursorPosition',
           Shows(terminal', WLine', nbrEnteredCharacters')
    PROVE  Inv'
<1>1. TypeOK'
  BY DEF TypeOK, Memory, Columns
<1>2. ScreenMatches'
  BY DEF ScreenMatches, Shows, WLine
<1> QED
  BY <1>1, <1>2 DEF Inv

----------------------------------------------------------------------------
(* What the keys do to the characters of the line.                         *)

LEMMA OverwriteLine ==
    ASSUME Inv, NEW char \in Chars, Overwrite(char)
    PROVE  /\ inputLine' \in Memory
           /\ WLine' \in Line
           /\ \A i \in Columns : WLine'[i] = IF i = cursorPosition THEN char ELSE WLine[i]
<1> DEFINE w == [WLine EXCEPT ![cursorPosition] = char]
<1>1. WLine \in Line /\ char \in WideChar
  BY InvFacts, CharsAreWide
<1>2. w \in Line
  BY <1>1 DEF Line
<1>3. \A i \in Columns : w[i] = IF i = cursorPosition THEN char ELSE WLine[i]
  BY <1>1 DEF Line
<1>4. inputLine' = Union(w)
  BY DEF Overwrite
<1> HIDE DEF w
<1>5. inputLine' \in Memory /\ WLine' = w
  BY <1>2, <1>4, Stored
<1> QED
  BY <1>2, <1>3, <1>5

LEMMA InsertLine ==
    ASSUME Inv, NEW char \in Chars, Insert(char)
    PROVE  /\ inputLine' \in Memory
           /\ WLine' \in Line
           /\ WLine' = [Shifted EXCEPT ![cursorPosition] = char]
           /\ \A i \in Columns :
                  WLine'[i] = IF i = cursorPosition THEN char
                              ELSE IF /\ nbrEnteredCharacters > cursorPosition
                                      /\ i \in cursorPosition + 1 .. nbrEnteredCharacters + 1
                              THEN WLine[i - 1]
                              ELSE WLine[i]
<1> DEFINE w == [Shifted EXCEPT ![cursorPosition] = char]
<1>1. /\ WLine \in Line /\ char \in WideChar /\ Size \in Nat /\ cursorPosition \in Nat
      /\ \A i \in Columns : WLine[i] = wLine(i)
  BY InvFacts, CharsAreWide
<1>2. \A i \in Columns : i \in cursorPosition + 1 .. nbrEnteredCharacters + 1 =>
                             i - 1 \in Columns
  BY <1>1, InvFacts DEF Columns
<1>3. /\ Shifted \in Line
      /\ \A i \in Columns :
             Shifted[i] = IF /\ nbrEnteredCharacters > cursorPosition
                             /\ i \in cursorPosition + 1 .. nbrEnteredCharacters + 1
                          THEN WLine[i - 1]
                          ELSE WLine[i]
  BY <1>1, <1>2 DEF Shifted, Line
<1>4. w \in Line /\ \A i \in Columns : w[i] = IF i = cursorPosition THEN char ELSE Shifted[i]
  BY <1>1, <1>3 DEF Line
<1>5. inputLine' = Union(w)
  BY DEF Insert
<1> HIDE DEF w
<1>6. inputLine' \in Memory /\ WLine' = w
  BY <1>4, <1>5, Stored
<1> QED
  BY <1>3, <1>4, <1>6 DEF w

\* BackSpace and Delete close the gap at position gap.
Closed(gap) ==
    [i \in Columns |-> IF i \in gap .. nbrEnteredCharacters - 2 THEN wLine(i + 1) ELSE wLine(i)]

LEMMA ClosedLine ==
    ASSUME Inv, NEW gap \in Nat, inputLine' = Union(Closed(gap))
    PROVE  /\ Closed(gap) \in Line
           /\ inputLine' \in Memory
           /\ WLine' = Closed(gap)
           /\ \A i \in Columns :
                  Closed(gap)[i] = IF i \in gap .. nbrEnteredCharacters - 2
                                   THEN WLine[i + 1]
                                   ELSE WLine[i]
<1>1. WLine \in Line /\ Size \in Nat /\ \A i \in Columns : WLine[i] = wLine(i)
  BY InvFacts
<1>2. \A i \in Columns : i \in gap .. nbrEnteredCharacters - 2 => i + 1 \in Columns
  BY <1>1, InvFacts DEF Columns
<1>3. /\ Closed(gap) \in Line
      /\ \A i \in Columns :
             Closed(gap)[i] = IF i \in gap .. nbrEnteredCharacters - 2
                              THEN WLine[i + 1]
                              ELSE WLine[i]
  BY <1>1, <1>2 DEF Closed, Line
<1> QED
  BY <1>3, Stored

----------------------------------------------------------------------------
(* Every key keeps the invariant.                                          *)

LEMMA OverwriteInv ==
    ASSUME Inv, NEW char \in Chars, Overwrite(char), wch' = char
    PROVE  Inv'
<1> USE InvFacts
<1>1. /\ nbrEnteredCharacters < Size
      /\ nbrEnteredCharacters' = IF cursorPosition = nbrEnteredCharacters
                                 THEN nbrEnteredCharacters + 1
                                 ELSE nbrEnteredCharacters
      /\ cursorPosition' = cursorPosition + 1
      /\ terminal' = PutString(terminal, <<char>>)
      /\ insertMode' = insertMode /\ crashed' = crashed
  BY DEF Overwrite, Room
<1>3. /\ terminal' \in Terminal
      /\ terminal'.column = cursorPosition + 1
      /\ \A c \in Columns :
             terminal'.cells[c] = IF c = cursorPosition THEN char ELSE terminal.cells[c]
  BY <1>1, PutCharProperties
<1>5. Shows(terminal', WLine', nbrEnteredCharacters')
  BY <1>1, <1>3, OverwriteLine DEF Shows, Columns
<1>6. insertMode' \in BOOLEAN /\ crashed' \in BOOLEAN /\ wch' \in Decoded
  BY <1>1 DEF Inv, TypeOK, Decoded
<1>7. /\ nbrEnteredCharacters' \in Nat /\ nbrEnteredCharacters' <= Size
      /\ cursorPosition' \in Nat /\ cursorPosition' <= nbrEnteredCharacters'
  BY <1>1
<1> QED
  BY <1>1, <1>3, <1>5, <1>6, <1>7, OverwriteLine, InvFromParts

LEMMA InsertInv ==
    ASSUME Inv, NEW char \in Chars, Insert(char), wch' = char
    PROVE  Inv'
<1> USE InvFacts
<1> DEFINE w == [Shifted EXCEPT ![cursorPosition] = char]
           put == PutString(terminal, <<char>>)
<1>1. /\ nbrEnteredCharacters < Size
      /\ inputLine' = Union(w)
      /\ nbrEnteredCharacters' = nbrEnteredCharacters + 1
      /\ cursorPosition' = cursorPosition + 1
      /\ terminal' = Rewrite(put, w, cursorPosition', nbrEnteredCharacters', <<>>)
      /\ insertMode' = insertMode /\ crashed' = crashed
  BY DEF Insert, Room
<1>2. /\ put \in Terminal
      /\ put.column = cursorPosition + 1
      /\ \A c \in Columns : put.cells[c] = IF c = cursorPosition THEN char ELSE terminal.cells[c]
  BY PutCharProperties
<1>3. inputLine' \in Memory /\ WLine' \in Line /\ w = WLine'
  BY InsertLine
<1> HIDE DEF w, put
<1>4. /\ nbrEnteredCharacters' \in Nat /\ nbrEnteredCharacters' <= Size
      /\ cursorPosition' \in Nat /\ cursorPosition' <= nbrEnteredCharacters'
  BY <1>1
<1>5. /\ terminal' \in Terminal
      /\ terminal'.column = cursorPosition'
      /\ \A c \in Columns :
             terminal'.cells[c] = IF c \in cursorPosition' .. nbrEnteredCharacters' - 1
                                  THEN WLine'[c]
                                  ELSE put.cells[c]
  <2> DEFINE cursor == cursorPosition'
             nbr == nbrEnteredCharacters'
             blanks == <<>>
             r == Rewrite(put, w, cursor, nbr, blanks)
  <2>1. put.column = cursor /\ blanks \in {<<>>, <<Blank>>} /\ blanks = <<>> /\ terminal' = r
    BY <1>1, <1>2
  <2> HIDE DEF cursor, nbr, blanks
  <2>2. cursor \in Nat /\ nbr \in Nat /\ cursor <= nbr /\ nbr <= Size
    BY <1>4 DEF cursor, nbr
  <2>3. /\ r \in Terminal
        /\ r.column = cursor
        /\ \A c \in Columns :
               r.cells[c] = IF c \in cursor .. nbr - 1 THEN w[c]
                            ELSE IF blanks # <<>> /\ c = nbr THEN Blank
                            ELSE put.cells[c]
    <3> HIDE InvFacts
    <3>1. put \in Terminal /\ w \in Line
      BY <1>2, <1>3
    <3>2. put.column = cursor /\ blanks \in {<<>>, <<Blank>>}
      BY <2>1
    <3> QED
      BY <2>2, <3>1, <3>2, RewriteProperties
  <2> QED
    BY <1>3, <2>1, <2>3 DEF cursor, nbr
<1>6. Shows(terminal', WLine', nbrEnteredCharacters')
  BY <1>1, <1>2, <1>5, InsertLine DEF Shows, Columns
<1>7. insertMode' \in BOOLEAN /\ crashed' \in BOOLEAN /\ wch' \in Decoded
  BY <1>1 DEF Inv, TypeOK, Decoded
<1> QED
  BY <1>3, <1>4, <1>5, <1>6, <1>7, InvFromParts

\* BackSpace and Delete: the rest of the line moves to position gap, where the terminal's
\* cursor is, and the cell behind it is erased.
LEMMA ClosedShows ==
    ASSUME Inv, NEW gap \in Nat, gap < nbrEnteredCharacters, inputLine' = Union(Closed(gap)),
           NEW t \in Terminal, t.column = gap, t.cells = terminal.cells,
           terminal' = Rewrite(t, Closed(gap), gap, nbrEnteredCharacters - 1, <<Blank>>)
    PROVE  /\ terminal' \in Terminal
           /\ terminal'.column = gap
           /\ Shows(terminal', WLine', nbrEnteredCharacters - 1)
<1> USE InvFacts
<1> DEFINE w == Closed(gap)
           nbr == nbrEnteredCharacters - 1
           blanks == <<Blank>>
           r == Rewrite(t, w, gap, nbr, blanks)
<1>1. /\ w \in Line
      /\ WLine' = w
      /\ \A i \in Columns : w[i] = IF i \in gap .. nbrEnteredCharacters - 2 THEN WLine[i + 1]
                                   ELSE WLine[i]
  BY ClosedLine
<1>2. nbr \in Nat /\ gap <= nbr /\ nbr <= Size
  OBVIOUS
<1>3. terminal' = r /\ blanks \in {<<>>, <<Blank>>} /\ blanks # <<>>
  OBVIOUS
<1> HIDE DEF w, nbr, blanks
<1>4. /\ r \in Terminal
      /\ r.column = gap
      /\ \A c \in Columns :
             r.cells[c] = IF c \in gap .. nbr - 1 THEN w[c]
                          ELSE IF blanks # <<>> /\ c = nbr THEN Blank
                          ELSE t.cells[c]
  <2> HIDE InvFacts
  <2>1. w \in Line /\ blanks \in {<<>>, <<Blank>>} /\ t.column = gap
    BY <1>1, <1>3
  <2> QED
    BY <1>2, <2>1, RewriteProperties
<1>5. Shows(r, w, nbr)
  BY <1>1, <1>2, <1>3, <1>4 DEF Shows, Columns, nbr
<1> QED
  BY <1>1, <1>3, <1>4, <1>5 DEF nbr

LEMMA BackSpaceInv ==
    ASSUME Inv, BackSpace, wch' \in Decoded
    PROVE  Inv'
<1> USE InvFacts
<1> DEFINE gap == cursorPosition - 1
           t == GoLeft(terminal, 1)
<1>1. /\ cursorPosition > 0
      /\ inputLine' = Union(Closed(gap))
      /\ nbrEnteredCharacters' = nbrEnteredCharacters - 1
      /\ cursorPosition' = cursorPosition - 1
      /\ terminal' = Rewrite(t, Closed(gap), cursorPosition', nbrEnteredCharacters', <<Blank>>)
      /\ insertMode' = insertMode /\ crashed' = crashed
  BY DEF BackSpace, Closed
<1>2. gap \in Nat /\ gap < nbrEnteredCharacters /\ cursorPosition' = gap
  BY <1>1
<1>3. t \in Terminal /\ t.column = gap /\ t.cells = terminal.cells
  <2>1. /\ GoLeft(terminal, 1) \in Terminal
        /\ GoLeft(terminal, 1).column = terminal.column - 1
        /\ GoLeft(terminal, 1).cells = terminal.cells
    <3>1. 1 \in Int /\ terminal \in Terminal
      OBVIOUS
    <3> QED
      BY <3>1, GoLeftProperties
  <2> QED
    BY <2>1
<1> HIDE DEF gap, t
<1>4. /\ terminal' \in Terminal
      /\ terminal'.column = gap
      /\ Shows(terminal', WLine', nbrEnteredCharacters - 1)
  BY <1>1, <1>2, <1>3, ClosedShows
<1>5. inputLine' \in Memory
  BY <1>1, <1>2, ClosedLine
<1>6. insertMode' \in BOOLEAN /\ crashed' \in BOOLEAN
  BY <1>1 DEF Inv, TypeOK
<1>7. /\ nbrEnteredCharacters' \in Nat /\ nbrEnteredCharacters' <= Size
      /\ cursorPosition' \in Nat /\ cursorPosition' <= nbrEnteredCharacters'
  BY <1>1, <1>2
<1> QED
  BY <1>1, <1>2, <1>4, <1>5, <1>6, <1>7, InvFromParts

LEMMA DeleteInv ==
    ASSUME Inv, Delete
    PROVE  Inv'
<1> USE InvFacts
<1>1. /\ cursorPosition < nbrEnteredCharacters
      /\ inputLine' = Union(Closed(cursorPosition))
      /\ nbrEnteredCharacters' = nbrEnteredCharacters - 1
      /\ terminal' = Rewrite(terminal, Closed(cursorPosition), cursorPosition,
                             nbrEnteredCharacters', <<Blank>>)
      /\ cursorPosition' = cursorPosition
      /\ insertMode' = insertMode /\ wch' = wch /\ crashed' = crashed
  BY DEF Delete, Closed
<1>2. /\ terminal' \in Terminal
      /\ terminal'.column = cursorPosition
      /\ Shows(terminal', WLine', nbrEnteredCharacters - 1)
  BY <1>1, ClosedShows
<1>3. inputLine' \in Memory
  BY <1>1, ClosedLine
<1>4. insertMode' \in BOOLEAN /\ crashed' \in BOOLEAN /\ wch' \in Decoded
  BY <1>1 DEF Inv, TypeOK
<1>5. /\ nbrEnteredCharacters' \in Nat /\ nbrEnteredCharacters' <= Size
      /\ cursorPosition' \in Nat /\ cursorPosition' <= nbrEnteredCharacters'
  BY <1>1
<1> QED
  BY <1>1, <1>2, <1>3, <1>4, <1>5, InvFromParts

LEMMA MoveToInv ==
    ASSUME Inv, NEW cursor \in 0 .. nbrEnteredCharacters, MoveTo(cursor)
    PROVE  Inv'
<1> USE InvFacts
<1>1. /\ cursorPosition' = cursor
      /\ inputLine' = inputLine /\ nbrEnteredCharacters' = nbrEnteredCharacters
      /\ insertMode' = insertMode /\ wch' = wch /\ crashed' = crashed
  BY DEF MoveTo
<1>2. WLine' = WLine
  BY <1>1 DEF WLine, wLine
<1>3. /\ terminal' \in Terminal
      /\ terminal'.column = cursor
      /\ Shows(terminal', WLine, nbrEnteredCharacters)
  <2>1. CASE cursor < cursorPosition
    <3> DEFINE back == cursorPosition - cursor
    <3>1. terminal' = GoLeft(terminal, back) /\ back \in Int
      BY <2>1 DEF MoveTo
    <3> HIDE DEF back
    <3>2. /\ terminal' \in Terminal
          /\ terminal'.column = terminal.column - back
          /\ terminal'.cells = terminal.cells
      BY <3>1, GoLeftProperties
    <3> QED
      BY <3>2 DEF Shows, back
  <2>2. CASE ~ (cursor < cursorPosition)
    <3> DEFINE string == Cells(WLine, cursorPosition, cursor)
    <3>1. terminal' = PutString(terminal, string)
      BY <2>2 DEF MoveTo
    <3>2. /\ string \in Seq(WideChar)
          /\ Len(string) = cursor - cursorPosition
          /\ \A k \in 1 .. cursor - cursorPosition : string[k] = WLine[cursorPosition + k - 1]
      <4>1. cursor \in Nat /\ cursorPosition <= cursor /\ cursor <= Size + 2
        BY <2>2
      <4> QED
        BY <4>1, CellsProperties
    <3> HIDE DEF string
    <3>3. string \in Seq(Cell)
      BY <3>2 DEF Cell
    <3>4. /\ terminal' \in Terminal
          /\ terminal'.column = cursorPosition + Len(string)
          /\ \A c \in Columns :
                 terminal'.cells[c] = IF c - cursorPosition \in 0 .. Len(string) - 1
                                      THEN string[c - cursorPosition + 1]
                                      ELSE terminal.cells[c]
      BY <3>1, <3>3, PutStringProperties
    <3>5. terminal'.column = cursor
      BY <2>2, <3>2, <3>4
    <3>6. ASSUME NEW c \in Columns
          PROVE  terminal'.cells[c] = terminal.cells[c]
      <4>1. c \in Nat
        BY DEF Columns
      <4>2. CASE c - cursorPosition \in 0 .. Len(string) - 1
        <5>1. c - cursorPosition + 1 \in 1 .. cursor - cursorPosition /\ c < nbrEnteredCharacters
          BY <2>2, <3>2, <4>1, <4>2
        <5>2. string[c - cursorPosition + 1] = WLine[c]
          BY <3>2, <4>1, <5>1
        <5> QED
          BY <3>4, <4>2, <5>1, <5>2 DEF Shows
      <4> QED
        BY <3>4, <4>2
    <3> QED
      BY <3>4, <3>5, <3>6 DEF Shows
  <2> QED
    BY <2>1, <2>2
<1>4. insertMode' \in BOOLEAN /\ crashed' \in BOOLEAN /\ wch' \in Decoded
  BY <1>1 DEF Inv, TypeOK
<1> QED
  BY <1>1, <1>2, <1>3, <1>4, InvFromParts

LEMMA NewLineInv ==
    ASSUME Inv, NewLine, wch' \in Decoded
    PROVE  Inv'
<1> USE InvFacts
<1> DEFINE n == nbrEnteredCharacters
           ended == [WLine EXCEPT ![n] = Wide(Newline), ![n + 1] = Wide(Zero)]
           s == Compress(Union(ended), n + 2)
<1>1. /\ inputLine' = s.bytes
      /\ nbrEnteredCharacters' = 0
      /\ cursorPosition' = 0
      /\ terminal' = EmptyTerminal
      /\ insertMode' = insertMode /\ crashed' = crashed
  BY DEF NewLine
<1>2. ended \in Line
  BY CharsAreWide DEF Line
<1>3. n + 2 \in 0 .. Size + 2
  OBVIOUS
<1> HIDE DEF ended, n
<1>4. Union(ended) \in Memory
  BY <1>2, UnionProperties
<1>5. s \in Compressed
  <2> DEFINE k == n + 2
             m == Union(ended)
  <2>1. k \in 0 .. Size + 2 /\ m \in Memory
    BY <1>3, <1>4
  <2> HIDE DEF k, m
  <2>2. PICK upTo \in [0 .. k -> Compressed] : Compress(m, k) = upTo[k]
    BY <2>1, CompressLoop
  <2>3. k \in 0 .. k
    BY <2>1
  <2> QED
    BY <2>2, <2>3 DEF k, m
<1> HIDE DEF s
<1>6. inputLine' \in Memory
  BY <1>1, <1>5 DEF Compressed
<1>7. terminal' \in Terminal /\ terminal'.column = 0 /\ \A c \in Columns : terminal'.cells[c] = Blank
  BY <1>1 DEF EmptyTerminal, Terminal, Cell
<1>8. Shows(terminal', WLine', 0)
  BY <1>7 DEF Shows, Columns
<1>9. insertMode' \in BOOLEAN /\ crashed' \in BOOLEAN
  BY <1>1 DEF Inv, TypeOK
<1> QED
  BY <1>1, <1>6, <1>7, <1>8, <1>9, InvFromParts

\* The process is ended in the middle of the shift; the line is as it was.
LEMMA InsertWrapsInv ==
    ASSUME Inv, InsertWraps, wch' \in Decoded
    PROVE  Inv'
<1>1. /\ crashed' = TRUE
      /\ inputLine' = inputLine /\ nbrEnteredCharacters' = nbrEnteredCharacters
      /\ cursorPosition' = cursorPosition /\ insertMode' = insertMode /\ terminal' = terminal
  BY DEF InsertWraps
<1>2. WLine' = WLine
  BY <1>1 DEF WLine, wLine
<1>3. insertMode' \in BOOLEAN /\ crashed' \in BOOLEAN
  BY <1>1, Zenon DEF Inv, TypeOK
<1> QED
  BY <1>1, <1>2, <1>3, InvFacts, InvFromParts

LEMMA NormalInputInv ==
    ASSUME Inv, NEW char \in Decoded, NormalInput(char)
    PROVE  Inv'
<1>1. CASE NewLine /\ wch' \in Decoded
  BY <1>1, NewLineInv
<1>2. CASE BackSpace /\ wch' = char
  BY <1>2, BackSpaceInv
<1>3. CASE char \in Chars /\ Overwrite(char) /\ wch' = char
  BY <1>3, OverwriteInv
<1>4. CASE char \in Chars /\ Insert(char) /\ wch' = char
  BY <1>4, InsertInv
<1>5. CASE InsertWraps /\ wch' = char
  BY <1>5, InsertWrapsInv
<1> QED
  BY <1>1, <1>2, <1>3, <1>4, <1>5 DEF NormalInput

LEMMA InvNext == Inv /\ [Next]_vars => Inv'
<1> SUFFICES ASSUME Inv, [Next]_vars PROVE Inv'
  OBVIOUS
<1>1. ASSUME NEW char \in Decoded, Key(char) PROVE Inv'
  BY <1>1, NormalInputInv DEF Key
<1>2. CASE EscapeOther
  <2>1. wch \in Decoded
    BY DEF Inv, TypeOK
  <2> QED
    BY <1>2, <2>1, NormalInputInv DEF EscapeOther
<1>3. CASE ToggleInsert
  <2>1. /\ insertMode' = ~insertMode
        /\ UNCHANGED <<inputLine, nbrEnteredCharacters, cursorPosition, wch, terminal, crashed>>
    BY <1>3 DEF ToggleInsert
  <2>2. WLine' = WLine
    BY <2>1 DEF WLine, wLine
  <2>3. insertMode' \in BOOLEAN /\ crashed' \in BOOLEAN /\ wch' \in Decoded
    BY <2>1, Zenon DEF Inv, TypeOK
  <2> QED
    BY <2>1, <2>2, <2>3, InvFacts, InvFromParts
<1>4. CASE Delete
  BY <1>4, DeleteInv
<1>5. ASSUME NEW cursor \in 0 .. nbrEnteredCharacters, MoveTo(cursor) PROVE Inv'
  BY <1>5, MoveToInv
<1>6. CASE Left \/ Right \/ Home \/ End
  <2>1. CASE Left
    <3>1. cursorPosition - 1 \in 0 .. nbrEnteredCharacters
      BY <2>1, InvFacts DEF Left
    <3> QED
      BY <2>1, <3>1, <1>5 DEF Left
  <2>2. CASE Right
    <3>1. cursorPosition + 1 \in 0 .. nbrEnteredCharacters
      BY <2>2, InvFacts DEF Right
    <3> QED
      BY <2>2, <3>1, <1>5 DEF Right
  <2>3. CASE Home
    <3>1. 0 \in 0 .. nbrEnteredCharacters
      BY InvFacts
    <3> QED
      BY <2>3, <3>1, <1>5 DEF Home
  <2>4. CASE End
    <3>1. nbrEnteredCharacters \in 0 .. nbrEnteredCharacters
      BY InvFacts
    <3> QED
      BY <2>4, <3>1, <1>5 DEF End
  <2> QED
    BY <1>6, <2>1, <2>2, <2>3, <2>4
<1>7. CASE UNCHANGED vars
  BY <1>7 DEF vars, Inv, TypeOK, ScreenMatches, wLine
<1> QED
  BY <1>1, <1>2, <1>3, <1>4, <1>6, <1>7 DEF Next

\* Whatever keys are typed, and however long the line may be, the cursor is in the text, NL
\* and the null fit behind it, and the terminal shows the text with its cursor where the
\* next character goes: the echo of treatLine(), made of characters and backspaces, never
\* loses the line it is about.
THEOREM ConsoleLineInvariant == Spec => [](TypeOK /\ ScreenMatches)
<1>1. Inv => TypeOK /\ ScreenMatches
  BY DEF Inv
<1> QED
  BY InvInit, InvNext, <1>1, PTL DEF Spec

\* No key moves the cursor out of the text or the terminal's cursor off the line, and none
\* lets the text grow over its limit, in whatever order keys and lines come.
THEOREM ConsoleLineTypes == Spec => []TypeOK
BY ConsoleLineInvariant, PTL

----------------------------------------------------------------------------
(* The text before and behind the cursor, as the strings of LineEditor.    *)

LEMMA CellsEmpty ==
    ASSUME NEW w \in Line, NEW f \in Nat, NEW l \in Nat, f <= l, l <= Size + 2
    PROVE  Cells(w, f, l) = <<>> <=> f = l
<1> DEFINE c == Cells(w, f, l)
<1>1. c \in Seq(WideChar) /\ Len(c) = l - f
  BY CellsProperties
<1> HIDE DEF c
<1>2. c # <<>> => Len(c) \in Nat \ {0}
  BY <1>1, EmptySeq
<1>3. c = <<>> => Len(c) = 0
  BY EmptySeq
<1> QED
  BY <1>1, <1>2, <1>3 DEF c

LEMMA CellsPrefix ==
    ASSUME NEW w \in Line, NEW n \in Nat, n <= Size + 2
    PROVE  /\ Cells(w, 0, n) \in Seq(WideChar)
           /\ Len(Cells(w, 0, n)) = n
           /\ \A k \in 1 .. n : Cells(w, 0, n)[k] = w[k - 1]
<1> DEFINE first == 0
<1>1. first \in Nat /\ first <= n /\ n - first = n
  OBVIOUS
<1> HIDE DEF first
<1>2. /\ Cells(w, first, n) \in Seq(WideChar)
      /\ Len(Cells(w, first, n)) = n - first
      /\ \A k \in 1 .. n - first : Cells(w, first, n)[k] = w[first + k - 1]
  BY <1>1, CellsProperties
<1>3. \A k \in 1 .. n : first + k - 1 = k - 1
  BY DEF first
<1>4. \A k \in 1 .. n : Cells(w, first, n)[k] = w[k - 1]
  BY <1>1, <1>2, <1>3
<1> QED
  BY <1>1, <1>2, <1>4 DEF first

LEMMA CellsAppend ==
    ASSUME NEW v \in Line, NEW w \in Line, NEW c \in Nat, c < Size, NEW char \in WideChar,
           \A i \in 0 .. c - 1 : v[i] = w[i], v[c] = char
    PROVE  Cells(v, 0, c + 1) = Append(Cells(w, 0, c), char)
<1> DEFINE a == Cells(v, 0, c + 1)
           s == Cells(w, 0, c)
<1>1. Size \in Nat
  BY ConsoleLineAssumption
<1>2. a \in Seq(WideChar) /\ Len(a) = c + 1 /\ \A k \in 1 .. c + 1 : a[k] = v[k - 1]
  <2> DEFINE n == c + 1
  <2>1. n \in Nat /\ n <= Size + 2
    BY <1>1
  <2> HIDE DEF n
  <2>2. /\ Cells(v, 0, n) \in Seq(WideChar)
        /\ Len(Cells(v, 0, n)) = n
        /\ \A k \in 1 .. n : Cells(v, 0, n)[k] = v[k - 1]
    BY <2>1, CellsPrefix
  <2> QED
    BY <2>2 DEF n
<1>3. s \in Seq(WideChar) /\ Len(s) = c /\ \A k \in 1 .. c : s[k] = w[k - 1]
  BY <1>1, CellsPrefix
<1> HIDE DEF a, s
<1> DEFINE t == Append(s, char)
<1>4. /\ t \in Seq(WideChar)
      /\ Len(t) = c + 1
      /\ \A k \in 1 .. c : t[k] = s[k]
      /\ t[c + 1] = char
  BY <1>3, AppendProperties
<1> HIDE DEF t
<1>5. ASSUME NEW k \in 1 .. Len(a) PROVE a[k] = t[k]
  <2>1. CASE k = c + 1
    BY <1>2, <1>4, <2>1
  <2>2. CASE k \in 1 .. c
    <3>1. k - 1 \in 0 .. c - 1
      BY <2>2
    <3> QED
      BY <1>2, <1>3, <1>4, <2>2, <3>1
  <2> QED
    BY <1>2, <2>1, <2>2
<1>6. a = t
  BY <1>2, <1>4, <1>5, SeqEqual
<1> QED
  BY <1>6 DEF a, s, t

LEMMA CellsTail ==
    ASSUME NEW w \in Line, NEW c \in Nat, NEW n \in Nat, c < n, n <= Size
    PROVE  Cells(w, c + 1, n) = Tail(Cells(w, c, n))
<1> DEFINE d == c + 1
           a == Cells(w, d, n)
           s == Cells(w, c, n)
           t == Tail(s)
<1>1. Size \in Nat /\ d \in Nat /\ d <= n /\ n <= Size + 2
  BY ConsoleLineAssumption
<1>2. s \in Seq(WideChar) /\ Len(s) = n - c /\ \A k \in 1 .. n - c : s[k] = w[c + k - 1]
  BY <1>1, CellsProperties
<1>3. s # <<>>
  BY <1>1, CellsEmpty
<1> HIDE DEF d
<1>4. a \in Seq(WideChar) /\ Len(a) = n - d /\ \A k \in 1 .. n - d : a[k] = w[d + k - 1]
  BY <1>1, CellsProperties
<1> HIDE DEF a, s
<1>5. /\ t \in Seq(WideChar)
      /\ Len(t) = Len(s) - 1
      /\ \A i \in 1 .. Len(t) : t[i] = s[i + 1]
  BY <1>2, <1>3, HeadTailProperties
<1> HIDE DEF t
<1>6. Len(a) = Len(t)
  BY <1>2, <1>4, <1>5 DEF d
<1>7. ASSUME NEW k \in 1 .. Len(a) PROVE a[k] = t[k]
  <2>1. k \in 1 .. n - d /\ k + 1 \in 1 .. n - c /\ d + k - 1 = c + (k + 1) - 1
    BY <1>1, <1>4 DEF d
  <2>2. a[k] = w[c + (k + 1) - 1]
    BY <1>4, <2>1
  <2>3. t[k] = s[k + 1]
    BY <1>5, <1>6
  <2> QED
    BY <1>2, <2>1, <2>2, <2>3
<1>8. a = t
  BY <1>4, <1>5, <1>6, <1>7, SeqEqual
<1> QED
  BY <1>8 DEF a, t, s, d

\* BackSpace: the text before the cursor without its last character.
LEMMA CellsFront ==
    ASSUME NEW w \in Line, NEW c \in Nat, 0 < c, c <= Size
    PROVE  Cells(w, 0, c - 1) = SubSeq(Cells(w, 0, c), 1, c - 1)
<1> DEFINE n == c - 1
           a == Cells(w, 0, n)
           s == Cells(w, 0, c)
           t == SubSeq(s, 1, n)
<1>1. Size \in Nat /\ n \in Nat /\ n <= Size + 2 /\ c <= Size + 2
  BY ConsoleLineAssumption
<1>2. s \in Seq(WideChar) /\ Len(s) = c /\ \A k \in 1 .. c : s[k] = w[k - 1]
  BY <1>1, CellsPrefix
<1> HIDE DEF n
<1>3. a \in Seq(WideChar) /\ Len(a) = n /\ \A k \in 1 .. n : a[k] = w[k - 1]
  BY <1>1, CellsPrefix
<1> HIDE DEF a, s
<1>4. \A i \in 1 .. n : s[i] \in WideChar
  BY <1>1, <1>2, ElementOfSeq DEF n
<1>5. /\ t \in Seq(WideChar)
      /\ Len(t) = n
      /\ \A i \in 1 .. n : t[i] = s[i]
  BY <1>1, <1>4
<1> HIDE DEF t
<1>6. ASSUME NEW k \in 1 .. Len(a) PROVE a[k] = t[k]
  <2>1. k \in 1 .. n /\ k \in 1 .. c
    BY <1>1, <1>3 DEF n
  <2> QED
    BY <1>2, <1>3, <1>5, <2>1
<1>7. a = t
  BY <1>3, <1>5, <1>6, SeqEqual
<1> QED
  BY <1>7 DEF a, t, s, n

\* The text is what is before the cursor and what is behind it, wherever the cursor is.
LEMMA CellsConcat ==
    ASSUME NEW w \in Line, NEW c \in Nat, NEW n \in Nat, c <= n, n <= Size
    PROVE  Cells(w, 0, c) \o Cells(w, c, n) = Cells(w, 0, n)
<1> DEFINE a == Cells(w, 0, c)
           s == Cells(w, c, n)
           t == Cells(w, 0, n)
<1>1. Size \in Nat /\ n <= Size + 2 /\ c <= Size + 2
  BY ConsoleLineAssumption
<1>2. a \in Seq(WideChar) /\ Len(a) = c /\ \A k \in 1 .. c : a[k] = w[k - 1]
  BY <1>1, CellsPrefix
<1>3. t \in Seq(WideChar) /\ Len(t) = n /\ \A k \in 1 .. n : t[k] = w[k - 1]
  BY <1>1, CellsPrefix
<1>4. s \in Seq(WideChar) /\ Len(s) = n - c /\ \A k \in 1 .. n - c : s[k] = w[c + k - 1]
  BY <1>1, CellsProperties
<1> HIDE DEF a, s, t
<1> DEFINE u == a \o s
<1>5. /\ u \in Seq(WideChar)
      /\ Len(u) = Len(a) + Len(s)
      /\ \A k \in 1 .. Len(a) + Len(s) : u[k] = IF k <= Len(a) THEN a[k] ELSE s[k - Len(a)]
  BY <1>2, <1>4, ConcatProperties
<1> HIDE DEF u
<1>6. Len(u) = n
  BY <1>2, <1>4, <1>5
<1>7. ASSUME NEW k \in 1 .. Len(u) PROVE u[k] = t[k]
  <2>1. CASE k <= c
    <3>1. k \in 1 .. c /\ k \in 1 .. n /\ k \in 1 .. Len(a) + Len(s)
      BY <1>5, <1>6, <2>1
    <3>2. u[k] = a[k]
      BY <1>2, <1>5, <2>1, <3>1
    <3> QED
      BY <1>2, <1>3, <3>1, <3>2
  <2>2. CASE k > c
    <3>1. k - c \in 1 .. n - c /\ c + (k - c) - 1 = k - 1
      BY <1>6, <2>2
    <3>2. s[k - c] = w[k - 1]
      BY <1>4, <3>1
    <3> QED
      BY <1>2, <1>3, <1>4, <1>5, <1>6, <2>2, <3>2
  <2> QED
    BY <1>6, <2>1, <2>2
<1>8. u = t
  BY <1>3, <1>5, <1>6, <1>7, SeqEqual
<1> QED
  BY <1>8 DEF u, a, s, t

----------------------------------------------------------------------------
(* The bytes that compress() writes over the text.                         *)

LEMMA BytesOfProperties ==
    ASSUME NEW char \in WideChar
    PROVE  /\ Editor!BytesOf(char) \in Seq(Byte)
           /\ char.page = Zero => /\ Len(Editor!BytesOf(char)) = 1
                                  /\ Editor!BytesOf(char)[1] = char.ch
           /\ char.page # Zero => /\ Len(Editor!BytesOf(char)) = 2
                                  /\ Editor!BytesOf(char)[1] = char.page
                                  /\ Editor!BytesOf(char)[2] = char.ch
<1>1. char.page \in Byte /\ char.ch \in Byte
  BY DEF WideChar
<1> QED
  BY <1>1 DEF Editor!BytesOf

\* The recursive function of LineEditor's Bytes.
LEMMA BytesLoop ==
    ASSUME NEW text \in Seq(WideChar)
    PROVE  \E upTo \in [0 .. Len(text) -> Seq(Byte)] :
               /\ upTo[0] = <<>>
               /\ \A i \in 1 .. Len(text) :
                      upTo[i] = upTo[i - 1] \o Editor!BytesOf(text[i])
               /\ Editor!Bytes(text) = upTo[Len(text)] \o <<Newline, Zero>>
<1> DEFINE n == Len(text)
           V == Seq(Byte)
           base == <<>>
           F == [p \in V \X (1 .. n) |-> p[1] \o Editor!BytesOf(text[p[2]])]
           Solves(f) == f = [i \in 0 .. n |-> IF i = 0 THEN base
                                              ELSE f[i - 1] \o Editor!BytesOf(text[i])]
           upTo == CHOOSE f : Solves(f)
<1>1. n \in Nat /\ base \in V /\ \A i \in 1 .. n : text[i] \in WideChar
  BY LenProperties, ElementOfSeq
<1>2. \A i \in 1 .. n : Editor!BytesOf(text[i]) \in V
  BY <1>1, BytesOfProperties
<1>3. Editor!Bytes(text) = upTo[n] \o <<Newline, Zero>>
  BY DEF Editor!Bytes
<1> HIDE DEF n, V, base
<1>4. \A q \in V, i \in 1 .. n : q \o Editor!BytesOf(text[i]) \in V
  BY <1>2, ConcatProperties DEF V
<1>5. F \in [V \X (1 .. n) -> V]
  BY <1>4
<1>6. \A q \in V, i \in 1 .. n : F[<<q, i>>] = q \o Editor!BytesOf(text[i])
  OBVIOUS
<1> HIDE DEF F
<1>7. PICK f \in [0 .. n -> V] : Iterates(f, n, base, F)
  BY <1>1, <1>5, Recursion
<1>8. ASSUME NEW i \in 1 .. n PROVE f[i] = f[i - 1] \o Editor!BytesOf(text[i])
  <2>1. i - 1 \in 0 .. n
    BY <1>1
  <2>2. f[i - 1] \in V
    BY <2>1
  <2> QED
    BY <1>6, <1>7, <2>2, Zenon DEF Iterates
<1>9. Solves(f)
  BY <1>1, <1>7, <1>8 DEF Iterates
<1> HIDE DEF Solves
<1>10. Solves(upTo)
  BY <1>9
<1> HIDE DEF upTo
<1>11. upTo[0] = base /\ \A i \in 1 .. n : upTo[i] = upTo[i - 1] \o Editor!BytesOf(text[i])
  BY <1>1, <1>10 DEF Solves
<1>12. upTo \in [0 .. n -> V]
  <2> DEFINE S == {i \in 0 .. n : upTo[i] \in V}
  <2>1. 0 \in S
    BY <1>1, <1>11
  <2>2. ASSUME NEW i \in 0 .. n, i # n, i \in S
        PROVE  i + 1 \in S
    <3>1. i + 1 \in 1 .. n /\ (i + 1) - 1 = i
      BY <1>1, <2>2
    <3>2. upTo[i + 1] = upTo[i] \o Editor!BytesOf(text[i + 1])
      BY <1>11, <3>1
    <3>3. upTo[i] \in V
      BY <2>2
    <3>4. upTo[i] \o Editor!BytesOf(text[i + 1]) \in V
      BY <1>4, <3>1, <3>3
    <3>5. i + 1 \in 0 .. n
      BY <1>1, <3>1
    <3> QED
      BY <3>2, <3>4, <3>5
  <2> HIDE DEF S
  <2>3. \A i \in 0 .. n : i \in S
    BY <1>1, <2>1, <2>2, UpTo
  <2>4. \A i \in 0 .. n : upTo[i] \in V
    BY <2>3 DEF S
  <2> QED
    BY <1>10, <2>4 DEF Solves
<1> QED
  BY <1>3, <1>11, <1>12 DEF n, V, base

\* After i characters of the memory m: the bytes q have been written, and what is still to
\* be read is as it was, because writing is never ahead of reading.
Progress(s, q, m, i) ==
    /\ s.writePointer = Len(q)
    /\ s.writePointer <= 2 * i
    /\ \A k \in 1 .. Len(q) : s.bytes[k - 1] = q[k]
    /\ \A k \in 0 .. 2 * Size + 3 : k >= 2 * i => s.bytes[k] = m[k]

\* The loop of compress() writes the bytes of the next character behind q.
LEMMA CompressStep ==
    ASSUME NEW m \in Memory, NEW s \in Compressed, NEW q \in Seq(Byte),
           NEW i \in 1 .. Size + 2, Progress(s, q, m, i - 1),
           NEW char \in WideChar, char.page = m[2 * i - 2], char.ch = m[2 * i - 1]
    PROVE  /\ q \o Editor!BytesOf(char) \in Seq(Byte)
           /\ Progress(CompressOne(s, i), q \o Editor!BytesOf(char), m, i)
<1> DEFINE b == Editor!BytesOf(char)
           r == CompressOne(s, i)
           wp == s.writePointer
<1>1. Size \in Nat /\ i \in Nat /\ wp \in Nat /\ Len(q) \in Nat
  BY ConsoleLineAssumption DEF Compressed
<1>2. /\ 2 * i - 2 \in 0 .. 2 * Size + 3 /\ 2 * i - 1 \in 0 .. 2 * Size + 3
      /\ 2 * i - 2 >= 2 * (i - 1) /\ 2 * i - 1 >= 2 * (i - 1)
  BY <1>1
<1>3. /\ wp = Len(q) /\ wp <= 2 * i - 2
      /\ \A k \in 1 .. Len(q) : s.bytes[k - 1] = q[k]
      /\ \A k \in 0 .. 2 * Size + 3 : k >= 2 * i - 2 => s.bytes[k] = m[k]
  BY <1>1 DEF Progress
<1>4. s.bytes[2 * i - 2] = char.page /\ s.bytes[2 * i - 1] = char.ch
  BY <1>2, <1>3
<1>5. char.page \in Byte /\ char.ch \in Byte
  BY DEF WideChar
<1>6. b \in Seq(Byte) /\ Len(b) \in Nat /\ 1 <= Len(b) /\ Len(b) <= 2
  <2>1. b \in Seq(Byte) /\ (Len(b) = 1 \/ Len(b) = 2)
    BY BytesOfProperties
  <2> DEFINE l == Len(b)
  <2>2. l = 1 \/ l = 2
    BY <2>1
  <2> HIDE DEF l
  <2>3. l \in Nat /\ 1 <= l /\ l <= 2
    BY <2>2
  <2> QED
    BY <2>1, <2>3 DEF l
<1>7. /\ r.writePointer = wp + Len(b)
      /\ \A j \in 1 .. Len(b) : r.bytes[wp + j - 1] = b[j]
      /\ \A k \in 0 .. 2 * Size + 3 : k < wp \/ k >= wp + Len(b) => r.bytes[k] = s.bytes[k]
  <2>1. CASE char.page = Zero
    <3>1. r = Put(s, char.ch)
      BY <1>4, <2>1 DEF CompressOne
    <3>2. Len(b) = 1 /\ b[1] = char.ch
      BY <2>1, BytesOfProperties
    <3>3. /\ r.writePointer = wp + 1
          /\ \A k \in 0 .. 2 * Size + 3 : r.bytes[k] = IF k = wp THEN char.ch ELSE s.bytes[k]
      BY <1>5, <3>1, PutProperties
    <3> HIDE DEF b, r, wp
    <3>4. ASSUME NEW j \in 1 .. Len(b) PROVE r.bytes[wp + j - 1] = b[j]
      <4>1. j = 1 /\ wp + 1 - 1 = wp /\ wp \in 0 .. 2 * Size + 3
        BY <1>1, <1>2, <1>3, <3>2
      <4> QED
        BY <3>2, <3>3, <4>1
    <3>5. ASSUME NEW k \in 0 .. 2 * Size + 3, k < wp \/ k >= wp + Len(b)
          PROVE  r.bytes[k] = s.bytes[k]
      BY <1>1, <3>2, <3>3, <3>5
    <3> QED
      BY <3>2, <3>3, <3>4, <3>5
  <2>2. CASE char.page # Zero
    <3> DEFINE p == Put(s, char.page)
    <3>1. Len(b) = 2 /\ b[1] = char.page /\ b[2] = char.ch
      BY <2>2, BytesOfProperties
    <3>2. /\ p \in Compressed
          /\ p.writePointer = wp + 1
          /\ \A k \in 0 .. 2 * Size + 3 : p.bytes[k] = IF k = wp THEN char.page ELSE s.bytes[k]
      BY <1>5, PutProperties
    <3>3. p.bytes[2 * i - 1] = char.ch
      BY <1>1, <1>2, <1>3, <1>4, <3>2
    <3>4. r = Put(p, char.ch)
      BY <1>4, <2>2, <3>3 DEF CompressOne
    <3> HIDE DEF p
    <3>5. /\ r.writePointer = p.writePointer + 1
          /\ \A k \in 0 .. 2 * Size + 3 :
                 r.bytes[k] = IF k = p.writePointer THEN char.ch ELSE p.bytes[k]
      BY <1>5, <3>2, <3>4, PutProperties
    <3> HIDE DEF b, r, wp
    <3>6. r.bytes[wp] = char.page /\ r.bytes[wp + 1] = char.ch
      <4>1. wp \in 0 .. 2 * Size + 3 /\ wp + 1 \in 0 .. 2 * Size + 3 /\ wp # wp + 1
        BY <1>1, <1>2, <1>3
      <4> QED
        BY <3>2, <3>5, <4>1
    <3>7. r.writePointer = wp + 2
      BY <1>1, <3>2, <3>5
    <3>8. ASSUME NEW j \in 1 .. Len(b) PROVE r.bytes[wp + j - 1] = b[j]
      <4>1. j = 1 \/ j = 2
        BY <3>1
      <4>2. wp + 1 - 1 = wp /\ wp + 2 - 1 = wp + 1
        BY <1>1
      <4> QED
        BY <3>1, <3>6, <4>1, <4>2
    <3>9. ASSUME NEW k \in 0 .. 2 * Size + 3, k < wp \/ k >= wp + Len(b)
          PROVE  r.bytes[k] = s.bytes[k]
      BY <1>1, <3>1, <3>2, <3>5, <3>9
    <3> QED
      BY <3>1, <3>7, <3>8, <3>9
  <2> QED
    BY <2>1, <2>2
<1> HIDE DEF b, r, wp
<1> DEFINE u == q \o b
<1>8. /\ u \in Seq(Byte)
      /\ Len(u) = Len(q) + Len(b)
      /\ \A k \in 1 .. Len(q) + Len(b) : u[k] = IF k <= Len(q) THEN q[k] ELSE b[k - Len(q)]
  BY <1>6, ConcatProperties
<1> HIDE DEF u
<1>9. r.writePointer = Len(u) /\ r.writePointer <= 2 * i
  BY <1>1, <1>3, <1>6, <1>7, <1>8
<1>10. ASSUME NEW k \in 1 .. Len(u) PROVE r.bytes[k - 1] = u[k]
  <2>1. k \in 1 .. Len(q) + Len(b)
    BY <1>8
  <2>2. k - 1 \in 0 .. 2 * Size + 3
    BY <1>1, <1>3, <1>6, <2>1
  <2>3. CASE k <= Len(q)
    <3>1. k - 1 < wp /\ u[k] = q[k] /\ s.bytes[k - 1] = q[k]
      BY <1>1, <1>3, <1>8, <2>1, <2>3
    <3> QED
      BY <1>7, <2>2, <3>1
  <2>4. CASE k > Len(q)
    <3>1. k - Len(q) \in 1 .. Len(b) /\ wp + (k - Len(q)) - 1 = k - 1
      BY <1>1, <1>3, <1>6, <2>1, <2>4
    <3>2. u[k] = b[k - Len(q)]
      BY <1>1, <1>8, <2>1, <2>4
    <3>3. r.bytes[wp + (k - Len(q)) - 1] = b[k - Len(q)]
      BY <1>7, <3>1
    <3> QED
      BY <3>1, <3>2, <3>3
  <2> QED
    BY <1>1, <2>1, <2>3, <2>4
<1>11. ASSUME NEW k \in 0 .. 2 * Size + 3, k >= 2 * i PROVE r.bytes[k] = m[k]
  <2>1. k >= wp + Len(b) /\ k >= 2 * i - 2
    BY <1>1, <1>3, <1>6, <1>11
  <2> QED
    BY <1>3, <1>7, <2>1
<1>12. Progress(r, u, m, i)
  BY <1>9, <1>10, <1>11 DEF Progress
<1> QED
  BY <1>8, <1>12 DEF r, u, b

\* compress() delivers the bytes of the text, NL and the null, although it overwrites the
\* text while it reads it.
LEMMA CompressDelivers ==
    ASSUME NEW w \in Line, NEW ended \in Line, NEW n \in Nat, n <= Size,
           \A i \in 0 .. n - 1 : ended[i] = w[i],
           ended[n] = Wide(Newline), ended[n + 1] = Wide(Zero)
    PROVE  LET s == Compress(Union(ended), n + 2) IN
           [k \in 1 .. s.writePointer |-> s.bytes[k - 1]] = Editor!Bytes(Cells(w, 0, n))
<1> DEFINE m == Union(ended)
           text == Cells(w, 0, n)
           s == Compress(m, n + 2)
           bytes == Editor!Bytes(text)
<1>1. Size \in Nat /\ n + 2 \in 0 .. Size + 2 /\ n <= Size + 2
  BY ConsoleLineAssumption
<1>2. text \in Seq(WideChar) /\ Len(text) = n /\ \A k \in 1 .. n : text[k] = w[k - 1]
  BY <1>1, CellsPrefix
<1>3. /\ m \in Memory
      /\ \A i \in Columns : m[2 * i] = ended[i].page /\ m[2 * i + 1] = ended[i].ch
  BY UnionProperties
<1> HIDE DEF m, text
<1>4. PICK q \in [0 .. n -> Seq(Byte)] :
          /\ q[0] = <<>>
          /\ \A i \in 1 .. n : q[i] = q[i - 1] \o Editor!BytesOf(text[i])
          /\ bytes = q[n] \o <<Newline, Zero>>
  BY <1>2, BytesLoop
<1>5. PICK upTo \in [0 .. n + 2 -> Compressed] :
          /\ upTo[0] = [bytes |-> m, writePointer |-> 0]
          /\ \A i \in 1 .. n + 2 : upTo[i] = CompressOne(upTo[i - 1], i)
          /\ s = upTo[n + 2]
  <2> DEFINE j == n + 2
  <2>1. j \in 0 .. Size + 2
    BY <1>1
  <2> HIDE DEF j
  <2>2. \E f \in [0 .. j -> Compressed] :
            /\ f[0] = [bytes |-> m, writePointer |-> 0]
            /\ \A i \in 1 .. j : f[i] = CompressOne(f[i - 1], i)
            /\ Compress(m, j) = f[j]
    BY <1>3, <2>1, CompressLoop
  <2> QED
    BY <2>2 DEF j
<1> HIDE DEF s, bytes
<1>6. ASSUME NEW i \in 0 .. n + 1, NEW p \in Seq(Byte), Progress(upTo[i], p, m, i)
      PROVE  /\ p \o Editor!BytesOf(ended[i]) \in Seq(Byte)
             /\ Progress(upTo[i + 1], p \o Editor!BytesOf(ended[i]), m, i + 1)
  <2> DEFINE j == i + 1
             c == upTo[i]
             char == ended[i]
  <2>1. /\ j \in 1 .. Size + 2 /\ j \in 1 .. n + 2 /\ j - 1 = i
        /\ 2 * j - 2 = 2 * i /\ 2 * j - 1 = 2 * i + 1
        /\ i \in Columns /\ i \in 0 .. n + 2
    BY <1>1 DEF Columns
  <2>2. char \in WideChar
    BY <2>1 DEF Line
  <2>3. char.page = m[2 * j - 2] /\ char.ch = m[2 * j - 1]
    BY <1>3, <2>1
  <2>4. c \in Compressed /\ upTo[j] = CompressOne(c, j)
    BY <1>5, <2>1
  <2>5. Progress(c, p, m, j - 1)
    BY <1>6, <2>1
  <2> HIDE DEF j, c, char
  <2>6. /\ p \o Editor!BytesOf(char) \in Seq(Byte)
        /\ Progress(CompressOne(c, j), p \o Editor!BytesOf(char), m, j)
    BY <1>3, <2>1, <2>2, <2>3, <2>4, <2>5, CompressStep
  <2> QED
    BY <2>4, <2>6 DEF j, char
<1>7. Progress(upTo[n], q[n], m, n)
  <2> DEFINE S == {i \in 0 .. n : Progress(upTo[i], q[i], m, i)}
  <2>1. 0 \in S
    <3>1. upTo[0].bytes = m /\ upTo[0].writePointer = 0
      BY <1>5
    <3>2. Len(q[0]) = 0
      BY <1>4, EmptySeq
    <3> QED
      BY <3>1, <3>2 DEF Progress
  <2>2. ASSUME NEW i \in 0 .. n, i # n, i \in S
        PROVE  i + 1 \in S
    <3>1. i \in 0 .. n + 1 /\ i \in 0 .. n - 1 /\ i + 1 \in 1 .. n /\ i + 1 \in 0 .. n
          /\ (i + 1) - 1 = i
      BY <2>2
    <3>2. text[i + 1] = ended[i]
      BY <1>2, <3>1
    <3>3. q[i + 1] = q[i] \o Editor!BytesOf(ended[i])
      BY <1>4, <3>1, <3>2
    <3>4. q[i] \in Seq(Byte) /\ Progress(upTo[i], q[i], m, i)
      BY <2>2
    <3>5. Progress(upTo[i + 1], q[i] \o Editor!BytesOf(ended[i]), m, i + 1)
      BY <1>6, <3>1, <3>4
    <3> QED
      BY <3>1, <3>3, <3>5
  <2> HIDE DEF S
  <2>3. \A i \in 0 .. n : i \in S
    BY <2>1, <2>2, UpTo
  <2>4. n \in S
    BY <2>3
  <2> QED
    BY <2>4 DEF S
<1> DEFINE first == q[n]
           second == first \o <<Newline>>
           third == second \o <<Zero>>
<1>8. /\ Editor!BytesOf(ended[n]) = <<Newline>>
      /\ Editor!BytesOf(ended[n + 1]) = <<Zero>>
  BY DEF Wide, Editor!BytesOf
<1>9. first \in Seq(Byte) /\ n \in 0 .. n + 1 /\ n + 1 \in 0 .. n + 1 /\ (n + 1) + 1 = n + 2
  OBVIOUS
<1> HIDE DEF first
<1>10. second \in Seq(Byte) /\ Progress(upTo[n + 1], second, m, n + 1)
  BY <1>6, <1>7, <1>8, <1>9 DEF first
<1> HIDE DEF second
<1>11. third \in Seq(Byte) /\ Progress(upTo[n + 2], third, m, n + 2)
  <2> DEFINE j == n + 1
  <2>1. j \in 0 .. n + 1 /\ Progress(upTo[j], second, m, j)
    BY <1>9, <1>10
  <2> HIDE DEF j
  <2>2. /\ second \o Editor!BytesOf(ended[j]) \in Seq(Byte)
        /\ Progress(upTo[j + 1], second \o Editor!BytesOf(ended[j]), m, j + 1)
    BY <1>6, <1>10, <2>1
  <2> QED
    BY <1>8, <1>9, <2>2 DEF j
<1>12. third = bytes
  <2>1. Newline \in Byte /\ Zero \in Byte
    BY DEF Byte
  <2>2. third = first \o (<<Newline>> \o <<Zero>>)
    <3>1. <<Newline>> \in Seq(Byte) /\ <<Zero>> \in Seq(Byte)
      BY <2>1
    <3> QED
      BY <1>9, <3>1, ConcatAssociative DEF second
  <2>3. <<Newline>> \o <<Zero>> = <<Newline, Zero>>
    <3> DEFINE a == <<Newline>>
               b == <<Zero>>
               d == <<Newline, Zero>>
               e == a \o b
    <3>1. /\ a \in Seq(Byte) /\ Len(a) = 1 /\ a[1] = Newline
          /\ b \in Seq(Byte) /\ Len(b) = 1 /\ b[1] = Zero
          /\ d \in Seq(Byte) /\ Len(d) = 2 /\ d[1] = Newline /\ d[2] = Zero
      BY <2>1
    <3> HIDE DEF a, b, d
    <3>2. e \in Seq(Byte) /\ Len(e) = 2 /\ e[1] = Newline /\ e[2] = Zero
      <4>1. /\ e \in Seq(Byte)
            /\ Len(e) = Len(a) + Len(b)
            /\ \A i \in 1 .. Len(a) + Len(b) : e[i] = IF i <= Len(a) THEN a[i] ELSE b[i - Len(a)]
        BY <3>1, ConcatProperties
      <4> HIDE DEF e
      <4>2. 1 \in 1 .. 1 + 1 /\ 2 \in 1 .. 1 + 1 /\ 1 <= 1 /\ ~ (2 <= 1) /\ 2 - 1 = 1
        OBVIOUS
      <4> QED
        BY <3>1, <4>1, <4>2
    <3> HIDE DEF e
    <3>3. \A i \in 1 .. Len(e) : e[i] = d[i]
      BY <3>1, <3>2
    <3>4. e = d
      BY <3>1, <3>2, <3>3, SeqEqual
    <3> QED
      BY <3>4 DEF a, b, d, e
  <2> QED
    BY <1>4, <2>2, <2>3 DEF first
<1> HIDE DEF third
<1>13. s.writePointer = Len(third) /\ \A k \in 1 .. Len(third) : s.bytes[k - 1] = third[k]
  BY <1>5, <1>11 DEF Progress
<1>14. [k \in 1 .. s.writePointer |-> s.bytes[k - 1]] = third
  <2>1. third \in [1 .. Len(third) -> Byte]
    BY <1>11, LenProperties
  <2> QED
    BY <1>13, <2>1
<1> QED
  BY <1>12, <1>14 DEF s, m, bytes, text

----------------------------------------------------------------------------
(* Every key does what it does in LineEditor.                              *)

\* A character is typed over another one, or at the end of the text.
LEMMA OverwriteTypes ==
    ASSUME Inv, NEW char \in Chars, Overwrite(char)
    PROVE  Editor!Type(char)
<1> USE InvFacts
<1> DEFINE c == cursorPosition
           n == nbrEnteredCharacters
           w == WLine
           v == WLine'
           last == nbrEnteredCharacters'
<1>1. /\ n < Size /\ ~insertMode
      /\ last = IF c = n THEN n + 1 ELSE n
      /\ cursorPosition' = c + 1
      /\ insertMode' = insertMode /\ delivered' = delivered
  BY DEF Overwrite, Room
<1>2. /\ v \in Line
      /\ \A i \in Columns : v[i] = IF i = c THEN char ELSE w[i]
  BY OverwriteLine
<1>3. /\ w \in Line /\ char \in WideChar /\ Size \in Nat
      /\ c \in Nat /\ n \in Nat /\ c <= n /\ n < Size
  BY <1>1, CharsAreWide
<1> HIDE InvFacts
<1> HIDE DEF c, n, w, v, last
<1>4. /\ \A i \in 0 .. c - 1 : v[i] = w[i]
      /\ v[c] = char
      /\ \A i \in c + 1 .. n - 1 : v[i] = w[i]
  BY <1>2, <1>3 DEF Columns
<1>5. Cells(v, 0, c + 1) = Append(Cells(w, 0, c), char)
  BY <1>2, <1>3, <1>4, CellsAppend
<1>6. Cells(v, c + 1, last) = IF Cells(w, c, n) = <<>> THEN Cells(w, c, n) ELSE Tail(Cells(w, c, n))
  <2>1. Cells(w, c, n) = <<>> <=> c = n
    BY <1>3, CellsEmpty
  <2> DEFINE d == c + 1
  <2>2. d \in Nat /\ d <= Size + 2
    BY <1>3
  <2>3. CASE c = n
    <3>1. last = d
      BY <1>1, <2>3
    <3> HIDE DEF d
    <3>2. Cells(v, d, d) = <<>>
      BY <1>2, <2>2, CellsEmpty
    <3> QED
      BY <2>1, <2>3, <3>1, <3>2 DEF d
  <2>4. CASE c < n
    <3>1. last = n
      BY <1>1, <1>3, <2>4
    <3>2. Cells(w, d, n) = Tail(Cells(w, c, n))
      BY <1>3, <2>4, CellsTail
    <3>3. \A k \in 1 .. n - d : v[d + k - 1] = w[d + k - 1]
      BY <1>3, <1>4
    <3> HIDE DEF d
    <3>4. Cells(v, d, n) = Cells(w, d, n)
      BY <3>3 DEF Cells
    <3>5. Cells(w, c, n) # <<>>
      BY <1>3, <2>1, <2>4
    <3>6. Cells(v, c + 1, last) = Tail(Cells(w, c, n))
      BY <3>1, <3>2, <3>4, Zenon DEF d
    <3> QED
      BY <3>5, <3>6, Zenon
  <2> QED
    BY <1>3, <2>3, <2>4
<1>7. Len(Cells(w, 0, c)) + Len(Cells(w, c, n)) < Size
  <2>1. Len(Cells(w, 0, c)) = c
    BY <1>3, CellsPrefix
  <2>2. Len(Cells(w, c, n)) = n - c
    BY <1>3, CellsProperties
  <2> QED
    BY <1>3, <2>1, <2>2
<1> QED
  BY <1>1, <1>5, <1>6, <1>7 DEF Editor!Type, c, n, w, v, last

\* A character is typed in front of the rest of the text.
LEMMA InsertTypes ==
    ASSUME Inv, NEW char \in Chars, Insert(char)
    PROVE  Editor!Type(char)
<1> USE InvFacts
<1> DEFINE c == cursorPosition
           n == nbrEnteredCharacters
           w == WLine
           v == WLine'
<1>1. /\ n < Size /\ insertMode
      /\ nbrEnteredCharacters' = n + 1
      /\ cursorPosition' = c + 1
      /\ insertMode' = insertMode /\ delivered' = delivered
  BY DEF Insert, Room
<1>2. /\ v \in Line
      /\ \A i \in Columns : v[i] = IF i = c THEN char
                                   ELSE IF n > c /\ i \in c + 1 .. n + 1 THEN w[i - 1]
                                   ELSE w[i]
  BY InsertLine
<1>3. /\ w \in Line /\ char \in WideChar /\ Size \in Nat
      /\ c \in Nat /\ n \in Nat /\ c <= n /\ n < Size
  BY <1>1, CharsAreWide
<1> HIDE InvFacts
<1> HIDE DEF c, n, w, v
<1>4. /\ \A i \in 0 .. c - 1 : v[i] = w[i]
      /\ v[c] = char
      /\ \A i \in c + 1 .. n : v[i] = w[i - 1]
  BY <1>2, <1>3 DEF Columns
<1>5. Cells(v, 0, c + 1) = Append(Cells(w, 0, c), char)
  BY <1>2, <1>3, <1>4, CellsAppend
<1>6. Cells(v, c + 1, n + 1) = Cells(w, c, n)
  <2>1. (n + 1) - (c + 1) = n - c
    BY <1>3
  <2>2. \A k \in 1 .. n - c : v[(c + 1) + k - 1] = w[c + k - 1]
    BY <1>3, <1>4
  <2> QED
    BY <2>1, <2>2 DEF Cells
<1>7. Len(Cells(w, 0, c)) + Len(Cells(w, c, n)) < Size
  <2>1. Len(Cells(w, 0, c)) = c
    BY <1>3, CellsPrefix
  <2>2. Len(Cells(w, c, n)) = n - c
    BY <1>3, CellsProperties
  <2> QED
    BY <1>3, <2>1, <2>2
<1> QED
  BY <1>1, <1>5, <1>6, <1>7 DEF Editor!Type, c, n, w, v

LEMMA BackSpaceErases ==
    ASSUME Inv, BackSpace
    PROVE  Editor!BackSpace
<1> USE InvFacts
<1> DEFINE c == cursorPosition
           n == nbrEnteredCharacters
           w == WLine
           v == WLine'
           gap == c - 1
<1>1. /\ c > 0
      /\ inputLine' = Union(Closed(gap))
      /\ nbrEnteredCharacters' = n - 1
      /\ cursorPosition' = gap
      /\ insertMode' = insertMode /\ delivered' = delivered
  BY DEF BackSpace, Closed
<1>2. /\ w \in Line /\ Size \in Nat
      /\ c \in Nat /\ n \in Nat /\ c <= n /\ n <= Size /\ gap \in Nat /\ gap < n
      /\ 0 < c /\ c <= Size
  BY <1>1
<1> HIDE DEF gap
<1>3. /\ Closed(gap) \in Line
      /\ v = Closed(gap)
      /\ \A i \in Columns : Closed(gap)[i] = IF i \in gap .. n - 2 THEN w[i + 1] ELSE w[i]
  BY <1>1, <1>2, ClosedLine
<1> HIDE InvFacts
<1> HIDE DEF c, n, w, v
<1>4. /\ \A i \in 0 .. gap - 1 : v[i] = w[i]
      /\ \A i \in gap .. n - 2 : v[i] = w[i + 1]
  BY <1>2, <1>3 DEF Columns
<1>5. Cells(v, 0, gap) = SubSeq(Cells(w, 0, c), 1, c - 1)
  <2>1. Cells(v, 0, gap) = Cells(w, 0, gap)
    <3>1. \A k \in 1 .. gap - 0 : v[0 + k - 1] = w[0 + k - 1]
      BY <1>2, <1>4
    <3> QED
      BY <3>1 DEF Cells
  <2>2. Cells(w, 0, c - 1) = SubSeq(Cells(w, 0, c), 1, c - 1)
    BY <1>2, CellsFront
  <2> QED
    BY <2>1, <2>2 DEF gap
<1>6. Cells(v, gap, n - 1) = Cells(w, c, n)
  <2>1. (n - 1) - gap = n - c
    BY <1>2 DEF gap
  <2>2. \A k \in 1 .. n - c : v[gap + k - 1] = w[c + k - 1]
    BY <1>2, <1>4 DEF gap
  <2> QED
    BY <2>1, <2>2 DEF Cells
<1>7. Len(Cells(w, 0, c)) = c /\ Cells(w, 0, c) # <<>>
  <2>1. Len(Cells(w, 0, c)) = c
    BY <1>2, CellsPrefix
  <2>2. Len(<<>>) = 0
    BY EmptySeq
  <2>3. c # 0
    BY <1>1, <1>2
  <2> QED
    BY <2>1, <2>2, <2>3
<1> QED
  BY <1>1, <1>5, <1>6, <1>7 DEF Editor!BackSpace, c, n, w, v

LEMMA DeleteErases ==
    ASSUME Inv, Delete
    PROVE  Editor!Delete
<1> USE InvFacts
<1> DEFINE c == cursorPosition
           n == nbrEnteredCharacters
           w == WLine
           v == WLine'
<1>1. /\ c < n
      /\ inputLine' = Union(Closed(c))
      /\ nbrEnteredCharacters' = n - 1
      /\ cursorPosition' = c
      /\ insertMode' = insertMode /\ delivered' = delivered
  BY DEF Delete, Closed
<1>2. w \in Line /\ Size \in Nat /\ c \in Nat /\ n \in Nat /\ c < n /\ n <= Size
  BY <1>1
<1>3. /\ Closed(c) \in Line
      /\ v = Closed(c)
      /\ \A i \in Columns : Closed(c)[i] = IF i \in c .. n - 2 THEN w[i + 1] ELSE w[i]
  BY <1>1, <1>2, ClosedLine
<1> HIDE InvFacts
<1> HIDE DEF c, n, w, v
<1>4. /\ \A i \in 0 .. c - 1 : v[i] = w[i]
      /\ \A i \in c .. n - 2 : v[i] = w[i + 1]
  BY <1>2, <1>3 DEF Columns
<1>5. Cells(v, 0, c) = Cells(w, 0, c)
  <2>1. \A k \in 1 .. c - 0 : v[0 + k - 1] = w[0 + k - 1]
    BY <1>2, <1>4
  <2> QED
    BY <2>1 DEF Cells
<1>6. Cells(v, c, n - 1) = Tail(Cells(w, c, n))
  <2>1. Cells(w, c + 1, n) = Tail(Cells(w, c, n))
    BY <1>1, <1>2, CellsTail
  <2>2. (n - 1) - c = n - (c + 1)
    BY <1>2
  <2>3. \A k \in 1 .. (n - 1) - c : v[c + k - 1] = w[(c + 1) + k - 1]
    BY <1>2, <1>4
  <2>4. Cells(v, c, n - 1) = Cells(w, c + 1, n)
    BY <2>2, <2>3 DEF Cells
  <2> QED
    BY <2>1, <2>4
<1>7. Cells(w, c, n) # <<>>
  BY <1>1, <1>2, CellsEmpty
<1> QED
  BY <1>1, <1>5, <1>6, <1>7 DEF Editor!Delete, c, n, w, v

\* The cursor moves by one column, or to an end of the text.
LEMMA MoveToMoves ==
    ASSUME Inv, NEW cursor \in 0 .. nbrEnteredCharacters, MoveTo(cursor),
           \/ cursor \in {cursorPosition - 1, cursorPosition + 1}
           \/ cursor \in {0, nbrEnteredCharacters}
    PROVE  Editor!Move
<1> USE InvFacts
<1> DEFINE c == cursorPosition
           n == nbrEnteredCharacters
           w == WLine
<1>1. /\ cursorPosition' = cursor
      /\ nbrEnteredCharacters' = n /\ inputLine' = inputLine
      /\ insertMode' = insertMode /\ delivered' = delivered
  BY DEF MoveTo
<1>2. WLine' = w
  BY <1>1 DEF WLine, wLine
<1>3. /\ w \in Line /\ Size \in Nat /\ c \in Nat /\ n \in Nat /\ c <= n /\ n <= Size
      /\ cursor \in Nat /\ cursor <= n
  OBVIOUS
<1>4. \/ cursor = c - 1 \/ cursor = c + 1 \/ cursor = 0 \/ cursor = n
  OBVIOUS
<1> HIDE InvFacts
<1> HIDE DEF c, n, w
<1>5. Cells(w, 0, cursor) \o Cells(w, cursor, n) = Cells(w, 0, c) \o Cells(w, c, n)
  BY <1>3, CellsConcat
<1>6. Len(Cells(w, 0, cursor)) = cursor /\ Len(Cells(w, 0, c)) = c
  BY <1>3, CellsPrefix
<1>7. cursor = 0 => Cells(w, 0, cursor) = <<>>
  BY <1>3, CellsEmpty
<1>8. cursor = n => Cells(w, cursor, n) = <<>>
  BY <1>3, CellsEmpty
<1>9. \/ Len(Cells(w, 0, cursor)) \in {Len(Cells(w, 0, c)) - 1, Len(Cells(w, 0, c)) + 1}
      \/ Cells(w, 0, cursor) = <<>>
      \/ Cells(w, cursor, n) = <<>>
  BY <1>4, <1>6, <1>7, <1>8
<1> QED
  BY <1>1, <1>2, <1>5, <1>9 DEF Editor!Move, c, n, w

\* The bytes of the text are delivered, and the next line is empty.
LEMMA NewLineDelivers ==
    ASSUME Inv, NewLine
    PROVE  Editor!NewLine
<1> USE InvFacts
<1> DEFINE c == cursorPosition
           n == nbrEnteredCharacters
           w == WLine
           v == WLine'
           ended == [w EXCEPT ![n] = Wide(Newline), ![n + 1] = Wide(Zero)]
           s == Compress(Union(ended), n + 2)
<1>1. /\ delivered' = [k \in 1 .. s.writePointer |-> s.bytes[k - 1]]
      /\ nbrEnteredCharacters' = 0
      /\ cursorPosition' = 0
      /\ insertMode' = insertMode
  BY DEF NewLine
<1>2. w \in Line /\ Size \in Nat /\ c \in Nat /\ n \in Nat /\ c <= n /\ n <= Size
  OBVIOUS
<1> HIDE InvFacts
<1> HIDE DEF c, n, w, v
<1>3. /\ ended \in Line
      /\ \A i \in 0 .. n - 1 : ended[i] = w[i]
      /\ ended[n] = Wide(Newline) /\ ended[n + 1] = Wide(Zero)
  BY <1>2, CharsAreWide DEF Line, Columns
<1> HIDE DEF ended
<1>4. delivered' = Editor!Bytes(Cells(w, 0, n))
  BY <1>1, <1>2, <1>3, CompressDelivers
<1>5. Cells(w, 0, c) \o Cells(w, c, n) = Cells(w, 0, n)
  BY <1>2, CellsConcat
<1>6. Cells(v, 0, 0) = <<>>
  BY DEF Cells
<1> QED
  BY <1>1, <1>4, <1>5, <1>6 DEF Editor!NewLine, c, n, w, v

LEMMA NormalInputImplements ==
    ASSUME Inv, NEW char \in Decoded, NormalInput(char)
    PROVE  [Editor!Next]_(Editor!editorVars)
<1>1. CASE NewLine
  BY <1>1, NewLineDelivers DEF Editor!Next
<1>2. CASE BackSpace
  BY <1>2, BackSpaceErases DEF Editor!Next
<1>3. CASE char \in Chars /\ Overwrite(char)
  BY <1>3, OverwriteTypes DEF Editor!Next
<1>4. CASE char \in Chars /\ Insert(char)
  BY <1>4, InsertTypes DEF Editor!Next
<1>5. CASE InsertWraps
  BY <1>5 DEF InsertWraps, Editor!editorVars, WLine, wLine
<1> QED
  BY <1>1, <1>2, <1>3, <1>4, <1>5 DEF NormalInput

LEMMA ImplementsNext ==
    ASSUME Inv, [Next]_vars
    PROVE  [Editor!Next]_(Editor!editorVars)
<1>1. ASSUME NEW char \in Decoded, Key(char)
      PROVE  [Editor!Next]_(Editor!editorVars)
  BY <1>1, NormalInputImplements DEF Key
<1>2. CASE EscapeOther
  <2>1. wch \in Decoded
    BY DEF Inv, TypeOK
  <2> QED
    BY <1>2, <2>1, NormalInputImplements DEF EscapeOther
<1>3. CASE ToggleInsert
  <2>1. Editor!Toggle
    BY <1>3 DEF ToggleInsert, Editor!Toggle, WLine, wLine
  <2> QED
    BY <2>1 DEF Editor!Next
<1>4. CASE Delete
  BY <1>4, DeleteErases DEF Editor!Next
<1>5. ASSUME NEW cursor \in 0 .. nbrEnteredCharacters, MoveTo(cursor),
             \/ cursor \in {cursorPosition - 1, cursorPosition + 1}
             \/ cursor \in {0, nbrEnteredCharacters}
      PROVE  [Editor!Next]_(Editor!editorVars)
  BY <1>5, MoveToMoves DEF Editor!Next
<1>6. CASE Left \/ Right \/ Home \/ End
  <2>1. CASE Left
    <3>1. cursorPosition - 1 \in 0 .. nbrEnteredCharacters
      BY <2>1, InvFacts DEF Left
    <3> QED
      BY <2>1, <3>1, <1>5 DEF Left
  <2>2. CASE Right
    <3>1. cursorPosition + 1 \in 0 .. nbrEnteredCharacters
      BY <2>2, InvFacts DEF Right
    <3> QED
      BY <2>2, <3>1, <1>5 DEF Right
  <2>3. CASE Home
    <3>1. 0 \in 0 .. nbrEnteredCharacters
      BY InvFacts
    <3> QED
      BY <2>3, <3>1, <1>5 DEF Home
  <2>4. CASE End
    <3>1. nbrEnteredCharacters \in 0 .. nbrEnteredCharacters
      BY InvFacts
    <3> QED
      BY <2>4, <3>1, <1>5 DEF End
  <2> QED
    BY <1>6, <2>1, <2>2, <2>3, <2>4
<1>7. CASE UNCHANGED vars
  BY <1>7 DEF vars, Editor!editorVars, WLine, wLine
<1> QED
  BY <1>1, <1>2, <1>3, <1>4, <1>6, <1>7 DEF Next

LEMMA ImplementsInit == Init => Editor!Init
BY DEF Init, Editor!Init, Cells

\* treatLine() and compress() implement the line editor that an operator expects, for every
\* length of the line and every set of characters: each key, in whatever state the keys
\* before it left the line, does to the text what it does in LineEditor or nothing, and NL
\* delivers its bytes.
THEOREM ConsoleLineEdits == Spec => ImplementsEditor
<1>1. Inv /\ [Next]_vars => [Editor!Next]_(Editor!editorVars)
  BY ImplementsNext
<1> QED
  BY ImplementsInit, InvInit, InvNext, <1>1, PTL DEF Spec, ImplementsEditor, Editor!Spec

=============================================================================
