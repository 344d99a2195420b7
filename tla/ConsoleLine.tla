---------------------------- MODULE ConsoleLine ----------------------------
(***************************************************************************)
(* The line editing of the device Console: ConsoleCommon::treatLine() up   *)
(* to the end of the line, compress(), and what the terminal shows.        *)
(*                                                                         *)
(* The text is in an array of wide characters; after NL it is compressed   *)
(* to bytes in place, wLine and compressedLine being a union.  The echo    *)
(* consists of characters and backspaces only.                             *)
(*                                                                         *)
(* A step is a key, with the characters of its escape sequence; keys that  *)
(* treatLine() ignores, and the bell, are no steps.  Whether the line is   *)
(* empty matters to writers, and what is done with a line to readers: both *)
(* are in module Console.                                                  *)
(***************************************************************************)
EXTENDS Integers, Sequences

CONSTANTS
    Chars,      \* the characters of the keyboard: records of page and ch
    Size,       \* how many may be entered, 80 in the program
    Zero,       \* the byte 0: no page, or the end of the line
    Newline,    \* the byte NL
    Rubout,     \* the byte of the BS key
    Blank       \* an empty cell of the terminal

Wide(ch) == [page |-> Zero, ch |-> ch]

ASSUME ConsoleLineAssumption ==
    /\ Size \in Nat
    /\ \A char \in Chars : char = [page |-> char.page, ch |-> char.ch]
    /\ Chars \cap {Wide(Newline), Wide(Rubout)} = {}

\* What the decoder of treatLine() makes of plain keys; control characters are left out.
Decoded == Chars \cup {Wide(Newline), Wide(Rubout)}

VARIABLES
    inputLine,      \* the bytes of the union
    nbrEnteredCharacters, cursorPosition, insertMode,
    wch,            \* the character decoded last
    delivered,      \* the bytes of the last line, as treatLine() returned them
    terminal,       \* the cells of the terminal's line, and the column of its cursor
    crashed

vars == <<inputLine, nbrEnteredCharacters, cursorPosition, insertMode, wch, delivered, terminal,
          crashed>>

Columns == 0 .. Size + 1

wLine(i) == [page |-> inputLine[2 * i], ch |-> inputLine[2 * i + 1]]

\* The union with wLine[i] = w[i].
Union(w) == [b \in 0 .. 2 * Size + 3 |-> IF b % 2 = 0 THEN w[b \div 2].page ELSE w[b \div 2].ch]

WLine == [i \in Columns |-> wLine(i)]

EmptyTerminal == [cells |-> [c \in Columns |-> Blank], column |-> 0]

\* wch is a local variable without an initial value; here it is one of what a key gives.
Init ==
    /\ inputLine = [b \in 0 .. 2 * Size + 3 |-> Zero]
    /\ nbrEnteredCharacters = 0
    /\ cursorPosition = 0
    /\ insertMode = FALSE
    /\ wch \in Decoded
    /\ delivered = <<>>
    /\ terminal = EmptyTerminal
    /\ crashed = FALSE

----------------------------------------------------------------------------
(* The terminal.                                                           *)

\* It shows the characters and goes on to the next column; a backspace only moves.
PutString(t, string) ==
    [cells |-> [c \in Columns |-> IF c - t.column \in 0 .. Len(string) - 1
                                  THEN string[c - t.column + 1]
                                  ELSE t.cells[c]],
     column |-> t.column + Len(string)]

GoLeft(t, n) == [t EXCEPT !.column = @ - n]

\* w[first] .. w[last - 1].
Cells(w, first, last) == [k \in 1 .. last - first |-> w[first + k - 1]]

\* Faulty variant: what a deletion left over is not erased.
RewriteUnerased(t, w, cursor, nbr, blanks) ==
    GoLeft(PutString(t, Cells(w, cursor, nbr)), nbr - cursor)

\* The rest of the line after the cursor is written again, and what a deletion left over.
Rewrite(t, w, cursor, nbr, blanks) ==
    GoLeft(PutString(t, Cells(w, cursor, nbr) \o blanks), nbr - cursor + Len(blanks))

----------------------------------------------------------------------------
(* Characters.  Each of them is typed by its key, or taken from wch once   *)
(* more by an escape sequence that is unknown: see EscapeOther.            *)

\* Faulty variant: the null is forgotten.
RoomForNewline == nbrEnteredCharacters <= Size

\* There is room for NL and the null behind the text.
Room == nbrEnteredCharacters < Size

Overwrite(char) ==
    LET w == [WLine EXCEPT ![cursorPosition] = char]
    IN  /\ Room /\ ~insertMode
        /\ inputLine' = Union(w)
        /\ nbrEnteredCharacters' = IF cursorPosition = nbrEnteredCharacters
                                   THEN nbrEnteredCharacters + 1
                                   ELSE nbrEnteredCharacters
        /\ cursorPosition' = cursorPosition + 1
        /\ terminal' = PutString(terminal, <<char>>)
        /\ UNCHANGED <<insertMode, delivered, crashed>>

\* Faulty variant: the shift starts at the cursor.
ShiftedUp ==
    [i \in Columns |-> IF /\ nbrEnteredCharacters > cursorPosition
                          /\ i \in cursorPosition + 1 .. nbrEnteredCharacters + 1
                       THEN wLine(cursorPosition)
                       ELSE wLine(i)]

\* wLine[nbr] .. wLine[cursor] are shifted by one, from the last one down.
Shifted ==
    [i \in Columns |-> IF /\ nbrEnteredCharacters > cursorPosition
                          /\ i \in cursorPosition + 1 .. nbrEnteredCharacters + 1
                       THEN wLine(i - 1)
                       ELSE wLine(i)]

\* The loop stops when its unsigned index is less than the cursor, which is never less
\* than 0.
Wraps == cursorPosition = 0 /\ nbrEnteredCharacters > 0

Insert(char) ==
    LET w == [Shifted EXCEPT ![cursorPosition] = char]
    IN  /\ Room /\ insertMode /\ ~Wraps
        /\ inputLine' = Union(w)
        /\ nbrEnteredCharacters' = nbrEnteredCharacters + 1
        /\ cursorPosition' = cursorPosition + 1
        /\ terminal' = Rewrite(PutString(terminal, <<char>>), w, cursorPosition',
                               nbrEnteredCharacters', <<>>)
        /\ UNCHANGED <<insertMode, delivered, crashed>>

\* The memory before the line is overwritten until the process is ended.
InsertWraps ==
    /\ Room /\ insertMode /\ Wraps
    /\ crashed' = TRUE
    /\ UNCHANGED <<inputLine, nbrEnteredCharacters, cursorPosition, insertMode, delivered,
                   terminal>>

BackSpace ==
    LET w == [i \in Columns |-> IF i \in cursorPosition - 1 .. nbrEnteredCharacters - 2
                                THEN wLine(i + 1)
                                ELSE wLine(i)]
    IN  /\ cursorPosition > 0
        /\ inputLine' = Union(w)
        /\ nbrEnteredCharacters' = nbrEnteredCharacters - 1
        /\ cursorPosition' = cursorPosition - 1
        /\ terminal' = Rewrite(GoLeft(terminal, 1), w, cursorPosition', nbrEnteredCharacters',
                               <<Blank>>)
        /\ UNCHANGED <<insertMode, delivered, crashed>>

\* compress() writes a byte, over the bytes that it still has to read.
Put(s, b) == [bytes |-> [s.bytes EXCEPT ![s.writePointer] = b],
              writePointer |-> s.writePointer + 1]

\* The i-th wide character: its page, unless it is 0, and its byte.
CompressOne(s, i) ==
    LET page == s.bytes[2 * i - 2]
        p == IF page # Zero THEN Put(s, page) ELSE s
    IN  Put(p, p.bytes[2 * i - 1])

\* The bytes of n wide characters.
Compress(bytes, n) ==
    LET upTo[i \in 0 .. n] ==
            IF i = 0 THEN [bytes |-> bytes, writePointer |-> 0]
                     ELSE CompressOne(upTo[i - 1], i)
    IN  upTo[n]

\* The line ends wherever the cursor is.  The next line starts with a new wch.
NewLine ==
    LET n == nbrEnteredCharacters
        ended == [WLine EXCEPT ![n] = Wide(Newline), ![n + 1] = Wide(Zero)]
        s == Compress(Union(ended), n + 2)
    IN  /\ inputLine' = s.bytes
        /\ delivered' = [k \in 1 .. s.writePointer |-> s.bytes[k - 1]]
        /\ nbrEnteredCharacters' = 0
        /\ cursorPosition' = 0
        /\ terminal' = EmptyTerminal
        /\ UNCHANGED <<insertMode, crashed>>

\* The case of normal input, for a decoded character.
NormalInput(char) ==
    \/ char = Wide(Newline) /\ NewLine /\ wch' \in Decoded
    \/ char = Wide(Rubout) /\ BackSpace /\ wch' = char
    \/ char \in Chars /\ (Overwrite(char) \/ Insert(char) \/ InsertWraps) /\ wch' = char

Key(char) == ~crashed /\ NormalInput(char)

\* ESC and a character that is neither [ nor O: nothing is decoded, and the character
\* decoded before is treated again.
EscapeOther == ~crashed /\ NormalInput(wch)

----------------------------------------------------------------------------
(* Keys with an escape sequence.                                           *)

ToggleInsert ==
    /\ ~crashed
    /\ insertMode' = ~insertMode
    /\ UNCHANGED <<inputLine, nbrEnteredCharacters, cursorPosition, wch, delivered, terminal,
                   crashed>>

Delete ==
    LET w == [i \in Columns |-> IF i \in cursorPosition .. nbrEnteredCharacters - 2
                                THEN wLine(i + 1)
                                ELSE wLine(i)]
    IN  /\ ~crashed
        /\ cursorPosition < nbrEnteredCharacters
        /\ inputLine' = Union(w)
        /\ nbrEnteredCharacters' = nbrEnteredCharacters - 1
        /\ terminal' = Rewrite(terminal, w, cursorPosition, nbrEnteredCharacters', <<Blank>>)
        /\ UNCHANGED <<cursorPosition, insertMode, wch, delivered, crashed>>

\* LEFT and HOME write backspaces, RIGHT and END the characters that the cursor passes.
MoveTo(cursor) ==
    /\ ~crashed
    /\ cursorPosition' = cursor
    /\ terminal' = IF cursor < cursorPosition
                   THEN GoLeft(terminal, cursorPosition - cursor)
                   ELSE PutString(terminal, Cells(WLine, cursorPosition, cursor))
    /\ UNCHANGED <<inputLine, nbrEnteredCharacters, insertMode, wch, delivered, crashed>>

Left == cursorPosition > 0 /\ MoveTo(cursorPosition - 1)
Right == cursorPosition < nbrEnteredCharacters /\ MoveTo(cursorPosition + 1)
Home == MoveTo(0)
End == cursorPosition < nbrEnteredCharacters /\ MoveTo(nbrEnteredCharacters)

Next ==
    \/ \E char \in Decoded : Key(char)
    \/ EscapeOther
    \/ ToggleInsert \/ Delete
    \/ Left \/ Right \/ Home \/ End

Spec == Init /\ [][Next]_vars

----------------------------------------------------------------------------
Byte == {char.page : char \in Chars} \cup {char.ch : char \in Chars} \cup {Zero, Newline}

\* The cursor is in the text, and the text leaves room for NL and the null.
TypeOK ==
    /\ inputLine \in [0 .. 2 * Size + 3 -> Byte]
    /\ nbrEnteredCharacters \in 0 .. Size
    /\ cursorPosition \in 0 .. nbrEnteredCharacters
    /\ insertMode \in BOOLEAN
    /\ wch \in Decoded
    /\ terminal.column \in Columns
    /\ crashed \in BOOLEAN

\* The terminal shows the text of the line and nothing behind it, and its cursor is where
\* the next character goes, although treatLine() never asks the terminal for either and
\* only writes characters and backspaces.
ScreenMatches ==
    /\ terminal.column = cursorPosition
    /\ \A c \in Columns :
           terminal.cells[c] = IF c < nbrEnteredCharacters THEN wLine(c) ELSE Blank

\* treatLine() and compress() are a line editor as an operator expects it: every key does to
\* the text what it does in module LineEditor, whatever keys came before, and the bytes that
\* are delivered are those of the text, although they overwrite it while it is read.
Editor == INSTANCE LineEditor WITH
    left <- Cells(WLine, 0, cursorPosition),
    right <- Cells(WLine, cursorPosition, nbrEnteredCharacters),
    line <- delivered

ImplementsEditor == Editor!Spec

=============================================================================
