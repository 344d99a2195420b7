----------------------------- MODULE LineEditor -----------------------------
(***************************************************************************)
(* What an operator expects of the line editing of the device Console: a   *)
(* text with a cursor in it, the keys he knows, and that the line he       *)
(* entered is delivered byte for byte.                                     *)
(***************************************************************************)
EXTENDS Integers, Sequences

CONSTANTS
    Chars,      \* the characters of the keyboard: records of page and ch
    Size,       \* how many may be entered, 80 in the program
    Zero,       \* the byte 0: no page, or the end of the line
    Newline     \* the byte NL

VARIABLES left, right,  \* the text before and behind the cursor
          insertMode,
          line          \* the bytes of the last line

editorVars == <<left, right, insertMode, line>>

\* A character of the second half of the code page needs two bytes.
BytesOf(char) == IF char.page = Zero THEN <<char.ch>> ELSE <<char.page, char.ch>>

Bytes(text) ==
    LET upTo[n \in 0 .. Len(text)] ==
            IF n = 0 THEN <<>> ELSE upTo[n - 1] \o BytesOf(text[n])
    IN  upTo[Len(text)] \o <<Newline, Zero>>

Init == left = <<>> /\ right = <<>> /\ insertMode = FALSE /\ line = <<>>

\* In a full line no character is accepted, not even one that would replace another one.
Type(char) ==
    /\ Len(left) + Len(right) < Size
    /\ left' = Append(left, char)
    /\ right' = IF insertMode \/ right = <<>> THEN right ELSE Tail(right)
    /\ UNCHANGED <<insertMode, line>>

BackSpace ==
    /\ left # <<>>
    /\ left' = SubSeq(left, 1, Len(left) - 1)
    /\ UNCHANGED <<right, insertMode, line>>

Delete ==
    /\ right # <<>>
    /\ right' = Tail(right)
    /\ UNCHANGED <<left, insertMode, line>>

\* LEFT, RIGHT, HOME, END: the cursor moves, the text stays.
Move ==
    /\ left' \o right' = left \o right
    /\ \/ Len(left') \in {Len(left) - 1, Len(left) + 1}
       \/ left' = <<>> \/ right' = <<>>
    /\ UNCHANGED <<insertMode, line>>

Toggle == insertMode' = ~insertMode /\ UNCHANGED <<left, right, line>>

NewLine ==
    /\ left' = <<>> /\ right' = <<>>
    /\ line' = Bytes(left \o right)
    /\ UNCHANGED insertMode

Next ==
    \/ \E char \in Chars : Type(char)
    \/ BackSpace \/ Delete \/ Move \/ Toggle \/ NewLine

Spec == Init /\ [][Next]_editorVars
=============================================================================
