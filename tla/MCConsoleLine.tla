--------------------------- MODULE MCConsoleLine ---------------------------
(***************************************************************************)
(* Lines of up to four characters, so that an insertion shifts more than   *)
(* one; a character of one byte, and one of two that ends with this byte.  *)
(***************************************************************************)
EXTENDS ConsoleLine

MCChars == {[page |-> "0", ch |-> "a"], [page |-> "p", ch |-> "a"]}

=============================================================================
