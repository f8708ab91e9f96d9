----------------------------- MODULE MCKeyboard -----------------------------
(* Values for the constants of KeyboardSystem: two character keys, one of  *)
(* which has no shifted form of its own, one arrow key, a ring of a few    *)
(* slots.                                                                  *)
EXTENDS KeyboardSystem

MCChar == {"a", "A", " ", "^", "v", "<", ">"}

Table(a, space) == [c \in 0 .. 127 |-> CASE c = 30 -> a [] c = 57 -> space [] OTHER -> NUL]
MCUnshifted == Table("a", " ")
MCShifted   == Table("A", " ")
=============================================================================
