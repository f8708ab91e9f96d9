----------------------------- MODULE CharQueue -----------------------------
(***************************************************************************)
(* What the keyboard ring promises its two users, the interrupt handler    *)
(* and the main loop: a first-in first-out queue of characters that loses  *)
(* a character only when it is full, and whose reader never sees the       *)
(* value "no character" for a character.                                   *)
(***************************************************************************)
EXTENDS Integers, Sequences

CONSTANTS Char, Capacity

VARIABLES
  q,     \* the characters pushed and not yet taken
  out    \* the character taken last

TypeOK ==
  /\ q \in Seq(Char)
  /\ Len(q) <= Capacity

Init == q = << >>

Put(c) ==
  /\ Len(q) < Capacity
  /\ q' = Append(q, c)
  /\ UNCHANGED out

Get ==
  /\ q # << >>
  /\ out' = Head(q)
  /\ q' = Tail(q)

Next == Get \/ \E c \in Char : Put(c)

Spec == Init /\ [][Next]_<<q, out>>
=============================================================================
