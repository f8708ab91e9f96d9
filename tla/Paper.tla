------------------------------- MODULE Paper -------------------------------
(***************************************************************************)
(* What the text screen promises: a roll of paper that is only ever        *)
(* written on its last line, however few of its lines a screen shows.      *)
(***************************************************************************)
EXTENDS Integers

CONSTANTS
  Width,       \* characters a line has room for
  Blank, Ink   \* a place that shows nothing; what can be written on one

VARIABLES
  paper,       \* line -> place -> Blank or some ink
  last,        \* the last line
  head         \* the place on it that is written next

Line == [0 .. Width - 1 -> Ink \cup {Blank}]
BlankLine == [x \in 0 .. Width - 1 |-> Blank]

Fresh == paper = [k \in {0} |-> BlankLine] /\ last = 0 /\ head = 0

(* The paper p with one more line.                                         *)
Fed(p) == [k \in 0 .. last + 1 |-> IF k = last + 1 THEN BlankLine ELSE p[k]]

Tear == Fresh'
Return == head' = 0 /\ UNCHANGED <<paper, last>>
Feed == paper' = Fed(paper) /\ last' = last + 1 /\ head' = 0
Write(i) ==
  LET marked == [paper EXCEPT ![last][head] = i]
  IN IF head + 1 < Width
     THEN paper' = marked /\ head' = head + 1 /\ last' = last
     ELSE paper' = Fed(marked) /\ head' = 0 /\ last' = last + 1

PaperNext == Tear \/ Return \/ Feed \/ \E i \in Ink \cup {Blank} : Write(i)

PaperSpec == Fresh /\ [][PaperNext]_<<paper, last, head>>
=============================================================================
