--------------------------- MODULE KeyboardSystem ---------------------------
(***************************************************************************)
(* The keyboard driver between a person typing and the drain loop of the   *)
(* main loop.  The keyboard sends one or more scan codes for each key      *)
(* event; they wait on the line until IRQ1 delivers them, one per run of   *)
(* keyboard_handler.  Deliveries interleave with the reader's steps at any *)
(* point, as interrupts do while the main loop runs with IF set.           *)
(*                                                                         *)
(* Each scan code on the line carries the character the person meant by    *)
(* it, so that what the driver decodes can be compared with what was       *)
(* typed.                                                                  *)
(***************************************************************************)
EXTENDS Keyboard

CONSTANTS
  PlainKey,    \* make codes of the character keys the person uses
  ArrowKey,    \* make codes of the arrow keys the person uses
  ShiftsHeld,  \* how many shift keys the person may hold at once, 0 .. 2
  Backlog      \* bound: scan codes on their way when a key event happens

(* No key is released with the prefix.                                     *)
ASSUME KeysAssumption ==
  /\ PlainKey \subseteq 0 .. 127 \ (ShiftMake \cup {E0 - 128})
  /\ ArrowKey \subseteq DOMAIN ArrowChar
  /\ ShiftsHeld \in Nat
  /\ Backlog \in Nat

VARIABLES
  held,        \* the shift keys that are down, by their make codes
  line         \* scan codes sent and not yet delivered

typingVars == <<kbdVars, rdVars, held, line>>

Code == [sc : Scancode, typed : Char \cup {NUL}]

TypingTypeOK ==
  /\ KeyboardTypeOK
  /\ held \subseteq ShiftMake
  /\ line \in Seq(Code)

TypingInit ==
  /\ KeyboardInit
  /\ held = {}
  /\ line = << >>

-----------------------------------------------------------------------------
(* The person and the keyboard.                                            *)

Mute(sc) == [sc |-> sc, typed |-> NUL]

Send(codes) ==
  /\ Len(line) <= Backlog
  /\ line' = line \o codes
  /\ UNCHANGED <<kbdVars, rdVars>>

PressShift(k) ==
  /\ k \notin held
  /\ Cardinality(held) < ShiftsHeld
  /\ held' = held \cup {k}
  /\ Send(<<Mute(k)>>)

ReleaseShift(k) ==
  /\ k \in held
  /\ held' = held \ {k}
  /\ Send(<<Mute(k + 128)>>)

TypeCharacter(k) ==
  /\ Send(<<[sc |-> k, typed |-> IF held = {} THEN Unshifted[k] ELSE Shifted[k]],
            Mute(k + 128)>>)
  /\ UNCHANGED held

(* An arrow key is pressed and released.  While a shift key is held the    *)
(* keyboard puts a fake release of it before and a fake press after, each  *)
(* behind a prefix of its own.                                             *)
TypeArrow(k) ==
  LET arrow == <<Mute(E0), [sc |-> k, typed |-> ArrowChar[k]], Mute(E0), Mute(k + 128)>>
  IN /\ IF held = {}
        THEN Send(arrow)
        ELSE \E s \in held : Send(<<Mute(E0), Mute(s + 128)>> \o arrow \o <<Mute(E0), Mute(s)>>)
     /\ UNCHANGED held

(* IRQ1: the handler runs on the oldest scan code of the line.             *)
Deliver ==
  /\ line # << >>
  /\ keyboard_handler(Head(line).sc)
  /\ line' = Tail(line)
  /\ UNCHANGED held

Read ==
  /\ \/ StartDrain \/ HasLoadHead \/ HasTest
     \/ GetLoadHead \/ GetTest \/ GetRead \/ GetStore \/ Used
  /\ UNCHANGED <<held, line>>

TypingNext ==
  \/ \E k \in ShiftMake : PressShift(k)
  \/ \E k \in ShiftMake : ReleaseShift(k)
  \/ \E k \in PlainKey : TypeCharacter(k)
  \/ \E k \in ArrowKey : TypeArrow(k)
  \/ Deliver
  \/ Read

TypingSpec == TypingInit /\ [][TypingNext]_typingVars

-----------------------------------------------------------------------------
(* The inductive invariant.                                                *)
TypingInv == TypingTypeOK /\ RingInv

(* The scan code that is delivered next is decoded to the character that   *)
(* was typed with it: no code is taken for a shift key, an extended key or *)
(* a plain key that is not one, in whatever order they follow each other   *)
(* (ps2_keyboard.c:44-93).                                                 *)
DecodedAsTyped == line # << >> => CharOf(Head(line).sc) = Head(line).typed

(* "Track Left Shift (`0x2A`) and Right Shift (`0x36`) press/release       *)
(* events." (docs/ADVERSARIAL_FIXES_PLAN.md:16): once the line is empty,   *)
(* shift_pressed says whether a shift key is down.                         *)
ShiftTracked == line = << >> => (shift_pressed <=> held # {})

(* A character is dropped only when the ring is full: every delivery of a  *)
(* scan code that means a character lengthens the ring by one, unless all  *)
(* its usable slots are taken.                                             *)
DropOnlyWhenFull ==
  [][Deliver /\ Head(line).typed # NUL
       => Waiting' = Waiting + 1 \/ Waiting = KBD_BUFFER_SIZE - 1]_typingVars
=============================================================================
