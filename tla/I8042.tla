------------------------------- MODULE I8042 -------------------------------
(***************************************************************************)
(* The 8042 controller with its keyboard and its mouse: external to the    *)
(* repository, modelled from how ps2_keyboard.c and ps2_mouse.c use ports  *)
(* 0x60 and 0x64.  One output buffer serves both devices; loading it       *)
(* raises IRQ1 or IRQ12 if the command byte says so, and nothing else is   *)
(* loaded until port 0x60 has been read.                                   *)
(***************************************************************************)
EXTENDS Pic, Sequences

(* A machine may have no mouse, be slow (an answer may come after a poll   *)
(* gave up), and latch (a request stays when the byte that raised it is    *)
(* read before it is delivered, as on an emulated 8259).                   *)
CONSTANT Machines

ASSUME ControllerAssumption == Machines \subseteq SUBSET {"mouse", "slow", "latch"}

(* A byte on its way to port 0x60.  pos tells which byte of a mouse packet *)
(* it is, 0 if it is not part of one: known to the device, not to us.      *)
Byte == [data : 0 .. 255, pos : 0 .. 3]
Plain8(d) == [data |-> d, pos |-> 0]

ACK == 250

VARIABLES
  machine,    \* the one we run on, which never changes
  obuf,       \* the output buffer: full, from the mouse or not, last byte
  reply,      \* controller replies waiting for the buffer
  kbdq,       \* scan codes waiting in the keyboard
  auxq,       \* bytes waiting in the mouse
  ctl,        \* the controller's command byte
  streaming   \* the mouse reports movements

ioVars == <<machine, obuf, reply, kbdq, auxq, ctl, streaming>>

I8042TypeOK ==
  /\ machine \in Machines
  /\ obuf \in [full : BOOLEAN, aux : BOOLEAN, byte : Byte]
  /\ reply \in Seq(Byte)
  /\ kbdq \in Seq(Byte)
  /\ auxq \in Seq(Byte)
  /\ ctl \in 0 .. 255
  /\ streaming \in BOOLEAN

(* As the firmware leaves it: keyboard interrupt on (bit 0), mouse port    *)
(* off (bit 5), scan codes translated (bit 6).                             *)
I8042Init ==
  /\ machine \in Machines
  /\ obuf = [full |-> FALSE, aux |-> FALSE, byte |-> Plain8(0)]
  /\ reply = << >>
  /\ kbdq = << >>
  /\ auxq = << >>
  /\ ctl = 97
  /\ streaming = FALSE

Bit(v, b) == (v \div b) % 2 = 1

KbdInt == Bit(ctl, 1)
AuxInt == Bit(ctl, 2)
KbdOff == Bit(ctl, 16)
AuxOff == Bit(ctl, 32)

LoadFrom(aux, q) ==
  /\ ~obuf.full
  /\ q # << >>
  /\ obuf' = [full |-> TRUE, aux |-> aux, byte |-> Head(q)]
  /\ irr' = irr \cup (IF aux /\ AuxInt THEN {Mouse12} ELSE {})
                \cup (IF ~aux /\ KbdInt THEN {Kbd} ELSE {})
  /\ UNCHANGED <<machine, isr, ctl, streaming>>

(* The controller fills its buffer: its own replies go first.              *)
LoadReply == LoadFrom(FALSE, reply) /\ reply' = Tail(reply) /\ UNCHANGED <<kbdq, auxq>>
LoadKbd == /\ reply = << >> /\ ~KbdOff
           /\ LoadFrom(FALSE, kbdq) /\ kbdq' = Tail(kbdq) /\ UNCHANGED <<reply, auxq>>
LoadAux == /\ reply = << >> /\ ~AuxOff
           /\ LoadFrom(TRUE, auxq) /\ auxq' = Tail(auxq) /\ UNCHANGED <<reply, kbdq>>
Load == LoadReply \/ LoadKbd \/ LoadAux

(* Nothing the controller could still load is on its way.                  *)
Silent == reply = << >> /\ (kbdq = << >> \/ KbdOff) /\ (auxq = << >> \/ AuxOff)

(* inb(0x60): the last byte, whether or not it is new.  The buffer becomes *)
(* empty; the interrupt line falls, which takes an undelivered request     *)
(* with it unless it is latched.                                           *)
Data == obuf.byte.data
Emptied == [obuf EXCEPT !.full = FALSE]
LineOf == IF obuf.aux THEN Mouse12 ELSE Kbd
Dropped(requests) == IF obuf.full /\ "latch" \notin machine THEN requests \ {LineOf} ELSE requests

(* Commands to the mouse port (0xD4) and their acknowledge.                *)
MouseCommand(on) ==
  /\ streaming' = (on /\ "mouse" \in machine)
  /\ auxq' = IF "mouse" \in machine THEN Append(auxq, Plain8(ACK)) ELSE auxq
=============================================================================
