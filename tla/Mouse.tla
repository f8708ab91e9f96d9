------------------------------- MODULE Mouse -------------------------------
(***************************************************************************)
(* The PS/2 mouse driver, kernel/drivers/ps2_mouse.c.  mouse_init runs     *)
(* with interrupts off and polls the controller, one action per exchange;  *)
(* mouse_handler runs from IRQ12 with interrupts off, as one action.  The  *)
(* controller takes a command byte at once, so mouse_wait(1) never waits.  *)
(***************************************************************************)
EXTENDS I8042

CONSTANTS SCREEN_W, SCREEN_H     \* vbe_get_width(), vbe_get_height()

ASSUME MouseAssumption ==
  /\ SCREEN_W \in Nat \ {0}      \* vbe_init takes no size of 0 over
  /\ SCREEN_H \in Nat \ {0}

VARIABLES
  mi,              \* where mouse_init is
  status,          \* its local
  mouse_x, mouse_y, mouse_buttons,
  mouse_cycle,     \* how many bytes of a packet have been taken
  mouse_bytes      \* those bytes

posVars   == <<mouse_x, mouse_y, mouse_buttons>>
mouseVars == <<mi, status, posVars, mouse_cycle, mouse_bytes>>

InitPc == {"start", "askStatus", "readStatus", "writeStatus", "sendDefaults", "ackDefaults",
           "sendEnable", "ackEnable", "done"}

MouseTypeOK ==
  /\ mi \in InitPc
  /\ status \in 0 .. 255
  /\ mouse_x \in Nat
  /\ mouse_y \in Nat
  /\ mouse_buttons \in 0 .. 7
  /\ mouse_cycle \in 0 .. 2
  /\ mouse_bytes \in [0 .. 2 -> 0 .. 255]

MouseInit ==
  /\ mi = "start"
  /\ status = 0
  /\ mouse_x = 400
  /\ mouse_y = 300
  /\ mouse_buttons = 0
  /\ mouse_cycle = 0
  /\ mouse_bytes = [i \in 0 .. 2 |-> 0]

-----------------------------------------------------------------------------
(* mouse_init.                                                             *)

InitStep(from, to) ==
  /\ mi = from
  /\ mi' = to
  /\ UNCHANGED <<machine, mouse_bytes, isr>>

(* The pointer in the middle; command 0xA8 turns the mouse port on.        *)
EnableAux ==
  /\ InitStep("start", "askStatus")
  /\ mouse_x' = SCREEN_W \div 2
  /\ mouse_y' = SCREEN_H \div 2
  /\ mouse_buttons' = 0
  /\ mouse_cycle' = 0
  /\ ctl' = IF AuxOff THEN ctl - 32 ELSE ctl
  /\ UNCHANGED <<status, obuf, reply, kbdq, auxq, streaming, irr>>

(* Command 0x20: the controller will reply with its command byte.          *)
AskStatus ==
  /\ InitStep("askStatus", "readStatus")
  /\ reply' = Append(reply, Plain8(ctl))
  /\ UNCHANGED <<status, posVars, mouse_cycle, obuf, kbdq, auxq, ctl, streaming, irr>>

(* mouse_read: waits for a full buffer, gives up when none comes, and      *)
(* reads port 0x60 in either case.                                         *)
MutPoll ==             \* reads at once
  /\ obuf' = Emptied
  /\ irr' = Dropped(irr)
Poll ==
  /\ obuf.full \/ Silent \/ "slow" \in machine
  /\ obuf' = Emptied
  /\ irr' = Dropped(irr)

(* | 2: the mouse interrupt is turned on in what was read.                 *)
MutReadStatus ==       \* the bit is not set
  /\ InitStep("readStatus", "writeStatus")
  /\ Poll
  /\ status' = Data
  /\ UNCHANGED <<posVars, mouse_cycle, reply, kbdq, auxq, ctl, streaming>>
ReadStatus ==
  /\ InitStep("readStatus", "writeStatus")
  /\ Poll
  /\ status' = IF Bit(Data, 2) THEN Data ELSE Data + 2
  /\ UNCHANGED <<posVars, mouse_cycle, reply, kbdq, auxq, ctl, streaming>>

(* Command 0x60 stores it.                                                 *)
WriteStatus ==
  /\ InitStep("writeStatus", "sendDefaults")
  /\ ctl' = status
  /\ UNCHANGED <<status, posVars, mouse_cycle, obuf, reply, kbdq, auxq, streaming, irr>>

(* 0xF6: defaults, no reporting.  0xF4: reporting on.                      *)
SendDefaults ==
  /\ InitStep("sendDefaults", "ackDefaults")
  /\ MouseCommand(FALSE)
  /\ UNCHANGED <<status, posVars, mouse_cycle, obuf, reply, kbdq, ctl, irr>>
SendEnable ==
  /\ InitStep("sendEnable", "ackEnable")
  /\ MouseCommand(TRUE)
  /\ UNCHANGED <<status, posVars, mouse_cycle, obuf, reply, kbdq, ctl, irr>>

ReadAck(from, to) ==
  /\ InitStep(from, to)
  /\ Poll
  /\ UNCHANGED <<status, posVars, mouse_cycle, reply, kbdq, auxq, ctl, streaming>>
AckDefaults == ReadAck("ackDefaults", "sendEnable")
AckEnable   == ReadAck("ackEnable", "done")

mouse_init ==
  \/ EnableAux \/ AskStatus \/ ReadStatus \/ WriteStatus
  \/ SendDefaults \/ AckDefaults \/ SendEnable \/ AckEnable

-----------------------------------------------------------------------------
(* mouse_handler, for the byte inb(0x60) returned.                         *)

(* (int8_t)                                                                *)
Signed(v) == IF v < 128 THEN v ELSE v - 256

MutClamp(v, size) == IF v < 0 THEN 0 ELSE IF v > size THEN size ELSE v
Clamp(v, size) ==
  IF v < 0 THEN 0 ELSE IF v >= size THEN (IF size > 0 THEN size - 1 ELSE 0) ELSE v

MutFirstByte(d) ==     \* bit 3 is not looked at
  /\ mouse_cycle = 0
  /\ mouse_bytes' = [mouse_bytes EXCEPT ![0] = d]
  /\ mouse_cycle' = 1
  /\ UNCHANGED posVars
FirstByte(d) ==
  /\ mouse_cycle = 0
  /\ IF Bit(d, 8)
     THEN /\ mouse_bytes' = [mouse_bytes EXCEPT ![0] = d]
          /\ mouse_cycle' = 1
     ELSE UNCHANGED <<mouse_bytes, mouse_cycle>>
  /\ UNCHANGED posVars

SecondByte(d) ==
  /\ mouse_cycle = 1
  /\ mouse_bytes' = [mouse_bytes EXCEPT ![1] = d]
  /\ mouse_cycle' = 2
  /\ UNCHANGED posVars

(* The packet is complete: y grows downwards on the screen.                *)
MutThirdByte(d) ==     \* y is not inverted
  /\ mouse_cycle = 2
  /\ mouse_bytes' = [mouse_bytes EXCEPT ![2] = d]
  /\ mouse_cycle' = 0
  /\ mouse_x' = Clamp(mouse_x + Signed(mouse_bytes[1]), SCREEN_W)
  /\ mouse_y' = Clamp(mouse_y + Signed(d), SCREEN_H)
  /\ mouse_buttons' = mouse_bytes[0] % 8
MutThirdByteOn(d) ==     \* the counter is not put back to 0
  /\ mouse_cycle = 2
  /\ mouse_cycle' = 3
  /\ UNCHANGED <<mouse_bytes, posVars>>
ThirdByte(d) ==
  /\ mouse_cycle = 2
  /\ mouse_bytes' = [mouse_bytes EXCEPT ![2] = d]
  /\ mouse_cycle' = 0
  /\ mouse_x' = Clamp(mouse_x + Signed(mouse_bytes[1]), SCREEN_W)
  /\ mouse_y' = Clamp(mouse_y - Signed(d), SCREEN_H)
  /\ mouse_buttons' = mouse_bytes[0] % 8

mouse_handler(d) ==
  /\ FirstByte(d) \/ SecondByte(d) \/ ThirdByte(d)
  /\ UNCHANGED <<mi, status>>
=============================================================================
