---------------------------- MODULE KernelProofs ----------------------------
(***************************************************************************)
(* Theorems about the kernel as a whole: the boot's conversation with the  *)
(* mouse, the main loop, the three interrupt handlers and the devices, for *)
(* every ring size, screen, set of keys, movements and machines.           *)
(*                                                                         *)
(* The argument has two halves.  What SafeInv says holds whatever the      *)
(* person and the machine do.  The rest is about a boot nobody types into: *)
(* then the conversation of mouse_init has one answer on its way at a time *)
(* (Exchange), and behind the sti the bytes on their way to each driver    *)
(* are whole key strokes and whole packets but for the part the driver has *)
(* taken, so that driver and device agree (PlainCodes, Follows).  When     *)
(* somebody does type, or the machine latches or is slow, they may not;    *)
(* BackInv counts how many bytes are then still on their way to bring the  *)
(* mouse driver back.                                                      *)
(***************************************************************************)
EXTENDS Kernel, KeyboardProofs

-----------------------------------------------------------------------------
(* Whatever happens.                                                       *)

(* The position is on the screen from the moment the cursor has loaded it. *)
OnScreen ==
  /\ mi # "start" => mouse_x < SCREEN_W /\ mouse_y < SCREEN_H
  /\ main \in {"loadY", "loadButtons", "swap", "halted"} => cursor.x < SCREEN_W
  /\ main \in {"loadButtons", "swap", "halted"} => cursor.y < SCREEN_H

SafeInv ==
  /\ TypeOK /\ RingInv /\ GetNeverEmpty /\ RequestsHaveBytes
  /\ AllAcknowledged /\ OnScreen
  /\ main # "boot" => mi = "done"

(* What a step does not touch keeps its part of the invariant.             *)
LEMMA IdleDriver ==
  ASSUME SafeInv, UNCHANGED <<kbdVars, rdVars>>
  PROVE  RingInv' /\ GetNeverEmpty'
<1>1. RingInv'
  BY IdleRing DEF SafeInv
<1> QED BY <1>1 DEF SafeInv, GetNeverEmpty, At, rdVars

LEMMA IdleIo ==
  ASSUME TypeOK, UNCHANGED ioVars
  PROVE  I8042TypeOK'
BY DEF TypeOK, I8042TypeOK, ioVars

LEMMA IdleMouse ==
  ASSUME SafeInv, UNCHANGED mouseVars
  PROVE  /\ MouseTypeOK'
         /\ mi' # "start" => mouse_x' < SCREEN_W /\ mouse_y' < SCREEN_H
BY DEF SafeInv, TypeOK, MouseTypeOK, OnScreen, mouseVars, posVars

LEMMA IdleMain ==
  ASSUME SafeInv, UNCHANGED mainVars
  PROVE  /\ main' \in MainPc /\ cursor' \in [x : Nat, y : Nat, buttons : 0 .. 7]
         /\ handled' \in Seq(Char)
         /\ main' \in {"loadY", "loadButtons", "swap", "halted"} => cursor'.x < SCREEN_W
         /\ main' \in {"loadButtons", "swap", "halted"} => cursor'.y < SCREEN_H
BY DEF SafeInv, TypeOK, OnScreen, mainVars

LEMMA IdlePerson ==
  ASSUME TypeOK, UNCHANGED personVars
  PROVE  /\ typed' \in Seq(Char) /\ moved' \in 0 .. MaxActs
         /\ pointer' \in [x : Nat, y : Nat, buttons : 0 .. 7]
BY DEF TypeOK, personVars

(* The byte read from port 0x60, and the buffer behind it.                 *)
LEMMA PortType ==
  ASSUME TypeOK
  PROVE  /\ obuf \in [full : BOOLEAN, aux : BOOLEAN, byte : Byte]
         /\ obuf.byte \in Byte /\ Data \in 0 .. 255
         /\ Emptied \in [full : BOOLEAN, aux : BOOLEAN, byte : Byte]
         /\ ~Emptied.full /\ Emptied.aux = obuf.aux
<1>1. obuf \in [full : BOOLEAN, aux : BOOLEAN, byte : Byte]
  BY DEF TypeOK, I8042TypeOK
<1>2. obuf.byte \in Byte
  BY <1>1
<1>3. Data \in 0 .. 255
  BY <1>2 DEF Data, Byte
<1> HIDE DEF Byte
<1> QED BY <1>1, <1>2, <1>3 DEF Emptied

(* A read of the port takes with it the requests for what it has read.     *)
LEMMA DroppedRequests ==
  ASSUME TypeOK, RequestsHaveBytes, NEW requests \in SUBSET irr,
         irr' = Dropped(requests), obuf' = Emptied, machine' = machine
  PROVE  irr' \subseteq Line /\ RequestsHaveBytes'
<1>1. irr' \subseteq irr /\ irr \subseteq Line
  BY DEF Dropped, TypeOK, PicTypeOK
<1>2. ASSUME "latch" \notin machine
      PROVE  Kbd \notin irr' /\ Mouse12 \notin irr'
  <2>1. Kbd # Mouse12
    BY DEF Kbd, Mouse12
  <2>2. CASE obuf.full
    <3>1. irr' = requests \ {LineOf}
      BY <1>2, <2>2 DEF Dropped
    <3> QED BY <1>2, <2>1, <3>1 DEF RequestsHaveBytes, LineOf
  <2>3. CASE ~obuf.full
    BY <1>1, <1>2, <2>3 DEF RequestsHaveBytes
  <2> QED BY <2>2, <2>3
<1> QED BY <1>1, <1>2 DEF RequestsHaveBytes

(* An exchange of mouse_init.                                              *)
LEMMA BootMouseSafe ==
  ASSUME SafeInv, BootMouse
  PROVE  SafeInv'
<1> DEFINE Good == /\ I8042TypeOK' /\ MouseTypeOK'
                   /\ irr' \subseteq Line /\ RequestsHaveBytes'
                   /\ mi' # "start" => mouse_x' < SCREEN_W /\ mouse_y' < SCREEN_H
<1>0. /\ TypeOK /\ I8042TypeOK /\ MouseTypeOK /\ irr \subseteq Line /\ RequestsHaveBytes /\ OnScreen
      /\ isr = {} /\ main = "boot"
  BY DEF SafeInv, TypeOK, PicTypeOK, AllAcknowledged, BootMouse
<1>1. /\ UNCHANGED <<kbdVars, rdVars, ticks, mainVars, personVars>>
      /\ machine' = machine /\ isr' = isr /\ mouse_bytes' = mouse_bytes /\ mi' \in InitPc
  BY DEF BootMouse, mouse_init, EnableAux, AskStatus, ReadStatus, WriteStatus, SendDefaults,
         SendEnable, AckDefaults, AckEnable, ReadAck, InitStep, InitPc
<1>2. \A b \in 0 .. 255 : Plain8(b) \in Byte
  BY DEF Plain8, Byte
<1>3. ASSUME EnableAux PROVE Good
  <2>1. /\ UNCHANGED <<status, obuf, reply, kbdq, auxq, streaming, irr>>
        /\ mouse_x' = SCREEN_W \div 2 /\ mouse_y' = SCREEN_H \div 2
        /\ mouse_buttons' = 0 /\ mouse_cycle' = 0
        /\ ctl' = IF AuxOff THEN ctl - 32 ELSE ctl
    BY <1>3 DEF EnableAux
  <2>2. ctl' \in 0 .. 255
    BY <1>0, <2>1 DEF AuxOff, Bit, I8042TypeOK
  <2>3. /\ mouse_x' \in Nat /\ mouse_y' \in Nat
        /\ mouse_x' < SCREEN_W /\ mouse_y' < SCREEN_H
    BY <2>1, MouseAssumption
  <2>4. I8042TypeOK'
    BY <1>0, <1>1, <2>1, <2>2 DEF I8042TypeOK
  <2>5. MouseTypeOK'
    BY <1>0, <1>1, <2>1, <2>3 DEF MouseTypeOK
  <2> QED BY <1>0, <1>1, <2>1, <2>3, <2>4, <2>5 DEF RequestsHaveBytes
<1>4. ASSUME UNCHANGED <<posVars, mouse_cycle, obuf, kbdq, irr>>, mi # "start",
             reply' \in Seq(Byte), auxq' \in Seq(Byte),
             status' \in 0 .. 255, ctl' \in 0 .. 255, streaming' \in BOOLEAN
      PROVE  Good
  <2>1. I8042TypeOK'
    BY <1>0, <1>1, <1>4 DEF I8042TypeOK
  <2>2. MouseTypeOK'
    BY <1>0, <1>1, <1>4 DEF MouseTypeOK, posVars
  <2> QED BY <1>0, <1>1, <1>4, <2>1, <2>2 DEF RequestsHaveBytes, OnScreen, posVars
<1>5. ASSUME AskStatus PROVE Good
  <2>1. reply' \in Seq(Byte)
    <3>1. Plain8(ctl) \in Byte /\ reply \in Seq(Byte)
      BY <1>0, <1>2 DEF I8042TypeOK
    <3> HIDE DEF Byte
    <3> QED BY <1>5, <3>1 DEF AskStatus
  <2> QED BY <1>0, <1>4, <1>5, <2>1 DEF AskStatus, I8042TypeOK, MouseTypeOK, InitStep
<1>6. ASSUME WriteStatus PROVE Good
  BY <1>0, <1>4, <1>6 DEF WriteStatus, I8042TypeOK, MouseTypeOK, InitStep
<1>7. ASSUME SendDefaults \/ SendEnable PROVE Good
  <2>1. auxq' \in Seq(Byte) /\ streaming' \in BOOLEAN
    <3>1. PICK on \in BOOLEAN : MouseCommand(on)
      BY <1>7 DEF SendDefaults, SendEnable
    <3>2. Plain8(ACK) \in Byte
      BY <1>2 DEF ACK
    <3> QED BY <1>0, <3>1, <3>2 DEF MouseCommand, I8042TypeOK
  <2> QED BY <1>0, <1>4, <1>7, <2>1, ZenonT(60) DEF SendDefaults, SendEnable, I8042TypeOK, MouseTypeOK, InitStep
<1>8. ASSUME Poll, UNCHANGED <<posVars, mouse_cycle, reply, kbdq, auxq, ctl, streaming>>,
             mi # "start", status' \in 0 .. 255
      PROVE  Good
  <2>1. obuf' = Emptied /\ irr' = Dropped(irr)
    BY <1>8 DEF Poll
  <2>2. irr' \subseteq Line /\ RequestsHaveBytes'
    BY <1>0, <1>1, <2>1, DroppedRequests
  <2>3. I8042TypeOK'
    BY <1>0, <1>1, <1>8, <2>1, PortType DEF I8042TypeOK
  <2>4. MouseTypeOK'
    BY <1>0, <1>1, <1>8 DEF MouseTypeOK, posVars
  <2> QED BY <1>0, <1>8, <2>2, <2>3, <2>4 DEF OnScreen, posVars
<1>9. ASSUME ReadStatus PROVE Good
  <2>1. Data \in 0 .. 255
    BY <1>0, PortType
  <2>2. status' = IF Bit(Data, 2) THEN Data ELSE Data + 2
    BY <1>9 DEF ReadStatus
  <2>3. status' \in 0 .. 255
    BY <2>1, <2>2 DEF Bit
  <2> QED BY <1>8, <1>9, <2>3 DEF ReadStatus, InitStep
<1>10. ASSUME AckDefaults \/ AckEnable PROVE Good
  BY <1>0, <1>8, <1>10 DEF AckDefaults, AckEnable, ReadAck, InitStep, MouseTypeOK
<1>11. Good
  BY <1>3, <1>5, <1>6, <1>7, <1>9, <1>10 DEF BootMouse, mouse_init
<1>12. acks' \in Seq(0 .. 255)
  <2>1. Data \in 0 .. 255 /\ acks \in Seq(0 .. 255)
    BY <1>0, PortType DEF TypeOK
  <2>2. acks' = IF mi \in {"ackDefaults", "ackEnable"} THEN Append(acks, Data) ELSE acks
    BY DEF BootMouse
  <2>3. Append(acks, Data) \in Seq(0 .. 255)
    BY <2>1
  <2> QED BY <2>1, <2>2, <2>3
<1>13. PicTypeOK' /\ AllAcknowledged'
  BY <1>0, <1>1, <1>11 DEF PicTypeOK, AllAcknowledged
<1>14. TypeOK'
  <2>1. KeyboardTypeOK' /\ PitTypeOK'
    BY <1>1, IdleDriver DEF RingInv, SafeInv, TypeOK, PitTypeOK
  <2> QED BY <1>0, <1>1, <1>11, <1>12, <1>13, <2>1, IdleMain, IdlePerson DEF TypeOK
<1>15. OnScreen' /\ main' = "boot"
  BY <1>0, <1>1, <1>11 DEF OnScreen, mainVars
<1> QED BY <1>1, <1>11, <1>13, <1>14, <1>15, IdleDriver DEF SafeInv

LEMMA StiSafe ==
  ASSUME SafeInv, Sti
  PROVE  SafeInv'
<1>1. /\ UNCHANGED <<kbdVars, rdVars, picVars, ioVars, mouseVars, ticks, cursor, handled, personVars, acks>>
      /\ main' = "frame" /\ mi' = "done"
  BY DEF Sti, mouseVars
<1>2. TypeOK'
  <2>1. KeyboardTypeOK' /\ PitTypeOK' /\ PicTypeOK'
    BY <1>1, IdleDriver DEF RingInv, SafeInv, TypeOK, PitTypeOK, PicTypeOK, picVars
  <2> QED BY <1>1, <2>1, IdleIo, IdleMouse, IdlePerson DEF SafeInv, TypeOK, MainPc
<1>3. RequestsHaveBytes' /\ AllAcknowledged' /\ OnScreen'
  BY <1>1, IdleMouse DEF SafeInv, RequestsHaveBytes, AllAcknowledged, OnScreen, picVars, ioVars
<1> QED BY <1>1, <1>2, <1>3, IdleDriver DEF SafeInv

(* What a step of the main loop leaves alone, and what it does to the      *)
(* driver: a step of the reader or nothing.                                *)
LEMMA MainStepDriver ==
  ASSUME MainStep
  PROVE  /\ UNCHANGED Elsewhere
         /\ main # "boot" /\ main' \in MainPc \ {"boot"}
         /\ StartDrain \/ ReaderStep \/ Used \/ UNCHANGED <<kbdVars, rdVars>>
BY DEF MainStep, BeginFrame, Drain, Dispatch, LoadX, LoadY, LoadButtons, CursorLoad, Halt, MainPc

LEMMA MainStepSafe ==
  ASSUME SafeInv, MainStep
  PROVE  SafeInv'
<1>1. /\ UNCHANGED Elsewhere /\ main' \in MainPc /\ main # "boot" /\ mi = "done"
      /\ UNCHANGED <<picVars, ioVars, mouseVars, ticks, personVars, acks>>
  BY MainStepDriver DEF SafeInv, Elsewhere
<1>2. RingInv' /\ GetNeverEmpty'
  <2>1. RingInv
    BY DEF SafeInv
  <2>2. CASE StartDrain \/ ReaderStep \/ Used
    BY <2>1, <2>2, ReaderRing, ReaderGetsChar
  <2>3. CASE UNCHANGED <<kbdVars, rdVars>>
    BY <2>3, IdleDriver
  <2> QED BY <2>2, <2>3, MainStepDriver
<1>3. handled' \in Seq(Char)
  <2>1. handled \in Seq(Char) /\ got \in Char \cup {NUL}
    BY DEF SafeInv, TypeOK, KeyboardTypeOK
  <2>2. handled' = handled \/ (got # NUL /\ handled' = Append(handled, got))
    BY DEF MainStep, BeginFrame, Drain, Dispatch, LoadX, LoadY, LoadButtons, CursorLoad, Halt
  <2> QED BY <2>1, <2>2
<1>4. mi' = "done" /\ mouse_x' < SCREEN_W /\ mouse_y' < SCREEN_H /\ MouseTypeOK'
  BY <1>1, IdleMouse DEF mouseVars
<1>5. /\ cursor' \in [x : Nat, y : Nat, buttons : 0 .. 7]
      /\ main' \in {"loadY", "loadButtons", "swap", "halted"} => cursor'.x < SCREEN_W
      /\ main' \in {"loadButtons", "swap", "halted"} => cursor'.y < SCREEN_H
  <2>1. /\ cursor \in [x : Nat, y : Nat, buttons : 0 .. 7]
        /\ mouse_x \in Nat /\ mouse_y \in Nat /\ mouse_buttons \in 0 .. 7
        /\ mouse_x < SCREEN_W /\ mouse_y < SCREEN_H
        /\ main \in {"loadY", "loadButtons", "swap", "halted"} => cursor.x < SCREEN_W
        /\ main \in {"loadButtons", "swap", "halted"} => cursor.y < SCREEN_H
    BY <1>1 DEF SafeInv, OnScreen, TypeOK, MouseTypeOK
  <2>2. CASE LoadX
    BY <2>1, <2>2 DEF LoadX, CursorLoad
  <2>3. CASE LoadY
    BY <2>1, <2>3 DEF LoadY, CursorLoad
  <2>4. CASE LoadButtons
    BY <2>1, <2>4 DEF LoadButtons, CursorLoad
  <2>5. CASE Halt
    BY <2>1, <2>5 DEF Halt
  <2>6. CASE BeginFrame \/ Drain \/ Dispatch
    BY <2>1, <2>6 DEF BeginFrame, Drain, Dispatch
  <2> QED BY <2>2, <2>3, <2>4, <2>5, <2>6 DEF MainStep
<1>6. TypeOK'
  <2>1. KeyboardTypeOK' /\ PitTypeOK' /\ PicTypeOK'
    BY <1>1, <1>2 DEF RingInv, SafeInv, TypeOK, PitTypeOK, PicTypeOK, picVars
  <2> QED BY <1>1, <1>3, <1>4, <1>5, <2>1, IdleIo, IdlePerson DEF SafeInv, TypeOK
<1>7. RequestsHaveBytes' /\ AllAcknowledged' /\ OnScreen'
  BY <1>1, <1>4, <1>5 DEF SafeInv, RequestsHaveBytes, AllAcknowledged, OnScreen, picVars, ioVars
<1> QED BY <1>2, <1>4, <1>6, <1>7 DEF SafeInv

-----------------------------------------------------------------------------
(* Interrupts.                                                             *)

(* Each handler's EOIs end what was put in service, on every chip it was   *)
(* put in service on.                                                      *)
LEMMA EoiEndsService ==
  ASSUME isr = {}
  PROVE  /\ EoiMaster(InService(Timer)) = {}
         /\ EoiMaster(InService(Kbd)) = {}
         /\ EoiMaster(EoiSlave(InService(Mouse12))) = {}
<1>1. /\ InService(Timer) = {0} /\ InService(Kbd) = {1} /\ InService(Mouse12) = {2, 12}
  BY DEF InService, MasterOf, Timer, Kbd, Mouse12, Cascade
<1>2. EoiSlave({2, 12}) = {2}
  BY DEF EoiSlave
<1>3. \A n \in 0 .. 7 : EoiMaster({n}) = {}
  BY DEF EoiMaster
<1> QED BY <1>1, <1>2, <1>3

(* What all interrupts do to the main loop.                                *)
LEMMA InterruptMain ==
  ASSUME SafeInv, NEW n, Interrupt(n)
  PROVE  /\ main # "boot" /\ main' # "boot" /\ main' \in MainPc /\ mi = "done"
         /\ cursor' = cursor /\ handled' = handled /\ UNCHANGED personVars /\ acks' = acks
         /\ main' \in {"loadY", "loadButtons", "swap", "halted"} => cursor'.x < SCREEN_W
         /\ main' \in {"loadButtons", "swap", "halted"} => cursor'.y < SCREEN_H
         /\ n \in irr
BY DEF Interrupt, SafeInv, OnScreen, TypeOK, MainPc, Taken, Deliverable

(* The buffer and the requests behind a handler that has read the port.    *)
LEMMA ReadPortSafe ==
  ASSUME SafeInv, NEW n, ReadPort(n)
  PROVE  I8042TypeOK' /\ irr' \subseteq Line /\ RequestsHaveBytes'
<1>1. /\ obuf' = Emptied /\ irr' = Dropped(irr \ {n})
      /\ UNCHANGED <<machine, reply, kbdq, auxq, ctl, streaming>>
  BY DEF ReadPort
<1>2. I8042TypeOK'
  BY <1>1, PortType DEF SafeInv, TypeOK, I8042TypeOK
<1>3. irr' \subseteq Line /\ RequestsHaveBytes'
  <2>1. irr \ {n} \in SUBSET irr
    OBVIOUS
  <2> QED BY <1>1, <2>1, DroppedRequests DEF SafeInv
<1> QED BY <1>2, <1>3

LEMMA Irq0Safe ==
  ASSUME SafeInv, Irq0
  PROVE  SafeInv'
<1>1. /\ Interrupt(Timer) /\ pit_handler
      /\ irr' = irr \ {Timer} /\ isr' = EoiMaster(InService(Timer))
      /\ UNCHANGED <<kbdVars, rdVars, ioVars, mouseVars>>
  BY DEF Irq0
<1>2. PicTypeOK' /\ RequestsHaveBytes' /\ AllAcknowledged'
  BY <1>1, EoiEndsService
     DEF SafeInv, TypeOK, PicTypeOK, AllAcknowledged, RequestsHaveBytes, ioVars
<1>3. PitTypeOK'
  BY <1>1, TicksAssumption DEF SafeInv, TypeOK, PitTypeOK, pit_handler
<1>4. TypeOK'
  BY <1>1, <1>2, <1>3, InterruptMain, IdleDriver, IdleIo, IdleMouse, IdlePerson
     DEF SafeInv, TypeOK, RingInv
<1>5. OnScreen' /\ mi' = "done"
  BY <1>1, InterruptMain, IdleMouse DEF OnScreen, mouseVars
<1> QED BY <1>1, <1>2, <1>4, <1>5, IdleDriver DEF SafeInv

LEMMA Irq1Safe ==
  ASSUME SafeInv, Irq1
  PROVE  SafeInv'
<1>1. /\ Interrupt(Kbd) /\ ReadPort(Kbd) /\ keyboard_handler(Data)
      /\ isr' = EoiMaster(InService(Kbd))
      /\ UNCHANGED <<mouseVars, ticks>>
  BY DEF Irq1
<1>2. PicTypeOK' /\ RequestsHaveBytes' /\ AllAcknowledged' /\ I8042TypeOK'
  BY <1>1, EoiEndsService, ReadPortSafe DEF SafeInv, PicTypeOK, AllAcknowledged
<1>3. RingInv' /\ GetNeverEmpty'
  <2>1. Data \in Scancode
    BY PortType DEF SafeInv, Scancode
  <2>2. RingInv'
    BY <1>1, <2>1, HandlerRing DEF SafeInv
  <2>3. GetNeverEmpty'
    BY <1>1 DEF SafeInv, GetNeverEmpty, At, keyboard_handler
  <2> QED BY <2>2, <2>3
<1>4. TypeOK'
  <2>1. KeyboardTypeOK' /\ PitTypeOK'
    BY <1>1, <1>3 DEF SafeInv, TypeOK, RingInv, PitTypeOK
  <2> QED BY <1>1, <1>2, <2>1, InterruptMain, IdleMouse, IdlePerson DEF SafeInv, TypeOK
<1>5. OnScreen' /\ mi' = "done"
  BY <1>1, InterruptMain, IdleMouse DEF OnScreen, mouseVars
<1> QED BY <1>2, <1>3, <1>4, <1>5 DEF SafeInv

(* A position is clamped to the screen, a packet counted from 0 to 2.      *)
LEMMA MouseHandlerSafe ==
  ASSUME SafeInv, NEW d \in 0 .. 255, mouse_handler(d), mi = "done"
  PROVE  MouseTypeOK' /\ mi' = "done" /\ mouse_x' < SCREEN_W /\ mouse_y' < SCREEN_H
<1>1. MouseTypeOK /\ mouse_x < SCREEN_W /\ mouse_y < SCREEN_H
  BY DEF SafeInv, TypeOK, OnScreen
<1>2. UNCHANGED <<mi, status>>
  BY DEF mouse_handler
<1>3. CASE FirstByte(d) \/ SecondByte(d)
  BY <1>1, <1>2, <1>3 DEF FirstByte, SecondByte, MouseTypeOK, posVars
<1>4. CASE ThirdByte(d)
  <2>1. /\ mouse_bytes' = [mouse_bytes EXCEPT ![2] = d] /\ mouse_cycle' = 0
        /\ mouse_x' = Clamp(mouse_x + Signed(mouse_bytes[1]), SCREEN_W)
        /\ mouse_y' = Clamp(mouse_y - Signed(d), SCREEN_H)
        /\ mouse_buttons' = mouse_bytes[0] % 8
    BY <1>4 DEF ThirdByte
  <2>2. ASSUME NEW v \in Int, NEW size \in Nat \ {0}
        PROVE  Clamp(v, size) \in Nat /\ Clamp(v, size) < size
    BY DEF Clamp
  <2>3. /\ mouse_x + Signed(mouse_bytes[1]) \in Int /\ mouse_y - Signed(d) \in Int
        /\ mouse_bytes[0] % 8 \in 0 .. 7
    BY <1>1 DEF MouseTypeOK, Signed
  <2>4. /\ mouse_x' \in Nat /\ mouse_x' < SCREEN_W
        /\ mouse_y' \in Nat /\ mouse_y' < SCREEN_H
    BY <2>1, <2>2, <2>3, MouseAssumption
  <2> QED BY <1>1, <1>2, <2>1, <2>3, <2>4 DEF MouseTypeOK
<1> QED BY <1>3, <1>4 DEF mouse_handler

LEMMA Irq12Safe ==
  ASSUME SafeInv, Irq12
  PROVE  SafeInv'
<1>1. /\ Interrupt(Mouse12) /\ ReadPort(Mouse12) /\ mouse_handler(Data)
      /\ isr' = EoiMaster(EoiSlave(InService(Mouse12)))
      /\ UNCHANGED <<kbdVars, rdVars, ticks>>
  BY DEF Irq12
<1>2. PicTypeOK' /\ RequestsHaveBytes' /\ AllAcknowledged' /\ I8042TypeOK'
  BY <1>1, EoiEndsService, ReadPortSafe DEF SafeInv, PicTypeOK, AllAcknowledged
<1>3. MouseTypeOK' /\ mi' = "done" /\ mouse_x' < SCREEN_W /\ mouse_y' < SCREEN_H
  <2>1. Data \in 0 .. 255
    BY PortType DEF SafeInv
  <2> QED BY <1>1, <2>1, InterruptMain, MouseHandlerSafe
<1>4. TypeOK'
  <2>1. KeyboardTypeOK' /\ PitTypeOK'
    BY <1>1, IdleDriver DEF SafeInv, TypeOK, RingInv, PitTypeOK
  <2> QED BY <1>1, <1>2, <1>3, <2>1, InterruptMain, IdlePerson DEF SafeInv, TypeOK
<1>5. OnScreen'
  BY <1>1, <1>3, InterruptMain DEF OnScreen
<1> QED BY <1>1, <1>2, <1>3, <1>4, <1>5, IdleDriver DEF SafeInv

-----------------------------------------------------------------------------
(* The devices and the person.                                             *)

(* What the software has of the invariant when only the hardware moves.    *)
LEMMA IdleSoftware ==
  ASSUME SafeInv, UNCHANGED Software
  PROVE  /\ RingInv' /\ GetNeverEmpty' /\ MouseTypeOK' /\ PitTypeOK' /\ OnScreen'
         /\ main' \in MainPc /\ cursor' \in [x : Nat, y : Nat, buttons : 0 .. 7]
         /\ handled' \in Seq(Char) /\ acks' \in Seq(0 .. 255)
         /\ main' = main /\ mi' = mi
<1>1. UNCHANGED <<kbdVars, rdVars, mouseVars, ticks, mainVars, acks>>
  BY DEF Software
<1> QED BY <1>1, IdleDriver, IdleMouse, IdleMain
        DEF SafeInv, TypeOK, PitTypeOK, OnScreen, mouseVars, mainVars

LEMMA TickSafe ==
  ASSUME SafeInv, Tick
  PROVE  SafeInv'
<1>1. /\ irr' = irr \cup {Timer}
      /\ UNCHANGED Software /\ UNCHANGED ioVars /\ isr' = isr /\ UNCHANGED personVars
  BY DEF Tick
<1>2. PicTypeOK' /\ AllAcknowledged' /\ RequestsHaveBytes'
  BY <1>1 DEF SafeInv, TypeOK, PicTypeOK, AllAcknowledged, RequestsHaveBytes, ioVars, Line, Timer,
              Kbd, Mouse12
<1>3. TypeOK'
  BY <1>1, <1>2, IdleSoftware, IdleIo, IdlePerson DEF SafeInv, TypeOK, RingInv
<1> QED BY <1>1, <1>2, <1>3, IdleSoftware DEF SafeInv

(* A byte that is loaded raises the request of its device.                 *)
LEMMA LoadFromSafe ==
  ASSUME SafeInv, NEW aux \in BOOLEAN, NEW q \in Seq(Byte), LoadFrom(aux, q)
  PROVE  /\ obuf' \in [full : BOOLEAN, aux : BOOLEAN, byte : Byte]
         /\ irr' \subseteq Line /\ RequestsHaveBytes'
         /\ UNCHANGED <<machine, isr, ctl, streaming>>
<1>1. /\ ~obuf.full /\ q # << >>
      /\ obuf' = [full |-> TRUE, aux |-> aux, byte |-> Head(q)]
      /\ irr' = irr \cup (IF aux /\ AuxInt THEN {Mouse12} ELSE {})
                    \cup (IF ~aux /\ KbdInt THEN {Kbd} ELSE {})
      /\ UNCHANGED <<machine, isr, ctl, streaming>>
  BY DEF LoadFrom
<1> HIDE DEF Byte
<1>2. Head(q) \in Byte
  BY <1>1
<1>3. irr \subseteq Line
  BY DEF SafeInv, TypeOK, PicTypeOK
<1>4. obuf'.full /\ obuf'.aux = aux
  BY <1>1
<1>5. ASSUME "latch" \notin machine
      PROVE  Kbd \notin irr /\ Mouse12 \notin irr
  BY <1>1, <1>5 DEF SafeInv, RequestsHaveBytes
<1>6. RequestsHaveBytes'
  BY <1>1, <1>4, <1>5 DEF RequestsHaveBytes, Kbd, Mouse12
<1> QED BY <1>1, <1>2, <1>3, <1>6 DEF Line

LEMMA LoadByteSafe ==
  ASSUME SafeInv, LoadByte
  PROVE  SafeInv'
<1>1. Load /\ UNCHANGED Software /\ UNCHANGED personVars
  BY DEF LoadByte
<1>2. reply \in Seq(Byte) /\ kbdq \in Seq(Byte) /\ auxq \in Seq(Byte)
  BY DEF SafeInv, TypeOK, I8042TypeOK
<1>3. PICK aux \in BOOLEAN, q \in {reply, kbdq, auxq} : LoadFrom(aux, q)
  BY <1>1 DEF Load, LoadReply, LoadKbd, LoadAux
<1>4. /\ obuf' \in [full : BOOLEAN, aux : BOOLEAN, byte : Byte]
      /\ irr' \subseteq Line /\ RequestsHaveBytes'
      /\ UNCHANGED <<machine, isr, ctl, streaming>>
  BY <1>2, <1>3, LoadFromSafe
<1>5. reply' \in Seq(Byte) /\ kbdq' \in Seq(Byte) /\ auxq' \in Seq(Byte)
  <2> HIDE DEF Byte
  <2>1. ASSUME NEW queue \in Seq(Byte), queue # << >>
        PROVE  Tail(queue) \in Seq(Byte)
    BY <2>1
  <2>2. CASE LoadReply
    <3>1. reply' = Tail(reply) /\ reply # << >> /\ UNCHANGED <<kbdq, auxq>>
      BY <2>2 DEF LoadReply, LoadFrom
    <3> QED BY <1>2, <2>1, <3>1
  <2>3. CASE LoadKbd
    <3>1. kbdq' = Tail(kbdq) /\ kbdq # << >> /\ UNCHANGED <<reply, auxq>>
      BY <2>3 DEF LoadKbd, LoadFrom
    <3> QED BY <1>2, <2>1, <3>1
  <2>4. CASE LoadAux
    <3>1. auxq' = Tail(auxq) /\ auxq # << >> /\ UNCHANGED <<reply, kbdq>>
      BY <2>4 DEF LoadAux, LoadFrom
    <3> QED BY <1>2, <2>1, <3>1
  <2> QED BY <1>1, <2>2, <2>3, <2>4 DEF Load
<1>6. I8042TypeOK' /\ PicTypeOK' /\ AllAcknowledged'
  BY <1>4, <1>5 DEF SafeInv, TypeOK, I8042TypeOK, PicTypeOK, AllAcknowledged
<1>7. TypeOK'
  BY <1>1, <1>6, IdleSoftware, IdlePerson DEF SafeInv, TypeOK, RingInv
<1> QED BY <1>1, <1>4, <1>6, <1>7, IdleSoftware DEF SafeInv

(* A key of the person means a character, and its codes are bytes.         *)
LEMMA KeyType ==
  ASSUME NEW k \in Keys
  PROVE  /\ k \in 0 .. 127 /\ k \notin ShiftMake /\ k + 128 # E0
         /\ Unshifted[k] \in Char /\ Unshifted[k] # NUL
         /\ Plain8(k) \in Byte /\ Plain8(k + 128) \in Byte
<1>1. /\ k \in 0 .. 127 /\ k \notin ShiftMake /\ k # E0 - 128 /\ Unshifted[k] # NUL
  BY KernelAssumption
<1>2. Unshifted[k] \in Char
  BY <1>1, TableAssumption
<1>3. Plain8(k) \in Byte /\ Plain8(k + 128) \in Byte
  BY <1>1 DEF Plain8, Byte
<1> QED BY <1>1, <1>2, <1>3, TableAssumption DEF E0

LEMMA TypeKeySafe ==
  ASSUME SafeInv, NEW k \in Keys, TypeKey(k)
  PROVE  SafeInv'
<1>1. /\ typed' = Append(typed, Unshifted[k])
      /\ kbdq' = kbdq \o <<Plain8(k), Plain8(k + 128)>>
      /\ UNCHANGED Software /\ UNCHANGED picVars
      /\ UNCHANGED <<machine, obuf, reply, auxq, ctl, streaming, moved, pointer>>
  BY DEF TypeKey
<1>2. typed' \in Seq(Char)
  BY <1>1, KeyType DEF SafeInv, TypeOK
<1>3. kbdq' \in Seq(Byte)
  <2>1. kbdq \in Seq(Byte) /\ Plain8(k) \in Byte /\ Plain8(k + 128) \in Byte
    BY KeyType DEF SafeInv, TypeOK, I8042TypeOK
  <2> DEFINE a == Plain8(k)  b == Plain8(k + 128)
  <2> HIDE DEF Byte, a, b
  <2>2. <<a, b>> \in Seq(Byte)
    BY <2>1 DEF a, b
  <2>3. kbdq' = kbdq \o <<a, b>>
    BY <1>1 DEF a, b
  <2> QED BY <2>1, <2>2, <2>3
<1>4. I8042TypeOK' /\ PicTypeOK' /\ AllAcknowledged' /\ RequestsHaveBytes'
  BY <1>1, <1>3 DEF SafeInv, TypeOK, I8042TypeOK, PicTypeOK, AllAcknowledged, RequestsHaveBytes, picVars
<1>5. TypeOK'
  BY <1>1, <1>2, <1>4, IdleSoftware DEF SafeInv, TypeOK, RingInv
<1> QED BY <1>1, <1>4, <1>5, IdleSoftware DEF SafeInv

(* The bytes of a report.                                                  *)
LEMMA PacketType ==
  ASSUME NEW dx \in -127 .. 127, NEW dy \in -127 .. 127, NEW b \in 0 .. 7
  PROVE  /\ Packet(dx, dy, b) \in Seq(Byte)
         /\ \A i \in 1 .. 3 : Packet(dx, dy, b)[i] \in Byte
<1> DEFINE f == 8 + b + (IF dx < 0 THEN 16 ELSE 0) + (IF dy < 0 THEN 32 ELSE 0)
           p1 == [data |-> f, pos |-> 1]
           p2 == [data |-> dx % 256, pos |-> 2]
           p3 == [data |-> dy % 256, pos |-> 3]
<1>1. f \in 0 .. 255 /\ dx % 256 \in 0 .. 255 /\ dy % 256 \in 0 .. 255
  OBVIOUS
<1>2. p1 \in Byte /\ p2 \in Byte /\ p3 \in Byte
  BY <1>1 DEF Byte
<1>3. Packet(dx, dy, b) = <<p1, p2, p3>>
  BY DEF Packet
<1> HIDE DEF p1, p2, p3, Byte
<1> QED BY <1>2, <1>3

LEMMA MoveMouseSafe ==
  ASSUME SafeInv, NEW m \in Moves, MoveMouse(m[1], m[2], m[3])
  PROVE  SafeInv'
<1>1. m[1] \in -127 .. 127 /\ m[2] \in -127 .. 127 /\ m[3] \in 0 .. 7
  BY KernelAssumption
<1> DEFINE p == Packet(m[1], m[2], m[3])
<1>2. /\ MayAct /\ moved' = moved + 1 /\ auxq' = auxq \o p
      /\ pointer' = [x |-> Within(pointer.x + m[1], SCREEN_W),
                     y |-> Within(pointer.y - m[2], SCREEN_H),
                     buttons |-> m[3]]
      /\ UNCHANGED Software /\ UNCHANGED picVars
      /\ UNCHANGED <<machine, obuf, reply, kbdq, ctl, streaming, typed>>
  BY DEF MoveMouse
<1>3. auxq' \in Seq(Byte)
  <2>1. auxq \in Seq(Byte) /\ p \in Seq(Byte)
    BY <1>1, PacketType DEF SafeInv, TypeOK, I8042TypeOK
  <2> HIDE DEF Byte, p
  <2> QED BY <1>2, <2>1
<1>4. moved' \in 0 .. MaxActs
  <2>1. typed \in Seq(Char) /\ moved \in 0 .. MaxActs /\ Len(typed) + moved < MaxActs
    BY <1>2 DEF MayAct, SafeInv, TypeOK
  <2>2. Len(typed) \in Nat
    BY <2>1
  <2> QED BY <1>2, <2>1, <2>2, KernelAssumption
<1>5. pointer' \in [x : Nat, y : Nat, buttons : 0 .. 7]
  <2>1. \A v \in Int, size \in Nat \ {0} : Within(v, size) \in Nat
    BY DEF Within
  <2>2. pointer.x + m[1] \in Int /\ pointer.y - m[2] \in Int
    <3>1. pointer.x \in Nat /\ pointer.y \in Nat
      BY DEF SafeInv, TypeOK
    <3> DEFINE dx == m[1]  dy == m[2]
    <3>2. dx \in Int /\ dy \in Int
      BY <1>1
    <3> HIDE DEF dx, dy
    <3>3. pointer.x + dx \in Int /\ pointer.y - dy \in Int
      BY <3>1, <3>2
    <3> QED BY <3>3 DEF dx, dy
  <2> QED BY <1>1, <1>2, <2>1, <2>2, MouseAssumption
<1>6. I8042TypeOK' /\ PicTypeOK' /\ AllAcknowledged' /\ RequestsHaveBytes'
  BY <1>2, <1>3 DEF SafeInv, TypeOK, I8042TypeOK, PicTypeOK, AllAcknowledged, RequestsHaveBytes, picVars
<1>7. TypeOK'
  BY <1>2, <1>4, <1>5, <1>6, IdleSoftware DEF SafeInv, TypeOK, RingInv
<1> QED BY <1>2, <1>6, <1>7, IdleSoftware DEF SafeInv

LEMMA InitSafe == Init => SafeInv
<1> SUFFICES ASSUME Init PROVE SafeInv
  OBVIOUS
<1>1. RingInv /\ GetNeverEmpty
  BY InitRing DEF Init, KeyboardInit, GetNeverEmpty, At
<1>2. PicTypeOK /\ PitTypeOK
  BY TicksAssumption DEF Init, PicInit, PicTypeOK, PitInit, PitTypeOK
<1>3. I8042TypeOK
  <2>1. Plain8(0) \in Byte
    BY DEF Plain8, Byte
  <2>2. /\ machine \in Machines /\ reply = << >> /\ kbdq = << >> /\ auxq = << >>
        /\ obuf = [full |-> FALSE, aux |-> FALSE, byte |-> Plain8(0)]
        /\ ctl = 97 /\ streaming = FALSE
    BY DEF Init, I8042Init
  <2> DEFINE b == Plain8(0)
  <2> HIDE DEF Byte, b
  <2>3. obuf \in [full : BOOLEAN, aux : BOOLEAN, byte : Byte]
    BY <2>1, <2>2 DEF b
  <2>4. reply \in Seq(Byte) /\ kbdq \in Seq(Byte) /\ auxq \in Seq(Byte)
    BY <2>2
  <2>5. ctl \in 0 .. 255
    <3>1. ctl = 97
      BY <2>2
    <3> QED BY <3>1
  <2>6. streaming \in BOOLEAN
    BY <2>2, Zenon
  <2> QED BY <2>2, <2>3, <2>4, <2>5, <2>6, Zenon DEF I8042TypeOK
<1>4. MouseTypeOK
  BY DEF Init, MouseInit, MouseTypeOK, InitPc
<1>5. TypeOK
  <2>1. Centre \in [x : Nat, y : Nat, buttons : 0 .. 7]
    BY MouseAssumption DEF Centre
  <2> QED BY <1>1, <1>2, <1>3, <1>4, <2>1, KernelAssumption DEF Init, TypeOK, RingInv, MainPc
<1> QED BY <1>1, <1>5
        DEF Init, SafeInv, PicInit, MouseInit, RequestsHaveBytes, AllAcknowledged, OnScreen

LEMMA NextSafe == SafeInv /\ [Next]_vars => SafeInv'
<1> SUFFICES ASSUME SafeInv, [Next]_vars PROVE SafeInv'
  OBVIOUS
<1>1. CASE UNCHANGED vars
  <2>1. /\ UNCHANGED Software /\ UNCHANGED picVars /\ UNCHANGED ioVars /\ UNCHANGED personVars
    BY <1>1 DEF vars, Software
  <2>2. PicTypeOK' /\ AllAcknowledged' /\ RequestsHaveBytes'
    BY <2>1 DEF SafeInv, TypeOK, PicTypeOK, AllAcknowledged, RequestsHaveBytes, ioVars, picVars
  <2>3. TypeOK'
    BY <2>1, <2>2, IdleSoftware, IdleIo, IdlePerson DEF SafeInv, TypeOK, RingInv
  <2> QED BY <2>1, <2>2, <2>3, IdleSoftware DEF SafeInv
<1> QED BY <1>1, BootMouseSafe, StiSafe, MainStepSafe, Irq0Safe, Irq1Safe, Irq12Safe, TickSafe,
           LoadByteSafe, TypeKeySafe, MoveMouseSafe DEF Next

(* Whatever the person does, on every machine: every handler acknowledges  *)
(* what it was called for, the pointer and the cursor stay on the screen,  *)
(* and the console is never handed "no character" (idt.c:22-47, pit.c:30,  *)
(* ps2_keyboard.c:41-113, ps2_mouse.c:70-114, kernel.c:95-127).            *)
THEOREM SafeAlways == Spec => [](AllAcknowledged /\ PointerOnScreen /\ GetNeverEmpty)
<1>1. SafeInv => AllAcknowledged /\ PointerOnScreen /\ GetNeverEmpty
  BY DEF SafeInv, OnScreen, PointerOnScreen
<1> QED BY <1>1, InitSafe, NextSafe, PTL DEF Spec

(* What lies between the keyboard interrupt and the console is a first-in  *)
(* first-out queue, in the whole kernel too: behind whatever mouse_init,   *)
(* the timer and the mouse do to the buffer and the requests               *)
(* (ps2_keyboard.c:61-69, 83-91, 99-113).                                  *)
THEOREM KernelImplementsQueue == Spec => QueueSpec
<1>1. Init => Queue!Init
  BY InitQueue DEF Init
<1>2. SafeInv /\ SafeInv' /\ [Next]_vars => [Queue!Next]_<<Contents, got>>
  <2> SUFFICES ASSUME SafeInv, SafeInv', [Next]_vars
               PROVE  [Queue!Next]_<<Contents, got>>
    OBVIOUS
  <2>1. RingInv /\ RingInv' /\ Data \in Scancode
    BY PortType DEF SafeInv, Scancode
  <2>2. CASE Irq1
    <3>1. keyboard_handler(Data)
      BY <2>2 DEF Irq1
    <3> DEFINE sc == Data
    <3> HIDE DEF sc
    <3> QED BY <2>1, <3>1, HandlerIsPut DEF Queue!Next, sc
  <2>3. CASE MainStep
    <3>1. CASE StartDrain \/ ReaderStep \/ Used
      BY <2>1, <3>1, ReaderIsGet DEF Queue!Next
    <3>2. CASE UNCHANGED <<kbdVars, rdVars>>
      BY <3>2, IdleQueue
    <3> QED BY <2>3, <3>1, <3>2, MainStepDriver
  <2>4. CASE ~Irq1 /\ ~MainStep
    <3>1. UNCHANGED <<kbdVars, rdVars>>
      BY <2>4 DEF Next, vars, BootMouse, Sti, Irq0, Irq12, Tick, LoadByte, TypeKey, MoveMouse, Software
    <3> QED BY <3>1, IdleQueue
  <2> QED BY <2>2, <2>3, <2>4
<1> QED BY <1>1, <1>2, InitSafe, NextSafe, PTL DEF Spec, QueueSpec, Queue!Spec

-----------------------------------------------------------------------------
(* A boot nobody types into.                                               *)

BootInv == BootFirst /\ Exchange

LEMMA InitBoot == Init => BootInv
BY DEF Init, KeyboardInit, PicInit, I8042Init, MouseInit, BootInv, BootFirst, Exchange, MouseAnswers

(* Behind the sti nothing touches the command byte again.                  *)
LEMMA BootOver ==
  ASSUME BootInv, mi = "done", main' # "boot", UNCHANGED <<machine, ctl, reply, mi>>
  PROVE  BootInv'
BY DEF BootInv, BootFirst, Exchange, MouseAnswers

(* The pointer is put in the middle at the first exchange and stays there. *)
LEMMA BootMouseCentre ==
  ASSUME SafeInv, BootInv, BootMouse
  PROVE  BootFirst'
<1>1. /\ main = "boot" /\ main' = "boot" /\ pointer' = pointer
      /\ SCREEN_W' = SCREEN_W /\ SCREEN_H' = SCREEN_H
  BY DEF BootMouse, mainVars, personVars
<1>2. CASE EnableAux
  BY <1>1, <1>2 DEF EnableAux, BootInv, BootFirst, Centre
<1>3. CASE ~EnableAux
  <2>1. UNCHANGED <<posVars, mouse_cycle>> /\ mi # "start"
    BY <1>3 DEF BootMouse, mouse_init, AskStatus, ReadStatus, WriteStatus, SendDefaults,
                SendEnable, AckDefaults, AckEnable, ReadAck, InitStep
  <2> QED BY <1>1, <2>1 DEF BootInv, BootFirst, Centre, posVars
<1> QED BY <1>2, <1>3

(* An answer that is waited for is the one that is read.                   *)
LEMMA AnswerIsRead ==
  ASSUME SafeInv, "slow" \notin machine, Poll,
         NEW aux \in BOOLEAN, NEW b \in Byte,
         \/ Answer(reply, aux, b)
         \/ Answer(auxq, aux, b) /\ ~AuxOff
  PROVE  /\ obuf.byte = b /\ ~obuf'.full
         /\ Answer(reply, aux, b) => reply = << >>
         /\ Answer(auxq, aux, b) => auxq = << >> \/ AuxOff
<1> HIDE DEF Byte
<1>1. obuf.full \/ Silent
  BY DEF Poll
<1>2. <<b>> # << >>
  OBVIOUS
<1>3. obuf.full
  BY <1>1, <1>2 DEF Silent, Answer
<1>4. ~obuf'.full
  BY PortType DEF Poll, SafeInv
<1> QED BY <1>3, <1>4 DEF Answer

LEMMA BootMouseExchange ==
  ASSUME SafeInv, BootInv, BootMouse
  PROVE  BootInv'
<1> SUFFICES ASSUME "slow" \notin machine
             PROVE  Exchange'
  <2>1. machine' = machine
    BY DEF BootMouse, mouse_init, EnableAux, AskStatus, ReadStatus, WriteStatus, SendDefaults,
           SendEnable, AckDefaults, AckEnable, ReadAck, InitStep
  <2> QED BY <2>1, BootMouseCentre DEF BootInv, Exchange
<1>1. Exchange /\ main = "boot" /\ main' = "boot"
  BY DEF BootInv, BootMouse, mainVars
<1>2. CASE EnableAux
  <2>1. /\ mi = "start" /\ mi' = "askStatus" /\ machine' = machine
        /\ ctl' = IF AuxOff THEN ctl - 32 ELSE ctl
        /\ UNCHANGED <<obuf, reply, kbdq, auxq>>
    BY <1>2 DEF EnableAux, InitStep
  <2>2. ctl = 97 /\ ~obuf.full /\ reply = << >> /\ kbdq = << >> /\ auxq = << >>
    BY <1>1, <2>1 DEF Exchange, MouseAnswers
  <2>3. ctl' = 65
    BY <2>1, <2>2 DEF AuxOff, Bit
  <2> QED BY <1>1, <2>1, <2>2, <2>3 DEF Exchange, MouseAnswers
<1>3. CASE AskStatus
  <2>1. /\ mi = "askStatus" /\ mi' = "readStatus" /\ machine' = machine
        /\ reply' = Append(reply, Plain8(ctl))
        /\ UNCHANGED <<obuf, kbdq, auxq, ctl>>
    BY <1>3 DEF AskStatus, InitStep
  <2>2. ctl = 65 /\ ~obuf.full /\ reply = << >> /\ kbdq = << >> /\ auxq = << >>
    BY <1>1, <2>1 DEF Exchange, MouseAnswers
  <2> DEFINE b == Plain8(65)
  <2>3. reply' = Append(<< >>, b)
    BY <2>1, <2>2
  <2> HIDE DEF b
  <2>4. reply' = <<b>>
    BY <2>3
  <2>5. Answer(reply, FALSE, Plain8(65))'
    BY <2>1, <2>2, <2>4 DEF Answer, b
  <2> QED BY <1>1, <2>1, <2>2, <2>5 DEF Exchange, MouseAnswers
<1>4. CASE ReadStatus
  <2>1. /\ mi = "readStatus" /\ mi' = "writeStatus" /\ machine' = machine
        /\ status' = IF Bit(Data, 2) THEN Data ELSE Data + 2
        /\ Poll /\ UNCHANGED <<reply, kbdq, auxq, ctl>>
    BY <1>4 DEF ReadStatus, InitStep
  <2>2. ctl = 65 /\ kbdq = << >> /\ auxq = << >> /\ Answer(reply, FALSE, Plain8(65))
    BY <1>1, <2>1 DEF Exchange, MouseAnswers
  <2>3. Plain8(65) \in Byte /\ Plain8(65).data = 65
    BY DEF Plain8, Byte
  <2>4. obuf.byte = Plain8(65) /\ ~obuf'.full /\ reply = << >>
    BY <2>1, <2>2, <2>3, AnswerIsRead
  <2>5. status' = 67
    BY <2>1, <2>3, <2>4 DEF Data, Bit
  <2> QED BY <1>1, <2>1, <2>2, <2>4, <2>5 DEF Exchange, MouseAnswers
<1>5. CASE WriteStatus
  <2>1. /\ mi = "writeStatus" /\ mi' = "sendDefaults" /\ machine' = machine
        /\ ctl' = status /\ UNCHANGED <<obuf, reply, kbdq, auxq>>
    BY <1>5 DEF WriteStatus, InitStep
  <2>2. status = 67 /\ ~obuf.full /\ reply = << >> /\ kbdq = << >> /\ auxq = << >>
    BY <1>1, <2>1 DEF Exchange, MouseAnswers
  <2> QED BY <1>1, <2>1, <2>2 DEF Exchange, MouseAnswers
<1>6. CASE SendDefaults \/ SendEnable
  <2>1. /\ mi \in {"sendDefaults", "sendEnable"} /\ mi' \in {"ackDefaults", "ackEnable"}
        /\ machine' = machine
        /\ auxq' = IF "mouse" \in machine THEN Append(auxq, Plain8(ACK)) ELSE auxq
        /\ UNCHANGED <<obuf, reply, kbdq, ctl>>
    BY <1>6 DEF SendDefaults, SendEnable, InitStep, MouseCommand
  <2>2. ctl = 67 /\ ~obuf.full /\ reply = << >> /\ kbdq = << >> /\ auxq = << >>
    BY <1>1, <2>1 DEF Exchange, MouseAnswers
  <2>3. CASE "mouse" \in machine
    <3> DEFINE b == Plain8(ACK)
    <3>1. auxq' = Append(<< >>, b)
      BY <2>1, <2>2, <2>3
    <3> HIDE DEF b
    <3>2. auxq' = <<b>>
      BY <3>1
    <3>3. Answer(auxq, TRUE, Plain8(ACK))'
      BY <2>1, <2>2, <3>2 DEF Answer, b
    <3> QED BY <1>1, <2>1, <2>2, <2>3, <3>3 DEF Exchange, MouseAnswers
  <2>4. CASE "mouse" \notin machine
    BY <1>1, <2>1, <2>2, <2>4 DEF Exchange, MouseAnswers
  <2> QED BY <2>3, <2>4
<1>7. CASE AckDefaults \/ AckEnable
  <2>1. /\ mi \in {"ackDefaults", "ackEnable"} /\ mi' \in {"sendEnable", "done"}
        /\ machine' = machine /\ Poll
        /\ UNCHANGED <<reply, kbdq, auxq, ctl>>
    BY <1>7 DEF AckDefaults, AckEnable, ReadAck, InitStep
  <2>2. ctl = 67 /\ reply = << >> /\ kbdq = << >>
    BY <1>1, <2>1 DEF Exchange, MouseAnswers
  <2>3. ~obuf'.full /\ auxq = << >>
    <3>1. CASE MouseAnswers
      <4>1. Plain8(ACK) \in Byte
        BY DEF Plain8, Byte, ACK
      <4>2. ~AuxOff
        BY <2>2 DEF AuxOff, Bit
      <4>3. Answer(auxq, TRUE, Plain8(ACK))
        BY <1>1, <3>1 DEF Exchange
      <4> QED BY <2>1, <4>1, <4>2, <4>3, AnswerIsRead
    <3>2. CASE ~MouseAnswers
      <4>1. auxq = << >>
        BY <1>1, <2>1, <3>2 DEF Exchange
      <4>2. ~obuf'.full
        BY <2>1, PortType DEF Poll, SafeInv
      <4> QED BY <4>1, <4>2
    <3> QED BY <3>1, <3>2
  <2> QED BY <1>1, <2>1, <2>2, <2>3 DEF Exchange, MouseAnswers
<1> QED BY <1>2, <1>3, <1>4, <1>5, <1>6, <1>7 DEF BootMouse, mouse_init

(* The answer moves into the buffer; nothing else is there to move.        *)
LEMMA LoadBoot ==
  ASSUME SafeInv, BootInv, LoadByte, main = "boot"
  PROVE  BootInv'
<1>1. /\ Load
      /\ UNCHANGED <<main, mi, status, mouse_x, mouse_y, mouse_buttons, mouse_cycle, pointer>>
      /\ UNCHANGED <<machine, ctl>>
  BY DEF LoadByte, Software, mainVars, mouseVars, posVars, personVars, Load, LoadReply, LoadKbd,
         LoadAux, LoadFrom
<1>2. BootFirst'
  BY <1>1 DEF BootInv, BootFirst, Centre
<1>3. ASSUME "slow" \notin machine
      PROVE  Exchange'
  <2>1. Exchange /\ kbdq = << >>
    BY <1>3 DEF BootInv, Exchange
  <2>2. ASSUME NEW aux \in BOOLEAN, NEW b \in Byte, NEW q, q = << >> \/ q = <<b>>, LoadFrom(aux, q)
        PROVE  /\ obuf' = [full |-> TRUE, aux |-> aux, byte |-> b]
               /\ Tail(q) = << >>
    <3> HIDE DEF Byte
    <3>1. q = <<b>>
      BY <2>2 DEF LoadFrom
    <3>2. Head(q) = b /\ Tail(q) = << >>
      BY <3>1
    <3> QED BY <2>2, <3>2 DEF LoadFrom
  <2>3. ~LoadKbd
    BY <2>1 DEF LoadKbd, LoadFrom
  <2>4. CASE LoadReply
    <3>1. LoadFrom(FALSE, reply) /\ reply # << >> /\ ~obuf.full
          /\ reply' = Tail(reply) /\ UNCHANGED <<kbdq, auxq>>
      BY <2>4 DEF LoadReply, LoadFrom
    <3>2. mi = "readStatus" /\ Answer(reply, FALSE, Plain8(65)) /\ auxq = << >>
      BY <1>3, <2>1, <3>1 DEF Exchange
    <3>3. Plain8(65) \in Byte
      BY DEF Plain8, Byte
    <3>4. Answer(reply, FALSE, Plain8(65))'
      BY <2>2, <3>1, <3>2, <3>3 DEF Answer
    <3> QED BY <1>1, <2>1, <3>1, <3>2, <3>4 DEF Exchange, MouseAnswers
  <2>5. CASE LoadAux
    <3>1. LoadFrom(TRUE, auxq) /\ auxq # << >> /\ ~obuf.full
          /\ auxq' = Tail(auxq) /\ UNCHANGED <<reply, kbdq>>
      BY <2>5 DEF LoadAux, LoadFrom
    <3>2. MouseAnswers /\ Answer(auxq, TRUE, Plain8(ACK))
      BY <1>3, <2>1, <3>1 DEF Exchange
    <3>3. Plain8(ACK) \in Byte
      BY DEF Plain8, Byte, ACK
    <3>4. Answer(auxq, TRUE, Plain8(ACK))'
      BY <2>2, <3>1, <3>2, <3>3 DEF Answer
    <3> QED BY <1>1, <2>1, <3>1, <3>2, <3>4 DEF Exchange, MouseAnswers
  <2> QED BY <1>1, <2>3, <2>4, <2>5 DEF Load
<1>4. CASE "slow" \in machine
  BY <1>1, <1>2, <1>4 DEF BootInv, Exchange
<1> QED BY <1>2, <1>3, <1>4 DEF BootInv

LEMMA NextBoot ==
  ASSUME ~NoisyBoot
  PROVE  SafeInv /\ BootInv /\ [Next]_vars => BootInv'
<1> SUFFICES ASSUME SafeInv, BootInv, [Next]_vars PROVE BootInv'
  OBVIOUS
<1>1. CASE BootMouse
  BY <1>1, BootMouseExchange
<1>2. CASE Sti \/ MainStep \/ Irq0 \/ Irq1 \/ Irq12
  <2>1. mi = "done" /\ main' # "boot" /\ UNCHANGED <<machine, ctl, reply, mi>>
    <3>1. CASE Sti
      BY <3>1 DEF Sti, ioVars, mouseVars
    <3>2. CASE MainStep
      BY <3>2, MainStepDriver DEF Elsewhere, ioVars, mouseVars, SafeInv
    <3>3. CASE Irq0
      BY <3>3, InterruptMain DEF Irq0, ioVars, mouseVars
    <3>4. CASE Irq1
      BY <3>4, InterruptMain DEF Irq1, ReadPort, mouseVars
    <3>5. CASE Irq12
      BY <3>5, InterruptMain DEF Irq12, ReadPort, mouse_handler
    <3> QED BY <1>2, <3>1, <3>2, <3>3, <3>4, <3>5
  <2> QED BY <2>1, BootOver
<1>3. CASE LoadByte
  <2>1. CASE main = "boot"
    BY <1>3, <2>1, LoadBoot
  <2>2. CASE main # "boot"
    <3>1. mi = "done" /\ UNCHANGED <<main, mi, machine, ctl>>
      BY <1>3, <2>2 DEF SafeInv, LoadByte, Software, mainVars, mouseVars, Load, LoadReply, LoadKbd,
                        LoadAux, LoadFrom
    <3>2. CASE "slow" \in machine
      BY <2>2, <3>1, <3>2 DEF BootInv, BootFirst, Exchange
    <3>3. CASE "slow" \notin machine
      <4>1. reply = << >>
        BY <3>1, <3>3 DEF BootInv, Exchange
      <4>2. reply' = reply
        BY <1>3, <4>1 DEF LoadByte, Load, LoadReply, LoadKbd, LoadAux, LoadFrom
      <4> QED BY <2>2, <3>1, <4>2, BootOver
    <3> QED BY <3>2, <3>3
  <2> QED BY <2>1, <2>2
<1>4. CASE \/ \E k \in Keys : TypeKey(k)
           \/ \E m \in Moves : MoveMouse(m[1], m[2], m[3])
  <2>1. main # "boot"
    BY <1>4 DEF TypeKey, MoveMouse, MayAct
  <2>2. UNCHANGED <<main, mi, machine, ctl, reply>>
    BY <1>4 DEF TypeKey, MoveMouse, Software, mainVars, mouseVars
  <2> QED BY <2>1, <2>2, BootOver DEF SafeInv
<1>5. CASE Tick \/ UNCHANGED vars
  <2>1. /\ UNCHANGED <<main, mi, status, mouse_x, mouse_y, mouse_buttons, mouse_cycle, pointer>>
        /\ UNCHANGED ioVars
    BY <1>5 DEF Tick, vars, Software, mainVars, mouseVars, posVars, personVars
  <2> QED BY <2>1 DEF BootInv, BootFirst, Centre, Exchange, MouseAnswers, Answer, ioVars
<1> QED BY <1>1, <1>2, <1>3, <1>4, <1>5 DEF Next

LEMMA BootAlways ==
  ASSUME ~NoisyBoot
  PROVE  Spec => [](SafeInv /\ BootInv)
BY InitSafe, NextSafe, InitBoot, NextBoot, PTL DEF Spec

(* If nobody types while mouse_init polls and the answers come in time,    *)
(* what mouse_init takes for acknowledgements is acknowledgements          *)
(* (ps2_mouse.c:63, 66).                                                   *)
THEOREM AcksAreAcksAlways ==
  ASSUME ~NoisyBoot
  PROVE  Spec => []AcksAreAcks
<1>1. Init => AcksAreAcks
  BY DEF Init, AcksAreAcks
<1>2. SafeInv /\ BootInv /\ AcksAreAcks /\ [Next]_vars => AcksAreAcks'
  <2> SUFFICES ASSUME SafeInv, BootInv, AcksAreAcks, [Next]_vars PROVE AcksAreAcks'
    OBVIOUS
  <2>1. machine' = machine
    BY DEF Next, vars, ioVars, BootMouse, mouse_init, EnableAux, AskStatus, ReadStatus, WriteStatus,
           SendDefaults, SendEnable, AckDefaults, AckEnable, ReadAck, InitStep, Sti, MainStep,
           BeginFrame, Drain, Dispatch, LoadX, LoadY, LoadButtons, CursorLoad, Halt, Elsewhere,
           Irq0, Irq1, Irq12, ReadPort, Tick, LoadByte, Load, LoadReply, LoadKbd, LoadAux, LoadFrom,
           TypeKey, MoveMouse
  <2>2. CASE acks' = acks
    BY <2>1, <2>2 DEF AcksAreAcks
  <2>3. CASE acks' # acks /\ "mouse" \in machine /\ "slow" \notin machine
    <3>1. BootMouse /\ mi \in {"ackDefaults", "ackEnable"} /\ acks' = Append(acks, Data)
      BY <2>3 DEF Next, vars, BootMouse, Sti, MainStep, BeginFrame, Drain, Dispatch, LoadX, LoadY,
                  LoadButtons, CursorLoad, Halt, Elsewhere, Irq0, Irq1, Irq12, Interrupt, Tick,
                  LoadByte, TypeKey, MoveMouse, Software
    <3>2. Poll
      BY <3>1 DEF BootMouse, mouse_init, EnableAux, AskStatus, ReadStatus, WriteStatus, SendDefaults,
                  SendEnable, AckDefaults, AckEnable, ReadAck, InitStep
    <3>3. Answer(auxq, TRUE, Plain8(ACK)) /\ ~AuxOff
      <4>1. Answer(auxq, TRUE, Plain8(ACK)) /\ ctl = 67
        BY <2>3, <3>1 DEF BootInv, Exchange, MouseAnswers
      <4>2. ~AuxOff
        BY <4>1 DEF AuxOff, Bit
      <4> QED BY <4>1, <4>2
    <3>4. Plain8(ACK) \in Byte /\ Plain8(ACK).data = ACK
      BY DEF Plain8, Byte, ACK
    <3>5. Data = ACK
      BY <2>3, <3>2, <3>3, <3>4, AnswerIsRead DEF Data
    <3>6. acks \in Seq(0 .. 255) /\ \A i \in 1 .. Len(acks) : acks[i] = ACK
      BY <2>3 DEF SafeInv, TypeOK, AcksAreAcks
    <3>7. ACK \in 0 .. 255
      BY DEF ACK
    <3>8. \A i \in 1 .. Len(acks) + 1 : Append(acks, ACK)[i] = ACK
      BY <3>6, <3>7
    <3>9. Len(Append(acks, ACK)) = Len(acks) + 1
      BY <3>6, <3>7
    <3> QED BY <3>1, <3>5, <3>8, <3>9 DEF AcksAreAcks
  <2> QED BY <2>1, <2>2, <2>3 DEF AcksAreAcks
<1> QED BY <1>1, <1>2, BootAlways, PTL DEF Spec

-----------------------------------------------------------------------------
(* Codes on their way to the keyboard driver.                              *)

LEMMA Halves ==
  ASSUME NEW n \in Nat
  PROVE  \E h \in Nat : /\ n \div 2 = h
                        /\ (n = 2 * h /\ n % 2 = 0) \/ (n = (2 * h) + 1 /\ n % 2 = 1)
<1> DEFINE h == n \div 2
<1>1. h \in Nat /\ ((n = 2 * h /\ n % 2 = 0) \/ (n = (2 * h) + 1 /\ n % 2 = 1))
  OBVIOUS
<1> QED BY <1>1

(* Codes that alternate mean characters.                                   *)
LEMMA MeantType ==
  ASSUME NEW codes \in Seq(Byte), Alternates(codes)
  PROVE  /\ Meant(codes) \in Seq(Char)
         /\ Len(Meant(codes)) = Len(codes) \div 2
         /\ \A i \in 1 .. Len(codes) \div 2 :
              Meant(codes)[i] = Unshifted[codes[(2 * i) - 1 + (Len(codes) % 2)].data]
<1> DEFINE n == Len(codes)
<1>1. n \in Nat
  OBVIOUS
<1>2. PICK h \in Nat : n \div 2 = h /\ ((n = 2 * h /\ n % 2 = 0) \/ (n = (2 * h) + 1 /\ n % 2 = 1))
  BY <1>1, Halves
<1>3. ASSUME NEW i \in 1 .. h
      PROVE  Unshifted[codes[(2 * i) - 1 + (n % 2)].data] \in Char
  <2> DEFINE j == (2 * i) - 1 + (n % 2)
  <2>1. j \in 1 .. n /\ (n - j) % 2 # 0
    BY <1>2
  <2> HIDE DEF j
  <2>2. codes[j].data \in Keys
    BY <2>1 DEF Alternates
  <2> QED BY <2>2, KeyType DEF j
<1>4. Meant(codes) = [i \in 1 .. h |-> Unshifted[codes[(2 * i) - 1 + (n % 2)].data]]
  BY <1>2 DEF Meant
<1> HIDE DEF n
<1>5. Meant(codes) \in [1 .. h -> Char]
  BY <1>3, <1>4
<1>6. Meant(codes) \in Seq(Char) /\ Len(Meant(codes)) = h
  BY <1>5
<1> QED BY <1>2, <1>4, <1>6 DEF n

(* The first code makes a character and the rest means the others, or it   *)
(* releases a key and the rest means the same.                             *)
LEMMA MeantRest ==
  ASSUME NEW codes \in Seq(Byte), Alternates(codes), codes # << >>
  PROVE  /\ Tail(codes) \in Seq(Byte) /\ Alternates(Tail(codes))
         /\ \/ Head(codes).data - 128 \in Keys /\ Meant(codes) = Meant(Tail(codes))
            \/ /\ Head(codes).data \in Keys
               /\ Meant(codes) = <<Unshifted[Head(codes).data]>> \o Meant(Tail(codes))
<1> DEFINE n == Len(codes)
           rest == Tail(codes)
<1>1. /\ n \in Nat /\ n > 0 /\ rest \in Seq(Byte) /\ Len(rest) = n - 1
      /\ \A i \in 1 .. n - 1 : rest[i] = codes[i + 1]
      /\ Head(codes) = codes[1]
  OBVIOUS
<1>2. PICK h \in Nat : n \div 2 = h /\ ((n = 2 * h /\ n % 2 = 0) \/ (n = (2 * h) + 1 /\ n % 2 = 1))
  BY <1>1, Halves
<1> HIDE DEF rest
<1>3. Alternates(rest)
  <2> SUFFICES ASSUME NEW i \in 1 .. n - 1
               PROVE  IF ((n - 1) - i) % 2 = 0 THEN rest[i].data - 128 \in Keys
                                               ELSE rest[i].data \in Keys
    BY <1>1 DEF Alternates
  <2>1. i + 1 \in 1 .. n /\ n - (i + 1) = (n - 1) - i /\ rest[i] = codes[i + 1]
    BY <1>1
  <2>2. IF (n - (i + 1)) % 2 = 0 THEN codes[i + 1].data - 128 \in Keys
                                 ELSE codes[i + 1].data \in Keys
    BY <2>1 DEF Alternates
  <2> QED BY <2>1, <2>2
<1>4. /\ Meant(codes) \in Seq(Char) /\ Len(Meant(codes)) = h
      /\ \A i \in 1 .. h : Meant(codes)[i] = Unshifted[codes[(2 * i) - 1 + (n % 2)].data]
  BY <1>2, MeantType
<1>5. /\ Meant(rest) \in Seq(Char) /\ Len(Meant(rest)) = (n - 1) \div 2
      /\ \A i \in 1 .. (n - 1) \div 2 :
           Meant(rest)[i] = Unshifted[rest[(2 * i) - 1 + ((n - 1) % 2)].data]
  BY <1>1, <1>3, MeantType
<1>6. 1 \in 1 .. n /\ IF (n - 1) % 2 = 0 THEN codes[1].data - 128 \in Keys ELSE codes[1].data \in Keys
  BY <1>1 DEF Alternates
<1>7. CASE n = (2 * h) + 1
  <2>1. (n - 1) \div 2 = h /\ (n - 1) % 2 = 0 /\ n % 2 = 1
    BY <1>2, <1>7
  <2>2. ASSUME NEW i \in 1 .. h
        PROVE  Meant(codes)[i] = Meant(rest)[i]
    <3>1. (2 * i) - 1 \in 1 .. n - 1 /\ (2 * i) - 1 + 1 = 2 * i /\ (2 * i) - 1 + 0 = (2 * i) - 1
      BY <1>7
    <3>2. rest[(2 * i) - 1] = codes[2 * i]
      BY <1>1, <3>1
    <3>3. Meant(codes)[i] = Unshifted[codes[2 * i].data]
      BY <1>4, <2>1, <3>1
    <3>4. Meant(rest)[i] = Unshifted[rest[(2 * i) - 1].data]
      BY <1>5, <2>1, <3>1
    <3> QED BY <3>2, <3>3, <3>4
  <2>3. Meant(codes) = Meant(rest)
    BY <1>4, <1>5, <2>1, <2>2, SeqEqual
  <2> QED BY <1>1, <1>3, <1>6, <2>1, <2>3 DEF rest
<1>8. CASE n = 2 * h
  <2>1. h > 0 /\ (n - 1) \div 2 = h - 1 /\ (n - 1) % 2 = 1 /\ n % 2 = 0
    BY <1>1, <1>2, <1>8
  <2>2. codes[1].data \in Keys /\ Unshifted[codes[1].data] \in Char
    BY <1>6, <2>1, KeyType
  <2> DEFINE c == Unshifted[codes[1].data]
  <2>3. c \in Char
    BY <2>2
  <2> HIDE DEF c
  <2>4. /\ <<c>> \o Meant(rest) \in Seq(Char) /\ Len(<<c>> \o Meant(rest)) = h
        /\ \A i \in 1 .. h : (<<c>> \o Meant(rest))[i] = IF i = 1 THEN c ELSE Meant(rest)[i - 1]
    BY <1>5, <2>1, <2>3
  <2>5. ASSUME NEW i \in 1 .. h
        PROVE  Meant(codes)[i] = IF i = 1 THEN c ELSE Meant(rest)[i - 1]
    <3>1. Meant(codes)[i] = Unshifted[codes[(2 * i) - 1].data]
      BY <1>4, <2>1, (2 * i) - 1 + 0 = (2 * i) - 1
    <3>2. CASE i = 1
      BY <3>1, <3>2 DEF c
    <3>3. CASE i # 1
      <4> DEFINE j == i - 1
      <4>1. j \in 1 .. h - 1 /\ i = j + 1
        BY <3>3
      <4>2. Meant(rest)[j] = Unshifted[rest[(2 * j) - 1 + 1].data]
        BY <1>5, <2>1, <4>1
      <4> HIDE DEF j
      <4>3. (2 * j) - 1 + 1 = 2 * j /\ 2 * j \in 1 .. n - 1 /\ (2 * j) + 1 = (2 * i) - 1
        BY <1>8, <4>1
      <4>4. rest[2 * j] = codes[(2 * i) - 1]
        BY <1>1, <4>3
      <4> QED BY <3>1, <3>3, <4>2, <4>3, <4>4 DEF j
    <3> QED BY <3>2, <3>3
  <2>6. Meant(codes) = <<c>> \o Meant(rest)
    <3> DEFINE s == Meant(codes)
               t == <<c>> \o Meant(rest)
    <3>1. s \in Seq(Char) /\ t \in Seq(Char) /\ Len(s) = h /\ Len(t) = h
      BY <1>4, <2>4
    <3>2. \A i \in 1 .. h : s[i] = t[i]
      BY <2>4, <2>5
    <3> HIDE DEF s, t
    <3>3. s = t
      BY <3>1, <3>2, SeqEqual
    <3> QED BY <3>3 DEF s, t
  <2> QED BY <1>1, <1>3, <2>2, <2>6 DEF rest, c
<1> QED BY <1>2, <1>7, <1>8

(* A key stroke behind the others.                                         *)
LEMMA MeantMore ==
  ASSUME NEW codes \in Seq(Byte), Alternates(codes), NEW k \in Keys
  PROVE  LET more == codes \o <<Plain8(k), Plain8(k + 128)>>
         IN Alternates(more) /\ Meant(more) = Append(Meant(codes), Unshifted[k])
<1> DEFINE n == Len(codes)
           a == Plain8(k)
           b == Plain8(k + 128)
           more == codes \o <<a, b>>
           c == Unshifted[k]
<1>1. /\ a \in Byte /\ b \in Byte /\ a.data = k /\ b.data = k + 128 /\ k \in 0 .. 127 /\ c \in Char
  BY KeyType DEF Plain8
<1>2. n \in Nat
  OBVIOUS
<1> HIDE DEF a, b, c, Byte
<1>3. /\ more \in Seq(Byte) /\ Len(more) = n + 2
      /\ \A i \in 1 .. n : more[i] = codes[i]
      /\ more[n + 1] = a /\ more[n + 2] = b
  <2>1. <<a, b>> \in Seq(Byte) /\ Len(<<a, b>>) = 2 /\ <<a, b>>[1] = a /\ <<a, b>>[2] = b
    BY <1>1
  <2> DEFINE ab == <<a, b>>
  <2> HIDE DEF ab
  <2>2. /\ codes \o ab \in Seq(Byte) /\ Len(codes \o ab) = n + 2
        /\ \A i \in 1 .. n + 2 : (codes \o ab)[i] = IF i <= n THEN codes[i] ELSE ab[i - n]
    BY <2>1, ConcatProperties DEF ab
  <2>3. (n + 1) - n = 1 /\ (n + 2) - n = 2 /\ n + 1 \in 1 .. n + 2 /\ n + 2 \in 1 .. n + 2
    BY <1>2
  <2>4. more = codes \o ab
    BY DEF ab
  <2> HIDE DEF more
  <2>5. \A i \in 1 .. n : more[i] = codes[i]
    BY <1>2, <2>2, <2>4
  <2>6. more[n + 1] = ab[1] /\ more[n + 2] = ab[2]
    BY <1>2, <2>2, <2>3, <2>4
  <2> QED BY <2>1, <2>2, <2>4, <2>5, <2>6 DEF ab
<1> HIDE DEF more
<1>4. Alternates(more)
  <2> SUFFICES ASSUME NEW i \in 1 .. n + 2
               PROVE  IF ((n + 2) - i) % 2 = 0 THEN more[i].data - 128 \in Keys
                                               ELSE more[i].data \in Keys
    BY <1>3 DEF Alternates
  <2>1. CASE i \in 1 .. n
    <3>1. IF (n - i) % 2 = 0 THEN codes[i].data - 128 \in Keys ELSE codes[i].data \in Keys
      BY <2>1 DEF Alternates
    <3>2. ((n + 2) - i) % 2 = (n - i) % 2
      BY <1>2, <2>1
    <3> QED BY <1>3, <2>1, <3>1, <3>2
  <2>2. CASE i = n + 1
    <3>1. ((n + 2) - i) % 2 = 1
      BY <1>2, <2>2
    <3> QED BY <1>1, <1>3, <2>2, <3>1
  <2>3. CASE i = n + 2
    <3>1. ((n + 2) - i) % 2 = 0 /\ (k + 128) - 128 = k
      BY <1>1, <1>2, <2>3
    <3> QED BY <1>1, <1>3, <2>3, <3>1
  <2> QED BY <1>2, <2>1, <2>2, <2>3
<1>5. PICK h \in Nat : n \div 2 = h /\ ((n = 2 * h /\ n % 2 = 0) \/ (n = (2 * h) + 1 /\ n % 2 = 1))
  BY <1>2, Halves
<1>6. (n + 2) \div 2 = h + 1 /\ (n + 2) % 2 = n % 2 /\ n % 2 \in 0 .. 1 /\ n = 2 * h + (n % 2)
  BY <1>5
<1>7. /\ Meant(codes) \in Seq(Char) /\ Len(Meant(codes)) = h
      /\ \A i \in 1 .. h : Meant(codes)[i] = Unshifted[codes[(2 * i) - 1 + (n % 2)].data]
  BY <1>5, MeantType
<1>8. /\ Meant(more) \in Seq(Char) /\ Len(Meant(more)) = h + 1
      /\ \A i \in 1 .. h + 1 : Meant(more)[i] = Unshifted[more[(2 * i) - 1 + (n % 2)].data]
  <2>1. /\ Meant(more) \in Seq(Char)
        /\ Len(Meant(more)) = Len(more) \div 2
        /\ \A i \in 1 .. Len(more) \div 2 :
             Meant(more)[i] = Unshifted[more[(2 * i) - 1 + (Len(more) % 2)].data]
    BY <1>3, <1>4, MeantType
  <2>2. Len(more) \div 2 = h + 1 /\ Len(more) % 2 = n % 2
    BY <1>3, <1>6
  <2> QED BY <2>1, <2>2
<1>9. /\ Append(Meant(codes), c) \in Seq(Char) /\ Len(Append(Meant(codes), c)) = h + 1
      /\ \A i \in 1 .. h + 1 : Append(Meant(codes), c)[i] = IF i = h + 1 THEN c ELSE Meant(codes)[i]
  <2> DEFINE s == Meant(codes)
  <2>1. s \in Seq(Char) /\ Len(s) = h
    BY <1>7
  <2> HIDE DEF s
  <2>2. /\ Append(s, c) \in Seq(Char) /\ Len(Append(s, c)) = h + 1
        /\ \A i \in 1 .. h : Append(s, c)[i] = s[i]
        /\ Append(s, c)[h + 1] = c
    BY <1>1, <2>1, AppendProperties
  <2>3. \A i \in 1 .. h + 1 : Append(s, c)[i] = IF i = h + 1 THEN c ELSE s[i]
    BY <2>2
  <2> QED BY <2>2, <2>3 DEF s
<1>10. ASSUME NEW i \in 1 .. h + 1
       PROVE  Meant(more)[i] = Append(Meant(codes), c)[i]
  <2> DEFINE j == (2 * i) - 1 + (n % 2)
  <2>1. Meant(more)[i] = Unshifted[more[j].data]
    BY <1>8
  <2>2. CASE i = h + 1
    <3>1. j = n + 1
      BY <1>6, <2>2
    <3> QED BY <1>1, <1>3, <1>9, <2>1, <2>2, <3>1 DEF c
  <2>3. CASE i # h + 1
    <3>1. i \in 1 .. h /\ j \in 1 .. n
      BY <1>6, <2>3
    <3> QED BY <1>3, <1>7, <1>9, <2>1, <2>3, <3>1
  <2> QED BY <2>2, <2>3
<1>11. Meant(more) = Append(Meant(codes), c)
  BY <1>8, <1>9, <1>10, SeqEqual
<1> QED BY <1>4, <1>11 DEF more, a, b, c

-----------------------------------------------------------------------------
(* From the keyboard to the console.                                       *)

KeysInv == PlainCodes /\ KeysConserved

(* Four strings behind each other, and an element that moves from one to   *)
(* the next or joins the last.                                             *)
Four(h, u, c, m) == h \o u \o c \o m

LEMMA FourLength ==
  ASSUME NEW S, NEW h \in Seq(S), NEW u \in Seq(S), NEW c \in Seq(S), NEW m \in Seq(S)
  PROVE  Len(Four(h, u, c, m)) = Len(h) + Len(u) + Len(c) + Len(m)
<1>1. /\ h \o u \in Seq(S) /\ h \o u \o c \in Seq(S)
      /\ Len(h \o u) = Len(h) + Len(u)
      /\ Len(h \o u \o c) = Len(h \o u) + Len(c)
      /\ Len(h \o u \o c \o m) = Len(h \o u \o c) + Len(m)
  BY ConcatProperties
<1> QED BY <1>1 DEF Four

LEMMA FourPut ==
  ASSUME NEW S, NEW h \in Seq(S), NEW u \in Seq(S), NEW c \in Seq(S), NEW m \in Seq(S), NEW e \in S
  PROVE  Four(h, u, Append(c, e), m) = Four(h, u, c, <<e>> \o m)
<1> DEFINE hu == h \o u
           one == <<e>>
<1>1. Append(c, e) = c \o one
  BY AppendIsConcat
<1>2. hu \in Seq(S) /\ one \in Seq(S)
  BY ConcatProperties
<1> HIDE DEF hu, one
<1>3. (hu \o c) \o one = hu \o (c \o one)
  BY <1>2, ConcatAssociative, SMTT(30)
<1> DEFINE huc == hu \o c
<1>4. huc \in Seq(S)
  BY <1>2, ConcatProperties
<1> HIDE DEF huc
<1>5. (huc \o one) \o m = huc \o (one \o m)
  BY <1>2, <1>4, SMTT(30)
<1> QED BY <1>1, <1>3, <1>5 DEF Four, hu, huc, one

LEMMA FourGet ==
  ASSUME NEW S, NEW h \in Seq(S), NEW u \in Seq(S), NEW c \in Seq(S), NEW m \in Seq(S), c # << >>
  PROVE  Four(h, <<Head(c)>>, Tail(c), m) = Four(h, << >>, c, m)
<1> DEFINE one == <<Head(c)>>
           rest == Tail(c)
<1>1. one \in Seq(S) /\ rest \in Seq(S) /\ one \o rest \in Seq(S) /\ Len(one \o rest) = Len(c)
  OBVIOUS
<1>2. \A i \in 1 .. Len(c) : (one \o rest)[i] = c[i]
  OBVIOUS
<1> HIDE DEF one, rest
<1>3. one \o rest = c
  BY <1>1, <1>2, SeqEqual
<1>4. (h \o one) \o rest = h \o (one \o rest)
  BY <1>1, ConcatAssociative, SMTT(30)
<1>5. h \o << >> = h
  BY ConcatEmptySeq
<1> QED BY <1>3, <1>4, <1>5 DEF Four, one, rest

LEMMA FourUse ==
  ASSUME NEW S, NEW h \in Seq(S), NEW u \in Seq(S), NEW c \in Seq(S), NEW m \in Seq(S), NEW e \in S
  PROVE  Four(Append(h, e), << >>, c, m) = Four(h, <<e>>, c, m)
<1>1. Append(h, e) = h \o <<e>>
  BY AppendIsConcat
<1>2. Append(h, e) \o << >> = Append(h, e)
  BY ConcatEmptySeq
<1> QED BY <1>1, <1>2 DEF Four

LEMMA FourType ==
  ASSUME NEW S, NEW h \in Seq(S), NEW u \in Seq(S), NEW c \in Seq(S), NEW m \in Seq(S), NEW e \in S,
         Four(h, u, c, m) \in Seq(S)
  PROVE  Four(h, u, c, Append(m, e)) = Append(Four(h, u, c, m), e)
<1> DEFINE huc == h \o u \o c
           one == <<e>>
<1>1. huc \in Seq(S) /\ huc \o m \in Seq(S) /\ one \in Seq(S)
  BY ConcatProperties
<1>2. Append(m, e) = m \o one
  BY AppendIsConcat
<1> HIDE DEF huc
<1>3. Append(huc \o m, e) = (huc \o m) \o one
  BY <1>1, AppendIsConcat
<1> HIDE DEF one
<1>4. (huc \o m) \o one = huc \o (m \o one)
  BY <1>1, ConcatAssociative, SMTT(30)
<1> QED BY <1>2, <1>3, <1>4 DEF Four, huc

(* The strings that what was typed is made of.                             *)
LEMMA KeysType ==
  ASSUME SafeInv
  PROVE  /\ handled \in Seq(Char) /\ typed \in Seq(Char)
         /\ Contents \in Seq(Char) /\ Len(Contents) = Waiting
         /\ Held \in Seq(Char) /\ Len(Held) \in 0 .. 1
         /\ Coming \in Seq(Byte)
<1>1. /\ handled \in Seq(Char) /\ typed \in Seq(Char) /\ kbdq \in Seq(Byte)
      /\ Contents \in Seq(Char) /\ Len(Contents) = Waiting
  BY ContentsType DEF SafeInv, TypeOK, I8042TypeOK
<1>2. Held \in Seq(Char) /\ Len(Held) \in 0 .. 1
  BY DEF Held, SafeInv, GetNeverEmpty
<1>3. Coming \in Seq(Byte)
  <2>1. obuf.byte \in Byte
    BY PortType DEF SafeInv
  <2> HIDE DEF Byte
  <2> QED BY <1>1, <2>1 DEF Coming
<1> QED BY <1>1, <1>2, <1>3

(* What the loop has not dealt with is no more than the ring has room for, *)
(* so when a key is on its way there is room for it.                       *)
LEMMA RoomForKey ==
  ASSUME SafeInv, KeysInv, Prompt, Len(Meant(Coming)) > 0
  PROVE  Waiting < KBD_BUFFER_SIZE - 1
<1> DEFINE m == Meant(Coming)
<1>1. m \in Seq(Char) /\ Len(m) \in Nat
  <2>1. m \in Seq(Char)
    BY KeysType, MeantType DEF KeysInv, PlainCodes
  <2> QED BY <2>1
<1>2. typed = Four(handled, Held, Contents, m)
  BY DEF KeysInv, KeysConserved, Four
<1>3. Len(m) > 0
  OBVIOUS
<1> HIDE DEF m
<1>4. Len(typed) = Len(handled) + Len(Held) + Len(Contents) + Len(m)
  BY <1>1, <1>2, KeysType, FourLength
<1>5. Len(typed) - Len(handled) <= KBD_BUFFER_SIZE - 1
  BY DEF KeysInv, PlainCodes
<1>6. Len(handled) \in Nat /\ Len(Held) \in Nat /\ Waiting \in Nat /\ Len(Contents) = Waiting
  BY KeysType, ContentsType DEF SafeInv
<1>7. KBD_BUFFER_SIZE \in Nat
  BY RingAssumption
<1> QED BY <1>1, <1>3, <1>4, <1>5, <1>6, <1>7

(* The handler takes a code of the person's keys.                          *)
LEMMA HandlerTakesKey ==
  ASSUME RingInv, ~is_e0, ~shift_pressed, NEW sc \in Scancode, keyboard_handler(sc),
         sc \in Keys \/ sc - 128 \in Keys
  PROVE  /\ ~is_e0' /\ ~shift_pressed'
         /\ sc \in Keys => CharOf(sc) = Unshifted[sc]
         /\ sc - 128 \in Keys => CharOf(sc) = NUL
<1>1. sc # E0 /\ sc \notin ShiftMake \cup ShiftBreak
  BY KernelAssumption DEF ShiftMake, ShiftBreak, E0
<1>2. Plain(sc)
  BY <1>1 DEF keyboard_handler, Prefix, Extended, ShiftKey
<1>3. is_e0' = is_e0 /\ shift_pressed' = shift_pressed
  BY <1>2 DEF Plain
<1>4. CharOf(sc) = IF ~IsMake(sc) THEN NUL ELSE Unshifted[sc]
  BY <1>1 DEF CharOf, PlainChar
<1>5. (sc \in Keys => IsMake(sc)) /\ (sc - 128 \in Keys => ~IsMake(sc))
  BY KernelAssumption DEF IsMake, Scancode
<1> QED BY <1>3, <1>4, <1>5

(* Nothing typed, taken or moved.                                          *)
LEMMA KeysStay ==
  ASSUME KeysInv, UNCHANGED <<machine, is_e0, shift_pressed, handled, typed, Held, Contents>>,
         Prompt => Coming' = Coming
  PROVE  KeysInv'
<1>1. Prompt' = Prompt
  BY DEF Prompt
<1> SUFFICES ASSUME Prompt PROVE KeysInv'
  BY <1>1 DEF KeysInv, PlainCodes, KeysConserved
<1>2. /\ ~is_e0 /\ ~shift_pressed /\ Alternates(Coming)
      /\ Len(typed) - Len(handled) <= KBD_BUFFER_SIZE - 1
      /\ typed = handled \o Held \o Contents \o Meant(Coming)
  BY DEF KeysInv, PlainCodes, KeysConserved
<1>3. Coming' = Coming /\ Meant(Coming') = Meant(Coming) /\ (Alternates(Coming') <=> Alternates(Coming))
  BY DEF Meant, Alternates
<1>4. /\ ~is_e0' /\ ~shift_pressed' /\ Alternates(Coming')
      /\ Len(typed') - Len(handled') <= KBD_BUFFER_SIZE - 1
      /\ typed' = handled' \o Held' \o Contents' \o Meant(Coming')
  BY <1>2, <1>3
<1> QED BY <1>4 DEF KeysInv, PlainCodes, KeysConserved, Alternates, Meant

(* The keyboard interrupt: the byte that is taken is the first on its way. *)
LEMMA KeyboardTakes ==
  ASSUME SafeInv, Prompt, Irq1
  PROVE  /\ Coming # << >> /\ Head(Coming).data = Data /\ Coming' = Tail(Coming)
         /\ Data \in Scancode /\ keyboard_handler(Data)
         /\ UNCHANGED <<machine, handled, typed, rd, got>>
<1>1. /\ main # "boot" /\ main' # "boot" /\ Kbd \in irr /\ handled' = handled /\ typed' = typed
  BY InterruptMain DEF Irq1, personVars
<1>2. obuf.full /\ ~obuf.aux
  BY <1>1 DEF SafeInv, RequestsHaveBytes, Prompt
<1>3. obuf' = Emptied /\ kbdq' = kbdq /\ machine' = machine /\ keyboard_handler(Data)
  BY DEF Irq1, ReadPort
<1>4. kbdq \in Seq(Byte) /\ obuf.byte \in Byte /\ Data \in 0 .. 255 /\ ~obuf'.full
  BY <1>3, PortType DEF SafeInv, TypeOK, I8042TypeOK
<1> DEFINE b == obuf.byte
<1>5. Coming = <<b>> \o kbdq /\ Coming' = << >> \o kbdq
  BY <1>1, <1>2, <1>3, <1>4 DEF Coming
<1>6. Data = b.data
  BY DEF Data
<1>7. b \in Byte
  BY <1>4
<1> HIDE DEF b, Byte
<1>8. Coming # << >> /\ Head(Coming) = b /\ Tail(Coming) = kbdq /\ Coming' = kbdq
  <2>1. <<b>> \o kbdq # << >> /\ Head(<<b>> \o kbdq) = b
    BY <1>4, <1>7
  <2>2. Tail(<<b>> \o kbdq) = kbdq
    <3> DEFINE t == Tail(<<b>> \o kbdq)
    <3>1. t \in Seq(Byte) /\ Len(t) = Len(kbdq)
      BY <1>4, <1>7
    <3>2. \A i \in 1 .. Len(kbdq) : t[i] = kbdq[i]
      BY <1>4, <1>7
    <3> HIDE DEF t
    <3>3. t = kbdq
      BY <1>4, <3>1, <3>2, SeqEqual
    <3> QED BY <3>3 DEF t
  <2>3. << >> \o kbdq = kbdq
    BY <1>4, ConcatEmptySeq
  <2> QED BY <1>5, <2>1, <2>2, <2>3
<1> QED BY <1>1, <1>3, <1>4, <1>6, <1>8 DEF Scancode, keyboard_handler

LEMMA KeysTaken ==
  ASSUME SafeInv, KeysInv, Irq1
  PROVE  KeysInv'
<1>1. machine' = machine
  BY DEF Irq1, ReadPort
<1> SUFFICES ASSUME Prompt PROVE KeysInv'
  BY <1>1 DEF KeysInv, PlainCodes, KeysConserved, Prompt
<1> DEFINE sc == Data
           m == Meant(Coming)
           n == Meant(Tail(Coming))
<1>2. /\ Coming # << >> /\ Head(Coming).data = sc /\ Coming' = Tail(Coming)
      /\ sc \in Scancode /\ keyboard_handler(sc)
      /\ UNCHANGED <<handled, typed, rd, got>>
  BY KeyboardTakes
<1>3. /\ ~is_e0 /\ ~shift_pressed /\ Alternates(Coming)
      /\ Len(typed) - Len(handled) <= KBD_BUFFER_SIZE - 1
      /\ typed = Four(handled, Held, Contents, m)
  BY DEF KeysInv, PlainCodes, KeysConserved, Four
<1>4. /\ Coming \in Seq(Byte) /\ handled \in Seq(Char) /\ Held \in Seq(Char) /\ Contents \in Seq(Char)
  BY KeysType
<1>5. /\ Tail(Coming) \in Seq(Byte) /\ Alternates(Tail(Coming))
      /\ \/ sc - 128 \in Keys /\ m = n
         \/ sc \in Keys /\ m = <<Unshifted[sc]>> \o n
  BY <1>2, <1>3, <1>4, MeantRest
<1>6. RingInv /\ RingInv'
  BY Irq1Safe DEF SafeInv
<1>7. n \in Seq(Char)
  BY <1>5, MeantType
<1>8. /\ ~is_e0' /\ ~shift_pressed'
      /\ sc \in Keys => CharOf(sc) = Unshifted[sc]
      /\ sc - 128 \in Keys => CharOf(sc) = NUL
  <2> HIDE DEF sc
  <2> QED BY <1>2, <1>3, <1>5, <1>6, HandlerTakesKey
<1>9. Alternates(Coming') /\ Meant(Coming') = n /\ Held' = Held
  BY <1>2, <1>5 DEF Held, At
<1>10. typed' = Four(handled', Held', Contents', n)
  <2>1. CASE sc - 128 \in Keys /\ m = n
    <3>1. Contents' = Contents
      <4> HIDE DEF sc
      <4> QED BY <1>2, <1>6, <1>8, <2>1, HandlerIsPut
    <3> QED BY <1>2, <1>3, <1>9, <2>1, <3>1
  <2>2. CASE sc \in Keys /\ m = <<Unshifted[sc]>> \o n
    <3> DEFINE e == Unshifted[sc]
    <3>1. e \in Char /\ e # NUL
      BY <2>2, KeyType
    <3>2. Waiting < KBD_BUFFER_SIZE - 1
      <4>1. Len(m) > 0
        <5> HIDE DEF n, e, m
        <5>1. m = <<e>> \o n
          BY <2>2 DEF e
        <5>2. Len(<<e>> \o n) = 1 + Len(n) /\ Len(n) \in Nat
          BY <1>7, <3>1
        <5> QED BY <5>1, <5>2
      <4> QED BY <4>1, RoomForKey
    <3>3. Contents' = Append(Contents, e)
      <4>1. CharOf(sc) = e
        BY <1>8, <2>2
      <4> HIDE DEF sc, e
      <4>2. Queue!Put(CharOf(sc))
        BY <1>2, <1>6, <3>1, <3>2, <4>1, HandlerIsPut
      <4> QED BY <4>1, <4>2 DEF Queue!Put
    <3> HIDE DEF n, e, m
    <3>4. Four(handled, Held, Append(Contents, e), n) = Four(handled, Held, Contents, <<e>> \o n)
      BY <1>4, <1>7, <3>1, FourPut
    <3> QED BY <1>2, <1>3, <1>9, <2>2, <3>3, <3>4 DEF e
  <2> QED BY <1>5, <2>1, <2>2
<1> QED BY <1>2, <1>3, <1>8, <1>9, <1>10 DEF KeysInv, PlainCodes, KeysConserved, Alternates, Meant, Four

(* What a step of the reader does to the character it holds: only the      *)
(* store of the tail brings it to the use of one.                          *)
LEMMA ReaderHolds ==
  ASSUME RingInv, ReaderStep
  PROVE  /\ UNCHANGED <<is_e0, shift_pressed>>
         /\ Held = << >>
         /\ Held' = IF GetStore THEN <<got'>> ELSE << >>
<1>1. UNCHANGED <<is_e0, shift_pressed>> /\ rd.pc # "use"
  BY DEF ReaderStep, HasLoadHead, HasTest, GetLoadHead, GetTest, GetRead, GetStore, At, kbdVars
<1>2. rd \in [pc : ReaderPc, head : Slot, tail : Slot, ch : Char \cup {NUL}]
  BY DEF RingInv, KeyboardTypeOK
<1>3. CASE GetStore
  <2>1. rd'.pc = "use"
    BY <1>3 DEF GetStore, ReaderAt
  <2> QED BY <1>1, <1>3, <2>1 DEF Held, At
<1>4. CASE ~GetStore
  <2>1. rd'.pc # "use"
    <3>1. CASE GetTest
      <4>1. rd.head # kbd_tail
        BY <3>1 DEF RingInv, ReaderSound, GetTest
      <4> QED BY <1>2, <3>1, <4>1 DEF GetTest
    <3>2. CASE HasTest
      BY <3>2 DEF HasTest, ReaderAt
    <3>3. CASE HasLoadHead \/ GetLoadHead \/ GetRead
      BY <1>2, <3>3 DEF HasLoadHead, GetLoadHead, GetRead
    <3> QED BY <1>4, <3>1, <3>2, <3>3 DEF ReaderStep
  <2> QED BY <1>1, <1>4, <2>1 DEF Held, At
<1> QED BY <1>3, <1>4

(* The main loop: a character goes from the ring to the reader and from    *)
(* the reader to the console.                                              *)
LEMMA KeysRead ==
  ASSUME SafeInv, KeysInv, MainStep
  PROVE  KeysInv'
<1>1. /\ machine' = machine /\ typed' = typed /\ Coming' = Coming
      /\ main # "boot" /\ main' # "boot"
  BY MainStepDriver DEF Elsewhere, ioVars, personVars, Coming
<1>2. RingInv /\ RingInv' /\ GetNeverEmpty
  BY MainStepSafe DEF SafeInv
<1>3. is_e0' = is_e0 /\ shift_pressed' = shift_pressed
  BY <1>2, ReaderHolds, MainStepDriver DEF StartDrain, Used, kbdVars
<1>4. /\ handled \in Seq(Char) /\ Held \in Seq(Char) /\ Contents \in Seq(Char)
  BY KeysType
<1>5. CASE Drain /\ GetStore
  <2>1. Queue!Get
    BY <1>2, <1>5, StoreIsGet
  <2>2. Contents # << >> /\ got' = Head(Contents) /\ Contents' = Tail(Contents) /\ handled' = handled
    BY <1>5, <2>1 DEF Queue!Get, Drain
  <2>3. Held = << >> /\ Held' = <<got'>>
    BY <1>2, <1>5, ReaderHolds DEF ReaderStep
  <2> SUFFICES ASSUME Prompt PROVE KeysInv'
    BY <1>1 DEF KeysInv, PlainCodes, KeysConserved, Prompt
  <2> DEFINE m == Meant(Coming)
  <2>4. /\ ~is_e0 /\ ~shift_pressed /\ Alternates(Coming)
        /\ Len(typed) - Len(handled) <= KBD_BUFFER_SIZE - 1
        /\ typed = Four(handled, << >>, Contents, m)
    BY <2>3 DEF KeysInv, PlainCodes, KeysConserved, Four
  <2>5. m \in Seq(Char)
    BY <2>4, KeysType, MeantType
  <2> HIDE DEF m
  <2>6. Four(handled, <<Head(Contents)>>, Tail(Contents), m) = Four(handled, << >>, Contents, m)
    BY <1>4, <2>2, <2>5, FourGet
  <2>7. typed' = Four(handled', Held', Contents', m)
    BY <1>1, <2>2, <2>3, <2>4, <2>6
  <2>8. Meant(Coming') = m /\ Alternates(Coming')
    BY <1>1, <2>4 DEF m
  <2> QED BY <1>1, <1>3, <2>2, <2>4, <2>7, <2>8
          DEF KeysInv, PlainCodes, KeysConserved, Alternates, Meant, Four
<1>6. CASE Dispatch
  <2>1. At("use") /\ rd' = ReaderAt("hasHead") /\ UNCHANGED <<kbdVars, got>>
    BY <1>6 DEF Dispatch, Used
  <2>2. got \in Char /\ handled' = Append(handled, got)
    BY <1>2, <1>6, <2>1, TableAssumption DEF GetNeverEmpty, Dispatch
  <2>3. Held = <<got>> /\ Held' = << >>
    BY <2>1 DEF Held, At, ReaderAt
  <2>4. Contents' = Contents
    BY <2>1 DEF kbdVars, Contents, Waiting, SlotAt
  <2> SUFFICES ASSUME Prompt PROVE KeysInv'
    BY <1>1 DEF KeysInv, PlainCodes, KeysConserved, Prompt
  <2> DEFINE m == Meant(Coming)
  <2>5. /\ ~is_e0 /\ ~shift_pressed /\ Alternates(Coming)
        /\ Len(typed) - Len(handled) <= KBD_BUFFER_SIZE - 1
        /\ typed = Four(handled, <<got>>, Contents, m)
    BY <2>3 DEF KeysInv, PlainCodes, KeysConserved, Four
  <2>6. m \in Seq(Char)
    BY <2>5, KeysType, MeantType
  <2> HIDE DEF m
  <2>7. Four(Append(handled, got), << >>, Contents, m) = Four(handled, <<got>>, Contents, m)
    BY <1>4, <2>2, <2>6, FourUse
  <2>8. typed' = Four(handled', Held', Contents', m)
    BY <1>1, <2>2, <2>3, <2>4, <2>5, <2>7
  <2>9. Len(typed') - Len(handled') <= KBD_BUFFER_SIZE - 1
    <3>1. typed \in Seq(Char) /\ Len(Append(handled, got)) = Len(handled) + 1
      BY <1>4, <2>2, KeysType
    <3>2. Len(typed) \in Nat /\ Len(handled) \in Nat
      BY <1>4, <3>1
    <3> QED BY <1>1, <2>2, <2>5, <3>1, <3>2, RingAssumption
  <2>10. Meant(Coming') = m /\ Alternates(Coming')
    BY <1>1, <2>5 DEF m
  <2> QED BY <1>1, <1>3, <2>5, <2>8, <2>9, <2>10
          DEF KeysInv, PlainCodes, KeysConserved, Alternates, Meant, Four
<1>7. CASE ~(Drain /\ GetStore) /\ ~Dispatch
  <2>1. handled' = handled
    BY <1>7 DEF MainStep, BeginFrame, Drain, Dispatch, LoadX, LoadY, LoadButtons, CursorLoad, Halt
  <2>2. Held' = Held /\ Contents' = Contents
    <3>1. CASE Drain
      <4>1. ReaderStep /\ ~GetStore
        BY <1>7, <3>1 DEF Drain
      <4> QED BY <1>2, <4>1, ReaderHolds, ReaderIsGet
    <3>2. CASE BeginFrame
      <4>1. StartDrain
        BY <3>2 DEF BeginFrame
      <4>2. Held = << >> /\ Held' = << >>
        BY <4>1 DEF StartDrain, Held, At, ReaderAt
      <4>3. ~GetStore
        BY <4>1 DEF StartDrain, GetStore, At
      <4> QED BY <1>2, <4>1, <4>2, <4>3, ReaderIsGet
    <3>3. CASE UNCHANGED <<kbdVars, rdVars>>
      BY <3>3, IdleQueue DEF Held, At, rdVars
    <3> QED BY <1>7, <3>1, <3>2, <3>3
            DEF MainStep, LoadX, LoadY, LoadButtons, CursorLoad, Halt
  <2> QED BY <1>1, <1>3, <2>1, <2>2, KeysStay
<1> QED BY <1>5, <1>6, <1>7

(* A key stroke joins the codes on their way.                              *)
LEMMA KeysTyped ==
  ASSUME SafeInv, KeysInv, NEW k \in Keys, TypeKey(k)
  PROVE  KeysInv'
<1> DEFINE c == Unshifted[k]
           ab == <<Plain8(k), Plain8(k + 128)>>
           m == Meant(Coming)
<1>1. /\ Len(typed) - Len(handled) < KBD_BUFFER_SIZE - 1
      /\ typed' = Append(typed, c) /\ kbdq' = kbdq \o ab
      /\ UNCHANGED <<kbdVars, rdVars, main, handled, machine, obuf>>
  BY DEF TypeKey, Software, mainVars
<1> SUFFICES ASSUME Prompt PROVE KeysInv'
  BY <1>1 DEF KeysInv, PlainCodes, KeysConserved, Prompt
<1>2. /\ ~is_e0 /\ ~shift_pressed /\ Alternates(Coming)
      /\ typed = Four(handled, Held, Contents, m)
  BY DEF KeysInv, PlainCodes, KeysConserved, Four
<1>3. /\ Coming \in Seq(Byte) /\ typed \in Seq(Char)
      /\ handled \in Seq(Char) /\ Held \in Seq(Char) /\ Contents \in Seq(Char)
      /\ m \in Seq(Char) /\ c \in Char
  BY <1>2, KeysType, MeantType, KeyType
<1>4. Coming' = Coming \o ab
  <2> DEFINE first == IF obuf.full /\ ~obuf.aux /\ main # "boot" THEN <<obuf.byte>> ELSE << >>
             a == Plain8(k)
             b == Plain8(k + 128)
  <2>1. first' = first /\ Coming = first \o kbdq /\ Coming' = first \o (kbdq \o ab)
    BY <1>1 DEF Coming
  <2>2. obuf.byte \in Byte /\ kbdq \in Seq(Byte) /\ a \in Byte /\ b \in Byte
    BY PortType, KeyType DEF SafeInv, TypeOK, I8042TypeOK
  <2> HIDE DEF Byte, a, b
  <2>3. first \in Seq(Byte) /\ ab \in Seq(Byte)
    BY <2>2 DEF a, b
  <2> HIDE DEF first, ab
  <2>4. first \o (kbdq \o ab) = (first \o kbdq) \o ab
    BY <2>2, <2>3
  <2> QED BY <2>1, <2>4
<1>5. Alternates(Coming') /\ Meant(Coming') = Append(m, c)
  BY <1>2, <1>3, <1>4, MeantMore
<1>6. Held' = Held /\ Contents' = Contents
  BY <1>1, IdleQueue DEF Held, At, rdVars
<1>7. Len(typed') - Len(handled') <= KBD_BUFFER_SIZE - 1
  <2>1. Len(Append(typed, c)) = Len(typed) + 1 /\ Len(typed) \in Nat /\ Len(handled) \in Nat
    BY <1>3
  <2> QED BY <1>1, <2>1, RingAssumption
<1>8. typed' = Four(handled', Held', Contents', Append(m, c))
  <2> HIDE DEF m, c
  <2>1. Four(handled, Held, Contents, Append(m, c)) = Append(Four(handled, Held, Contents, m), c)
    BY <1>2, <1>3, FourType
  <2> QED BY <1>1, <1>2, <1>6, <2>1
<1> QED BY <1>1, <1>2, <1>5, <1>6, <1>7, <1>8
        DEF KeysInv, PlainCodes, KeysConserved, Alternates, Meant, Four, kbdVars

LEMMA HeadAndTail ==
  ASSUME NEW S, NEW q \in Seq(S), q # << >>
  PROVE  <<Head(q)>> \o Tail(q) = q
<1> DEFINE s == <<Head(q)>> \o Tail(q)
<1>1. s \in Seq(S) /\ Len(s) = Len(q) /\ \A i \in 1 .. Len(q) : s[i] = q[i]
  OBVIOUS
<1> HIDE DEF s
<1>2. s = q
  BY <1>1, SeqEqual
<1> QED BY <1>2 DEF s

(* The controller moves a code into its buffer: it is still the first.     *)
LEMMA KeysLoaded ==
  ASSUME SafeInv, BootInv, KeysInv, LoadByte
  PROVE  KeysInv'
<1>1. /\ UNCHANGED <<main, handled, typed, is_e0, shift_pressed, machine>>
      /\ UNCHANGED <<kbdVars, rdVars>> /\ Load
  BY DEF LoadByte, Software, mainVars, kbdVars, personVars, Load, LoadReply, LoadKbd, LoadAux, LoadFrom
<1>2. Held' = Held /\ Contents' = Contents
  BY <1>1, IdleQueue DEF Held, At, rdVars
<1>3. ASSUME Prompt
      PROVE  Coming' = Coming
  <2>1. Exchange
    BY <1>3 DEF BootInv, Exchange, Prompt
  <2>2. kbdq \in Seq(Byte)
    BY DEF SafeInv, TypeOK, I8042TypeOK
  <2>3. CASE main = "boot"
    <3>1. kbdq = << >>
      BY <1>3, <2>1, <2>3 DEF Exchange, Prompt
    <3>2. kbdq' = kbdq
      BY <1>1, <3>1 DEF Load, LoadReply, LoadKbd, LoadAux, LoadFrom
    <3> QED BY <1>1, <2>3, <3>2 DEF Coming
  <2>4. CASE main # "boot" /\ LoadKbd
    <3>1. /\ ~obuf.full /\ kbdq # << >> /\ kbdq' = Tail(kbdq)
          /\ obuf' = [full |-> TRUE, aux |-> FALSE, byte |-> Head(kbdq)]
      BY <2>4 DEF LoadKbd, LoadFrom
    <3>2. Coming = << >> \o kbdq /\ Coming' = <<Head(kbdq)>> \o Tail(kbdq)
      BY <1>1, <2>4, <3>1 DEF Coming
    <3> HIDE DEF Byte
    <3> QED BY <2>2, <3>1, <3>2, HeadAndTail, ConcatEmptySeq
  <2>5. CASE main # "boot" /\ ~LoadKbd
    <3>1. reply = << >>
      BY <1>3, <2>1, <2>5 DEF Exchange, Prompt, SafeInv
    <3>2. /\ ~obuf.full /\ kbdq' = kbdq
          /\ obuf' = [full |-> TRUE, aux |-> TRUE, byte |-> Head(auxq)]
      BY <1>1, <2>5, <3>1 DEF Load, LoadReply, LoadAux, LoadFrom
    <3> QED BY <1>1, <3>2 DEF Coming
  <2> QED BY <2>3, <2>4, <2>5
<1> QED BY <1>1, <1>2, <1>3, KeysStay

(* The boot, the sti, the other interrupts, the timer and the mouse leave  *)
(* the codes where they are: when the sti comes the buffer is empty, and   *)
(* the mouse interrupt takes a byte of the mouse.                          *)
LEMMA KeysElsewhere ==
  ASSUME SafeInv, BootInv, KeysInv,
         \/ BootMouse \/ Sti \/ Irq0 \/ Irq12 \/ Tick \/ UNCHANGED vars
         \/ \E m \in Moves : MoveMouse(m[1], m[2], m[3])
  PROVE  KeysInv'
<1>1. /\ UNCHANGED <<handled, typed, machine, kbdq>>
      /\ UNCHANGED <<kbdVars, rdVars>>
  BY DEF BootMouse, Sti, Irq0, Irq12, Interrupt, ReadPort, Tick, MoveMouse, Software, mainVars,
         personVars, ioVars, vars, mouse_init, EnableAux, AskStatus, ReadStatus, WriteStatus,
         SendDefaults, SendEnable, AckDefaults, AckEnable, ReadAck, InitStep
<1>2. is_e0' = is_e0 /\ shift_pressed' = shift_pressed /\ Held' = Held /\ Contents' = Contents
  BY <1>1, IdleQueue DEF Held, At, rdVars, kbdVars
<1>3. ASSUME Prompt
      PROVE  Coming' = Coming
  <2>1. Exchange
    BY <1>3 DEF BootInv, Exchange, Prompt
  <2>2. CASE BootMouse
    BY <1>1, <2>2 DEF BootMouse, mainVars, Coming
  <2>3. CASE Sti
    <3>1. ~obuf.full
      BY <1>3, <2>1, <2>3 DEF Exchange, Prompt, Sti, MouseAnswers
    <3> QED BY <1>1, <2>3, <3>1 DEF Sti, ioVars, Coming
  <2>4. CASE Irq0
    BY <1>1, <2>4, InterruptMain DEF Irq0, ioVars, Coming
  <2>5. CASE Irq12
    <3>1. main # "boot" /\ main' # "boot" /\ Mouse12 \in irr
      BY <2>5, InterruptMain DEF Irq12
    <3>2. obuf.aux
      BY <1>3, <3>1 DEF SafeInv, RequestsHaveBytes, Prompt
    <3>3. obuf' = Emptied /\ ~obuf'.full
      BY <2>5, PortType DEF Irq12, ReadPort, SafeInv
    <3> QED BY <1>1, <3>2, <3>3 DEF Coming
  <2>6. CASE Tick \/ (\E m \in Moves : MoveMouse(m[1], m[2], m[3])) \/ UNCHANGED vars
    <3>1. main' = main /\ obuf' = obuf
      BY <2>6 DEF Tick, MoveMouse, Software, mainVars, ioVars, vars
    <3> QED BY <1>1, <3>1 DEF Coming
  <2> QED BY <2>2, <2>3, <2>4, <2>5, <2>6
<1> QED BY <1>1, <1>2, <1>3, KeysStay

LEMMA InitKeys == Init => KeysInv
<1> SUFFICES ASSUME Init PROVE KeysInv
  OBVIOUS
<1>1. /\ ~is_e0 /\ ~shift_pressed /\ handled = << >> /\ typed = << >>
      /\ kbdq = << >> /\ ~obuf.full /\ rd.pc = "idle"
  BY DEF Init, KeyboardInit, I8042Init
<1>2. Contents = << >>
  BY InitQueue DEF Init, Queue!Init
<1>3. Coming = << >> /\ Held = << >>
  BY <1>1 DEF Coming, Held, At
<1>4. Alternates(Coming)
  BY <1>3 DEF Alternates
<1>5. Meant(Coming) = << >>
  <2>1. 1 .. 0 \div 2 = {} /\ Len(<< >>) = 0
    OBVIOUS
  <2> QED BY <1>3, <2>1 DEF Meant
<1> QED BY <1>1, <1>2, <1>3, <1>4, <1>5, RingAssumption DEF KeysInv, PlainCodes, KeysConserved

LEMMA NextKeys == SafeInv /\ BootInv /\ KeysInv /\ [Next]_vars => KeysInv'
BY KeysTaken, KeysRead, KeysTyped, KeysLoaded, KeysElsewhere DEF Next

(* If nobody types while mouse_init polls, then on a prompt machine what   *)
(* the person has typed is at every moment what the console has been       *)
(* given, what the reader holds, what waits in the ring and what is still  *)
(* on its way: no interleaving of the handlers, the reader, the controller *)
(* and the mouse loses, doubles, reorders or invents a key (kernel.c:      *)
(* 108-115, ps2_keyboard.c:41-113).                                        *)
THEOREM KeysConservedAlways ==
  ASSUME ~NoisyBoot
  PROVE  Spec => []KeysConserved
<1>1. KeysInv => KeysConserved
  BY DEF KeysInv
<1> QED BY <1>1, InitSafe, NextSafe, InitBoot, NextBoot, InitKeys, NextKeys, PTL DEF Spec

-----------------------------------------------------------------------------
(* From the mouse to the pointer.                                          *)

(* What the mouse driver keeps, and what it makes of a byte.               *)
MouseState ==
  [cycle : 0 .. 2, b0 : 0 .. 255, b1 : 0 .. 255, x : Nat, y : Nat, buttons : 0 .. 7]

Here == [cycle |-> mouse_cycle, b0 |-> mouse_bytes[0], b1 |-> mouse_bytes[1],
         x |-> mouse_x, y |-> mouse_y, buttons |-> mouse_buttons]

After(s, d) ==
  IF s.cycle = 0
  THEN IF ~Bit(d, 8) THEN s
       ELSE [cycle |-> 1, b0 |-> d, b1 |-> s.b1, x |-> s.x, y |-> s.y, buttons |-> s.buttons]
  ELSE IF s.cycle = 1
  THEN [cycle |-> 2, b0 |-> s.b0, b1 |-> d, x |-> s.x, y |-> s.y, buttons |-> s.buttons]
  ELSE [cycle |-> 0, b0 |-> s.b0, b1 |-> s.b1,
        x |-> Clamp(s.x + Signed(s.b1), SCREEN_W),
        y |-> Clamp(s.y - Signed(d), SCREEN_H),
        buttons |-> s.b0 % 8]

(* Taken in step: the byte is the one of the packet that is due.           *)
Takes == {r \in MouseState \X Byte \X MouseState :
            r[2].pos = r[1].cycle + 1 /\ r[3] = After(r[1], r[2].data)}

(* The bytes on their way, each taken in step, bring the driver to the end *)
(* of a packet and to where the person has moved the pointer.              *)
Follows ==
  Prompt /\ main # "boot" =>
    \E t \in MouseState : /\ Runs(MouseState, Takes, NextAux, Here, t)
                          /\ t.cycle = 0
                          /\ pointer = [x |-> t.x, y |-> t.y, buttons |-> t.buttons]

LEMMA HereType == MouseTypeOK => Here \in MouseState
BY DEF MouseTypeOK, Here, MouseState

LEMMA TakesMeans ==
  ASSUME NEW s \in MouseState, NEW b \in Byte, NEW t \in MouseState
  PROVE  <<s, b, t>> \in Takes <=> b.pos = s.cycle + 1 /\ t = After(s, b.data)
<1> HIDE DEF MouseState, Byte
<1> QED BY DEF Takes

LEMMA ClampType ==
  ASSUME NEW v \in Int, NEW size \in Nat \ {0}
  PROVE  Clamp(v, size) \in Nat /\ Clamp(v, size) = Within(v, size)
BY DEF Clamp, Within

LEMMA SignedType ==
  /\ \A v \in 0 .. 255 : Signed(v) \in -128 .. 127
  /\ \A d \in -127 .. 127 : d % 256 \in 0 .. 255 /\ Signed(d % 256) = d
<1>1. \A v \in 0 .. 255 : Signed(v) \in -128 .. 127
  BY DEF Signed
<1>2. ASSUME NEW d \in -127 .. 127
      PROVE  d % 256 \in 0 .. 255 /\ Signed(d % 256) = d
  <2>1. d % 256 = IF d < 0 THEN d + 256 ELSE d
    OBVIOUS
  <2> QED BY <2>1 DEF Signed
<1> QED BY <1>1, <1>2

(* The handler does what After says.                                       *)
LEMMA HandlerIsAfter ==
  ASSUME MouseTypeOK, NEW d \in 0 .. 255, mouse_handler(d)
  PROVE  Here' = After(Here, d)
<1>1. /\ mouse_cycle \in 0 .. 2 /\ mouse_bytes \in [0 .. 2 -> 0 .. 255]
  BY DEF MouseTypeOK
<1>2. /\ Here.cycle = mouse_cycle /\ Here.b0 = mouse_bytes[0] /\ Here.b1 = mouse_bytes[1]
      /\ Here.x = mouse_x /\ Here.y = mouse_y /\ Here.buttons = mouse_buttons
  BY DEF Here
<1>3. CASE FirstByte(d)
  <2>1. mouse_cycle = 0 /\ UNCHANGED <<mouse_x, mouse_y, mouse_buttons>>
    BY <1>3 DEF FirstByte, posVars
  <2>2. CASE Bit(d, 8)
    <3>1. mouse_bytes' = [mouse_bytes EXCEPT ![0] = d] /\ mouse_cycle' = 1
      BY <1>3, <2>2 DEF FirstByte
    <3>2. mouse_bytes'[0] = d /\ mouse_bytes'[1] = mouse_bytes[1]
      BY <1>1, <3>1
    <3> QED BY <2>1, <2>2, <3>1, <3>2 DEF Here, After
  <2>3. CASE ~Bit(d, 8)
    BY <1>3, <2>1, <2>3 DEF FirstByte, Here, After
  <2> QED BY <2>2, <2>3
<1>4. CASE SecondByte(d)
  <2>1. /\ mouse_cycle = 1 /\ mouse_cycle' = 2 /\ mouse_bytes' = [mouse_bytes EXCEPT ![1] = d]
        /\ UNCHANGED <<mouse_x, mouse_y, mouse_buttons>>
    BY <1>4 DEF SecondByte, posVars
  <2>2. mouse_bytes'[1] = d /\ mouse_bytes'[0] = mouse_bytes[0]
    BY <1>1, <2>1
  <2> QED BY <2>1, <2>2 DEF Here, After
<1>5. CASE ThirdByte(d)
  <2>1. /\ mouse_cycle = 2 /\ mouse_cycle' = 0 /\ mouse_bytes' = [mouse_bytes EXCEPT ![2] = d]
        /\ mouse_x' = Clamp(mouse_x + Signed(mouse_bytes[1]), SCREEN_W)
        /\ mouse_y' = Clamp(mouse_y - Signed(d), SCREEN_H)
        /\ mouse_buttons' = mouse_bytes[0] % 8
    BY <1>5 DEF ThirdByte
  <2>2. mouse_bytes'[1] = mouse_bytes[1] /\ mouse_bytes'[0] = mouse_bytes[0]
    BY <1>1, <2>1
  <2> QED BY <1>2, <2>1, <2>2 DEF Here, After
<1> QED BY <1>3, <1>4, <1>5 DEF mouse_handler

(* A whole report moves the pointer as the person did.                     *)
Delta == -127 .. 127
Pressed == 0 .. 7

LEMMA PacketRuns ==
  ASSUME NEW s \in MouseState, s.cycle = 0,
         NEW dx \in Delta, NEW dy \in Delta, NEW b \in Pressed
  PROVE  \E t \in MouseState : /\ Runs(MouseState, Takes, Packet(dx, dy, b), s, t)
                               /\ t.cycle = 0
                               /\ t.x = Within(s.x + dx, SCREEN_W)
                               /\ t.y = Within(s.y - dy, SCREEN_H)
                               /\ t.buttons = b
<1> DEFINE f == 8 + b + (IF dx < 0 THEN 16 ELSE 0) + (IF dy < 0 THEN 32 ELSE 0)
           p1 == [data |-> f, pos |-> 1]
           p2 == [data |-> dx % 256, pos |-> 2]
           p3 == [data |-> dy % 256, pos |-> 3]
           s1 == [cycle |-> 1, b0 |-> f, b1 |-> s.b1, x |-> s.x, y |-> s.y, buttons |-> s.buttons]
           s2 == [cycle |-> 2, b0 |-> f, b1 |-> dx % 256, x |-> s.x, y |-> s.y, buttons |-> s.buttons]
           t  == [cycle |-> 0, b0 |-> f, b1 |-> dx % 256,
                  x |-> Within(s.x + dx, SCREEN_W), y |-> Within(s.y - dy, SCREEN_H), buttons |-> b]
<1>0. dx \in -127 .. 127 /\ dy \in -127 .. 127 /\ b \in 0 .. 7
  BY DEF Delta, Pressed
<1>1. f \in 0 .. 255 /\ Bit(f, 8) /\ f % 8 = b
  BY <1>0 DEF Bit
<1>2. /\ dx % 256 \in 0 .. 255 /\ dy % 256 \in 0 .. 255
      /\ Signed(dx % 256) = dx /\ Signed(dy % 256) = dy
  <2>1. \A v \in -127 .. 127 : v % 256 \in 0 .. 255 /\ Signed(v % 256) = v
    BY SignedType
  <2> HIDE DEF Signed
  <2> QED BY <1>0, <2>1
<1> DEFINE dx8 == dx % 256
           dy8 == dy % 256
<1> HIDE DEF f, dx8, dy8
<1>3. /\ p1 \in Byte /\ p1.data = f /\ p1.pos = 1
      /\ p2 \in Byte /\ p2.data = dx8 /\ p2.pos = 2
      /\ p3 \in Byte /\ p3.data = dy8 /\ p3.pos = 3
  BY <1>1, <1>2 DEF Byte, dx8, dy8
<1>4. /\ s1 \in MouseState /\ s1.cycle = 1 /\ s1 = After(s, f)
  <2>1. s1 = After(s, f)
    BY <1>1 DEF After
  <2>2. s1 \in MouseState /\ s1.cycle = 1
    BY <1>1 DEF MouseState
  <2> QED BY <2>1, <2>2
<1>5. /\ s2 \in MouseState /\ s2.cycle = 2 /\ s2 = After(s1, dx8)
  <2>1. s2 = After(s1, dx8)
    BY DEF After, dx8
  <2>2. s2 \in MouseState /\ s2.cycle = 2
    BY <1>1, <1>2 DEF MouseState, dx8
  <2> QED BY <2>1, <2>2
<1>6. /\ t \in MouseState /\ t = After(s2, dy8)
  <2>1. s.x \in Nat /\ s.y \in Nat /\ s.x + dx \in Int /\ s.y - dy \in Int
    BY <1>0 DEF MouseState
  <2>2. /\ Clamp(s.x + dx, SCREEN_W) = Within(s.x + dx, SCREEN_W)
        /\ Clamp(s.y - dy, SCREEN_H) = Within(s.y - dy, SCREEN_H)
        /\ Within(s.x + dx, SCREEN_W) \in Nat /\ Within(s.y - dy, SCREEN_H) \in Nat
    BY <2>1, ClampType, MouseAssumption
  <2>3. s2.cycle = 2 /\ s2.b0 = f /\ s2.b1 = dx8 /\ s2.x = s.x /\ s2.y = s.y
    BY DEF MouseState, dx8
  <2>4. t \in MouseState
    BY <1>0, <1>1, <1>2, <2>2 DEF MouseState
  <2>5. After(s2, dy8) = [cycle |-> 0, b0 |-> f, b1 |-> dx8,
                          x |-> Clamp(s.x + dx, SCREEN_W), y |-> Clamp(s.y - dy, SCREEN_H),
                          buttons |-> b]
    <3> HIDE DEF s2
    <3> QED BY <1>1, <1>2, <2>3 DEF After, dx8, dy8
  <2> QED BY <2>2, <2>4, <2>5 DEF dx8
<1>7. /\ t.cycle = 0 /\ t.x = Within(s.x + dx, SCREEN_W) /\ t.y = Within(s.y - dy, SCREEN_H)
      /\ t.buttons = b
  OBVIOUS
<1>8. Packet(dx, dy, b) = <<p1, p2, p3>>
  BY DEF Packet, f
<1> HIDE DEF p1, p2, p3, s1, s2, t, Byte, MouseState
<1>9. <<s, p1, s1>> \in Takes /\ <<s1, p2, s2>> \in Takes /\ <<s2, p3, t>> \in Takes
  BY <1>3, <1>4, <1>5, <1>6, TakesMeans
<1>10. /\ Runs(MouseState, Takes, <<p1>>, s, s1) /\ Runs(MouseState, Takes, <<p2>>, s1, s2)
       /\ Runs(MouseState, Takes, <<p3>>, s2, t)
  BY <1>3, <1>4, <1>5, <1>6, <1>9, RunsOne
<1>11. /\ <<p1>> \in Seq(Byte) /\ <<p2>> \in Seq(Byte) /\ <<p3>> \in Seq(Byte)
       /\ <<p1>> \o <<p2>> \in Seq(Byte) /\ (<<p1>> \o <<p2>>) \o <<p3>> = <<p1, p2, p3>>
  <2>1. <<p1>> \o <<p2>> = <<p1, p2>> /\ <<p1, p2>> \in Seq(Byte) /\ <<p3>> \in Seq(Byte)
    BY <1>3, TwoInputs
  <2>2. <<p1, p2, p3>> \in Seq(Byte) /\ Len(<<p1, p2, p3>>) = 3
    BY <1>3
  <2>3. <<p1, p2>> \o <<p3>> \in Seq(Byte) /\ Len(<<p1, p2>> \o <<p3>>) = 3
    BY <1>3
  <2>4. \A i \in 1 .. 3 : (<<p1, p2>> \o <<p3>>)[i] = <<p1, p2, p3>>[i]
    OBVIOUS
  <2> DEFINE u == <<p1, p2>> \o <<p3>>
             v == <<p1, p2, p3>>
  <2> HIDE DEF u, v
  <2>5. u = v
    BY <2>2, <2>3, <2>4, SeqEqual DEF u, v
  <2> QED BY <1>3, <2>1, <2>5, TwoInputs DEF u, v
<1>12. Runs(MouseState, Takes, <<p1>> \o <<p2>>, s, s2)
  BY <1>4, <1>5, <1>10, <1>11, RunsBoth
<1>13. Runs(MouseState, Takes, (<<p1>> \o <<p2>>) \o <<p3>>, s, t)
  <2> DEFINE two == <<p1>> \o <<p2>>
             one == <<p3>>
  <2>1. /\ two \in Seq(Byte) /\ one \in Seq(Byte)
        /\ Runs(MouseState, Takes, two, s, s2) /\ Runs(MouseState, Takes, one, s2, t)
    BY <1>10, <1>11, <1>12
  <2> HIDE DEF two, one
  <2>2. Runs(MouseState, Takes, two \o one, s, t)
    BY <1>5, <1>6, <2>1, RunsBoth
  <2> QED BY <2>2 DEF two, one
<1>14. Runs(MouseState, Takes, Packet(dx, dy, b), s, t)
  BY <1>8, <1>11, <1>13
<1> QED BY <1>6, <1>7, <1>14

LEMMA NextAuxType == TypeOK => NextAux \in Seq(Byte)
<1> SUFFICES ASSUME TypeOK PROVE NextAux \in Seq(Byte)
  OBVIOUS
<1>1. obuf.byte \in Byte /\ auxq \in Seq(Byte)
  BY PortType DEF TypeOK, I8042TypeOK
<1> HIDE DEF Byte
<1> QED BY <1>1 DEF NextAux

(* Reading the port takes the first byte on its way from the mouse, or     *)
(* none of them.                                                           *)
LEMMA AuxTaken ==
  ASSUME TypeOK, obuf.full, obuf.aux, obuf' = Emptied, auxq' = auxq
  PROVE  /\ NextAux \in Seq(Byte) /\ NextAux # << >>
         /\ Head(NextAux) = obuf.byte /\ NextAux' = Tail(NextAux)
<1> DEFINE b == obuf.byte
<1>1. b \in Byte /\ auxq \in Seq(Byte) /\ ~obuf'.full
  BY PortType DEF TypeOK, I8042TypeOK
<1>2. NextAux = <<b>> \o auxq /\ NextAux' = << >> \o auxq
  BY <1>1 DEF NextAux
<1> HIDE DEF b, Byte
<1>3. NextAux \in Seq(Byte) /\ NextAux # << >> /\ Head(NextAux) = b
  BY <1>1, <1>2
<1>4. Tail(<<b>> \o auxq) = auxq
  <2> DEFINE t == Tail(<<b>> \o auxq)
  <2>1. t \in Seq(Byte) /\ Len(t) = Len(auxq) /\ \A i \in 1 .. Len(auxq) : t[i] = auxq[i]
    BY <1>1
  <2> HIDE DEF t
  <2>2. t = auxq
    BY <1>1, <2>1, SeqEqual
  <2> QED BY <2>2 DEF t
<1> QED BY <1>1, <1>2, <1>3, <1>4, ConcatEmptySeq DEF b

LEMMA AuxLeft ==
  ASSUME TypeOK, ~(obuf.full /\ obuf.aux), obuf' = Emptied, auxq' = auxq
  PROVE  NextAux' = NextAux
BY PortType DEF NextAux

(* Loading the buffer moves a byte, a report adds three.                   *)
LEMMA AuxLoaded ==
  ASSUME TypeOK, LoadByte
  PROVE  NextAux' = NextAux /\ ~obuf.full /\ obuf'.full
<1>1. auxq \in Seq(Byte)
  BY DEF TypeOK, I8042TypeOK
<1>2. CASE LoadAux
  <2>1. /\ ~obuf.full /\ auxq # << >> /\ auxq' = Tail(auxq)
        /\ obuf' = [full |-> TRUE, aux |-> TRUE, byte |-> Head(auxq)]
    BY <1>2 DEF LoadAux, LoadFrom
  <2>2. NextAux = << >> \o auxq /\ NextAux' = <<Head(auxq)>> \o Tail(auxq)
    BY <2>1 DEF NextAux
  <2> HIDE DEF Byte
  <2> QED BY <1>1, <2>1, <2>2, HeadAndTail, ConcatEmptySeq
<1>3. CASE LoadReply \/ LoadKbd
  <2>1. /\ ~obuf.full /\ auxq' = auxq /\ obuf'.full /\ ~obuf'.aux
    BY <1>3 DEF LoadReply, LoadKbd, LoadFrom
  <2> QED BY <2>1 DEF NextAux
<1> QED BY <1>2, <1>3 DEF LoadByte, Load

LEMMA AuxMoved ==
  ASSUME TypeOK, NEW p \in Seq(Byte), obuf' = obuf, auxq' = auxq \o p
  PROVE  NextAux' = NextAux \o p
<1> DEFINE first == IF obuf.full /\ obuf.aux THEN <<obuf.byte>> ELSE << >>
<1>1. first' = first /\ NextAux = first \o auxq /\ NextAux' = first \o (auxq \o p)
  BY DEF NextAux
<1>2. obuf.byte \in Byte /\ auxq \in Seq(Byte)
  BY PortType DEF TypeOK, I8042TypeOK
<1> HIDE DEF Byte
<1>3. first \in Seq(Byte)
  BY <1>2
<1> HIDE DEF first
<1>4. first \o (auxq \o p) = (first \o auxq) \o p
  BY <1>2, <1>3, ConcatAssociative, SMTT(30)
<1> QED BY <1>1, <1>4

(* Neither the driver nor the bytes on their way nor the person moves.     *)
LEMMA FollowStays ==
  ASSUME Follows, main # "boot", UNCHANGED <<machine, mouseVars, pointer>>,
         Prompt => NextAux' = NextAux
  PROVE  Follows'
<1>1. Prompt' = Prompt
  BY DEF Prompt
<1>2. Here' = Here
  BY DEF Here, mouseVars, posVars
<1> SUFFICES ASSUME Prompt PROVE Follows'
  BY <1>1 DEF Follows
<1>4. PICK t \in MouseState : /\ Runs(MouseState, Takes, NextAux, Here, t)
                              /\ t.cycle = 0
                              /\ pointer = [x |-> t.x, y |-> t.y, buttons |-> t.buttons]
  BY DEF Follows
<1>5. Runs(MouseState, Takes, NextAux', Here', t)
  BY <1>2, <1>4
<1> HIDE DEF MouseState, Takes
<1> QED BY <1>4, <1>5 DEF Follows

(* The mouse interrupt takes the first byte on its way.                    *)
LEMMA FollowTakes ==
  ASSUME SafeInv, Follows, Irq12
  PROVE  Follows'
<1>1. machine' = machine /\ main # "boot" /\ Mouse12 \in irr /\ pointer' = pointer
  BY InterruptMain DEF Irq12, ReadPort, personVars
<1> SUFFICES ASSUME Prompt PROVE Follows'
  BY <1>1 DEF Follows, Prompt
<1> DEFINE b == obuf.byte
<1>2. obuf.full /\ obuf.aux
  BY <1>1 DEF SafeInv, RequestsHaveBytes, Prompt
<1>3. obuf' = Emptied /\ auxq' = auxq /\ mouse_handler(Data)
  BY DEF Irq12, ReadPort
<1>4. b \in Byte /\ Data = b.data /\ Data \in 0 .. 255
  BY PortType DEF SafeInv, Data
<1>6. /\ NextAux \in Seq(Byte) /\ NextAux # << >> /\ Head(NextAux) = b
      /\ NextAux' = Tail(NextAux)
  BY <1>2, <1>3, AuxTaken DEF SafeInv
<1> HIDE DEF b, Byte, MouseState, Takes
<1>8. Here \in MouseState /\ Here' = After(Here, Data)
  BY <1>3, <1>4, HereType, HandlerIsAfter DEF SafeInv, TypeOK
<1>9. PICK t \in MouseState : /\ Runs(MouseState, Takes, NextAux, Here, t)
                              /\ t.cycle = 0
                              /\ pointer = [x |-> t.x, y |-> t.y, buttons |-> t.buttons]
  BY <1>1 DEF Follows
<1>10. PICK m \in MouseState : /\ <<Here, b, m>> \in Takes
                               /\ Runs(MouseState, Takes, Tail(NextAux), m, t)
  BY <1>6, <1>8, <1>9, RunsRest
<1>11. m = Here'
  BY <1>4, <1>8, <1>10, TakesMeans
<1>12. Runs(MouseState, Takes, NextAux', Here', t)
  BY <1>6, <1>10, <1>11
<1> QED BY <1>1, <1>9, <1>12 DEF Follows

(* A movement joins the bytes on their way as a whole packet.              *)
LEMMA FollowMoves ==
  ASSUME SafeInv, Follows, NEW m \in Moves, MoveMouse(m[1], m[2], m[3])
  PROVE  Follows'
<1> DEFINE dx == m[1]
           dy == m[2]
           b == m[3]
           p == Packet(dx, dy, b)
<1>1. dx \in -127 .. 127 /\ dy \in -127 .. 127 /\ b \in 0 .. 7
  BY KernelAssumption
<1>2. /\ auxq' = auxq \o p
      /\ pointer' = [x |-> Within(pointer.x + dx, SCREEN_W),
                     y |-> Within(pointer.y - dy, SCREEN_H),
                     buttons |-> b]
      /\ UNCHANGED <<machine, obuf, main, mouseVars>>
  BY DEF MoveMouse, Software, mainVars
<1> SUFFICES ASSUME Prompt, main # "boot" PROVE Follows'
  BY <1>2 DEF Follows, Prompt
<1>3. p \in Seq(Byte)
  BY <1>1, PacketType
<1>4. NextAux \in Seq(Byte) /\ Here \in MouseState
  BY NextAuxType, HereType DEF SafeInv, TypeOK
<1>5. Here' = Here
  BY <1>2 DEF Here, mouseVars, posVars
<1>6. PICK t \in MouseState : /\ Runs(MouseState, Takes, NextAux, Here, t)
                              /\ t.cycle = 0
                              /\ pointer = [x |-> t.x, y |-> t.y, buttons |-> t.buttons]
  BY DEF Follows
<1> HIDE DEF dx, dy, b
<1>7. t.cycle = 0 /\ dx \in Delta /\ dy \in Delta /\ b \in Pressed
  BY <1>1, <1>6 DEF Delta, Pressed
<1> HIDE DEF MouseState, Takes
<1>8. PICK u \in MouseState : /\ Runs(MouseState, Takes, p, t, u)
                              /\ u.cycle = 0
                              /\ u.x = Within(t.x + dx, SCREEN_W)
                              /\ u.y = Within(t.y - dy, SCREEN_H)
                              /\ u.buttons = b
  BY <1>6, <1>7, PacketRuns
<1>9. NextAux' = NextAux \o p
  BY <1>2, <1>3, AuxMoved DEF SafeInv
<1> HIDE DEF p, Byte
<1>10. Runs(MouseState, Takes, NextAux \o p, Here, u)
  BY <1>3, <1>4, <1>6, <1>8, RunsBoth
<1>11. Runs(MouseState, Takes, NextAux', Here', u)
  BY <1>5, <1>9, <1>10
<1>12. pointer' = [x |-> u.x, y |-> u.y, buttons |-> u.buttons]
  BY <1>2, <1>6, <1>8
<1> QED BY <1>8, <1>11, <1>12 DEF Follows

(* When the sti comes nothing is on its way, and the pointer is in the     *)
(* middle on both sides.                                                   *)
LEMMA FollowSti ==
  ASSUME SafeInv, BootInv, Sti
  PROVE  Follows'
<1>1. UNCHANGED <<machine, obuf, auxq, mouseVars, pointer>> /\ main = "boot" /\ mi = "done"
  BY DEF Sti, ioVars, personVars
<1> SUFFICES ASSUME Prompt PROVE Follows'
  BY <1>1 DEF Follows, Prompt
<1>2. ~obuf.full /\ auxq = << >>
  BY <1>1 DEF BootInv, Exchange, MouseAnswers, Prompt
<1>3. NextAux' = << >>
  BY <1>1, <1>2 DEF NextAux
<1>4. Here' = Here /\ Here \in MouseState
  BY <1>1, HereType DEF Here, mouseVars, posVars, SafeInv, TypeOK
<1>5. /\ Here.cycle = 0
      /\ pointer = [x |-> Here.x, y |-> Here.y, buttons |-> Here.buttons]
  BY <1>1 DEF BootInv, BootFirst, Here
<1> DEFINE h == Here
<1>6. h \in MouseState /\ h.cycle = 0 /\ pointer' = [x |-> h.x, y |-> h.y, buttons |-> h.buttons]
  BY <1>1, <1>4, <1>5
<1>7. Here' = h
  BY <1>4
<1> HIDE DEF h, MouseState, Takes
<1>8. Runs(MouseState, Takes, NextAux', Here', h)
  BY <1>3, <1>6, <1>7, RunsNone
<1> QED BY <1>6, <1>8 DEF Follows

(* The rest leaves the bytes of the mouse where they are.                  *)
LEMMA FollowElsewhere ==
  ASSUME SafeInv, BootInv, Follows,
         \/ BootMouse \/ MainStep \/ Irq0 \/ Irq1 \/ Tick \/ LoadByte \/ UNCHANGED vars
         \/ \E k \in Keys : TypeKey(k)
  PROVE  Follows'
<1>1. CASE BootMouse \/ main = "boot"
  <2>1. main' = "boot"
    BY <1>1, InterruptMain, MainStepDriver
       DEF BootMouse, mainVars, Irq0, Irq1, Tick, LoadByte, TypeKey, Software, vars
  <2> QED BY <2>1 DEF Follows
<1>2. CASE ~BootMouse /\ main # "boot"
  <2>1. UNCHANGED <<machine, mouseVars, pointer>>
    BY <1>2, InterruptMain, MainStepDriver
       DEF Elsewhere, Irq0, Irq1, ReadPort, Tick, LoadByte, Load, LoadReply, LoadKbd, LoadAux, LoadFrom,
           TypeKey, Software, ioVars, personVars, vars
  <2>2. ASSUME Prompt
        PROVE  NextAux' = NextAux
    <3>1. CASE Irq1
      <4>1. ~obuf.aux /\ obuf' = Emptied /\ auxq' = auxq
        BY <2>2, <3>1, InterruptMain DEF Irq1, ReadPort, SafeInv, RequestsHaveBytes, Prompt
      <4> QED BY <4>1, AuxLeft DEF SafeInv
    <3>2. CASE LoadByte
      BY <3>2, AuxLoaded DEF SafeInv
    <3>3. CASE ~Irq1 /\ ~LoadByte
      <4>1. obuf' = obuf /\ auxq' = auxq
        BY <1>2, <3>3, MainStepDriver
           DEF Elsewhere, Irq0, Tick, TypeKey, ioVars, vars
      <4> QED BY <4>1 DEF NextAux
    <3> QED BY <3>1, <3>2, <3>3
  <2> QED BY <1>2, <2>1, <2>2, FollowStays
<1> QED BY <1>1, <1>2

LEMMA NextFollow == SafeInv /\ BootInv /\ Follows /\ [Next]_vars => Follows'
BY FollowTakes, FollowMoves, FollowSti, FollowElsewhere DEF Next

LEMMA FollowAlways ==
  ASSUME ~NoisyBoot
  PROVE  Spec => [](SafeInv /\ BootInv /\ Follows)
<1>1. Init => Follows
  BY DEF Init, Follows
<1> QED BY <1>1, InitSafe, NextSafe, InitBoot, NextBoot, NextFollow, PTL DEF Spec

(* Nothing on its way: the driver is where the person is.                  *)
LEMMA FollowsPointer ==
  ASSUME SafeInv, BootInv, Follows
  PROVE  PointerFollows
<1> SUFFICES ASSUME Prompt, mi # "start", NextAux = << >>
             PROVE  pointer = [x |-> mouse_x, y |-> mouse_y, buttons |-> mouse_buttons]
  BY DEF PointerFollows
<1>1. CASE main = "boot"
  BY <1>1 DEF BootInv, BootFirst
<1>2. CASE main # "boot"
  <2>1. PICK t \in MouseState : /\ Runs(MouseState, Takes, NextAux, Here, t)
                                /\ pointer = [x |-> t.x, y |-> t.y, buttons |-> t.buttons]
    BY <1>2 DEF Follows
  <2>2. Here \in MouseState
    BY HereType DEF SafeInv, TypeOK
  <2>3. Here = t
    BY <2>1, <2>2, RunsNone
  <2> QED BY <2>1, <2>3 DEF Here
<1> QED BY <1>1, <1>2

(* Something on its way: it is the byte that is due.                       *)
LEMMA FollowsInStep ==
  ASSUME SafeInv, Follows
  PROVE  InStep
<1> SUFFICES ASSUME Prompt, main # "boot", NextAux # << >>
             PROVE  mouse_cycle + 1 = Head(NextAux).pos
  BY DEF InStep
<1>1. PICK t \in MouseState : Runs(MouseState, Takes, NextAux, Here, t)
  BY DEF Follows
<1>2. Here \in MouseState /\ NextAux \in Seq(Byte) /\ Here.cycle = mouse_cycle
  BY HereType, NextAuxType DEF SafeInv, TypeOK, Here
<1> HIDE DEF MouseState, Byte
<1> DEFINE b == Head(NextAux)
<1>3. b \in Byte
  BY <1>2
<1>4. PICK m \in MouseState : <<Here, b, m>> \in Takes
  BY <1>1, <1>2, RunsRest
<1> HIDE DEF b
<1>5. b.pos = Here.cycle + 1
  BY <1>2, <1>3, <1>4, TakesMeans
<1> QED BY <1>2, <1>5 DEF b

-----------------------------------------------------------------------------
(* Back in step.                                                           *)

(* The driver has lost its place when a handler runs on a request whose    *)
(* byte is gone: a byte of the mouse is dropped or an old one is taken a   *)
(* second time.  mouse_init leaves at most one such request of each kind.  *)
KbdStray   == Kbd \in irr /\ ~(obuf.full /\ ~obuf.aux)
MouseStray == Mouse12 \in irr /\ ~(obuf.full /\ obuf.aux)

(* No report is sent before the mouse has been told to, and then the       *)
(* acknowledgement is in front of it.                                      *)
ReportsFirst ==
  /\ mi \notin {"ackEnable", "done"} => ~streaming
  /\ ~streaming => moved = 0
  /\ mi = "ackEnable" /\ streaming => NextAux # << >>

(* Two bytes with bit 3 clear end every packet, from wherever the driver   *)
(* takes them.  So it is enough that they are still on their way when it   *)
(* loses its place, and that it waits for a first byte, or takes the last  *)
(* of the two for a third, when only that one is left.                     *)
LastClear(q) == \A i \in 1 .. Len(q) : i > Len(q) - 2 => ~Bit(q[i].data, 8)
Enough(q) ==
  /\ mi = "ackEnable" => Len(q) >= 4
  /\ main = "boot" \/ KbdStray => Len(q) >= 3
  /\ MouseStray => Len(q) >= 2
InPlace(q) ==
  main # "boot" => /\ Len(q) = 1 => mouse_cycle # 1
                   /\ Len(q) = 0 => mouse_cycle = 0
EndsInStep ==
  ClearMoves /\ moved >= 1 => LastClear(NextAux) /\ Enough(NextAux) /\ InPlace(NextAux)

BackInv == ReportsFirst /\ EndsInStep

LEMMA TailClear ==
  ASSUME NEW q \in Seq(Byte), q # << >>, LastClear(q)
  PROVE  LastClear(Tail(q)) /\ Len(Tail(q)) = Len(q) - 1 /\ Len(q) \in Nat \ {0}
<1> HIDE DEF Byte
<1>1. /\ Len(q) \in Nat /\ Len(q) > 0 /\ Len(Tail(q)) = Len(q) - 1
      /\ \A i \in 1 .. Len(q) - 1 : Tail(q)[i] = q[i + 1]
  OBVIOUS
<1>2. ASSUME NEW i \in 1 .. Len(q) - 1, i > (Len(q) - 1) - 2
      PROVE  ~Bit(Tail(q)[i].data, 8)
  <2>1. i + 1 \in 1 .. Len(q) /\ i + 1 > Len(q) - 2
    BY <1>1, <1>2
  <2> QED BY <1>1, <2>1 DEF LastClear
<1> QED BY <1>1, <1>2 DEF LastClear

LEMMA JoinedAt ==
  ASSUME NEW S, NEW q \in Seq(S), NEW p \in Seq(S)
  PROVE  /\ Len(q) \in Nat /\ Len(q \o p) = Len(q) + Len(p)
         /\ \A i \in 1 .. Len(p) : (q \o p)[Len(q) + i] = p[i]
OBVIOUS

(* What leaves the bytes of the mouse where they are and makes no request  *)
(* stray.                                                                  *)
LEMMA BackStays ==
  ASSUME BackInv, UNCHANGED <<moved, mi, streaming, mouse_cycle>>, NextAux' = NextAux,
         main' = "boot" <=> main = "boot",
         KbdStray' => KbdStray, MouseStray' => MouseStray
  PROVE  BackInv'
<1>1. ReportsFirst'
  BY DEF BackInv, ReportsFirst
<1>2. ASSUME ClearMoves, moved >= 1
      PROVE  LastClear(NextAux)' /\ Enough(NextAux)' /\ InPlace(NextAux)'
  <2>1. LastClear(NextAux) /\ Enough(NextAux) /\ InPlace(NextAux)
    BY <1>2 DEF BackInv, EndsInStep
  <2> QED BY <2>1 DEF LastClear, Enough, InPlace
<1> QED BY <1>1, <1>2 DEF BackInv, EndsInStep, ClearMoves

(* A handler runs on the byte it reads.  The driver is out of step by its  *)
(* position only.                                                          *)
LEMMA BackTurns ==
  ASSUME MouseTypeOK, NEW d \in 0 .. 255, mouse_handler(d)
  PROVE  /\ mouse_cycle' \in 0 .. 2
         /\ ~Bit(d, 8) => mouse_cycle' = IF mouse_cycle = 1 THEN 2 ELSE 0
BY DEF MouseTypeOK, mouse_handler, FirstByte, SecondByte, ThirdByte

(* The mouse interrupt: the keyboard's would have been taken first.        *)
LEMMA BackTakes ==
  ASSUME SafeInv, BackInv, Irq12
  PROVE  BackInv'
<1>1. /\ main # "boot" /\ main' # "boot" /\ mi = "done" /\ mi' = mi /\ UNCHANGED <<moved, streaming>>
      /\ obuf' = Emptied /\ auxq' = auxq /\ irr' \subseteq irr \ {Mouse12} /\ mouse_handler(Data)
  BY InterruptMain DEF Irq12, ReadPort, Dropped, personVars, mouse_handler
<1>2. Kbd \notin irr /\ Mouse12 \in irr
  <2>1. Taken(Mouse12) /\ isr = {}
    BY DEF Irq12, Interrupt, SafeInv, AllAcknowledged
  <2>2. Kbd \in irr => Deliverable(Kbd)
    BY <2>1 DEF Deliverable, Unmasked, MasterOf, Kbd
  <2>3. Mouse12 \in irr /\ (Deliverable(Kbd) => MasterOf(Mouse12) <= MasterOf(Kbd))
    BY <2>1 DEF Taken, Deliverable, Line
  <2> QED BY <2>2, <2>3 DEF MasterOf, Kbd, Mouse12, Cascade
<1>3. ~KbdStray' /\ ~MouseStray'
  BY <1>1, <1>2 DEF KbdStray, MouseStray
<1>4. TypeOK /\ MouseTypeOK /\ Data \in 0 .. 255 /\ Data = obuf.byte.data /\ mouse_cycle \in 0 .. 2
  BY PortType DEF SafeInv, TypeOK, Data, MouseTypeOK
<1>5. ReportsFirst'
  BY <1>1 DEF BackInv, ReportsFirst
<1>6. ASSUME ClearMoves, moved >= 1
      PROVE  LastClear(NextAux)' /\ Enough(NextAux)' /\ InPlace(NextAux)'
  <2>1. LastClear(NextAux) /\ Enough(NextAux) /\ InPlace(NextAux)
    BY <1>6 DEF BackInv, EndsInStep
  <2>2. Enough(NextAux)'
    BY <1>1, <1>3 DEF Enough
  <2>3. mouse_cycle' \in 0 .. 2
    BY <1>1, <1>4, BackTurns
  <2>4. CASE obuf.full /\ obuf.aux
    <3> DEFINE q == NextAux
    <3>1. q \in Seq(Byte) /\ q # << >> /\ Head(q) = obuf.byte /\ NextAux' = Tail(q)
      BY <1>1, <1>4, <2>4, AuxTaken
    <3>2. /\ LastClear(Tail(q)) /\ Len(Tail(q)) = Len(q) - 1 /\ Len(q) \in Nat \ {0}
      BY <2>1, <3>1, TailClear
    <3>3. Len(q) <= 2 => mouse_cycle' = IF mouse_cycle = 1 THEN 2 ELSE 0
      <4>1. ASSUME Len(q) <= 2 PROVE ~Bit(Data, 8)
        <5>1. Head(q) = q[1] /\ 1 \in 1 .. Len(q) /\ 1 > Len(q) - 2
          <6> HIDE DEF Byte
          <6> QED BY <3>1, <3>2, <4>1
        <5> QED BY <1>4, <2>1, <3>1, <5>1 DEF LastClear
      <4> QED BY <1>1, <1>4, <4>1, BackTurns
    <3>4. LastClear(NextAux)'
      BY <3>1, <3>2 DEF LastClear
    <3>5. /\ Len(q) - 1 = 1 => mouse_cycle' # 1
          /\ Len(q) - 1 = 0 => mouse_cycle' = 0
      <4> DEFINE n == Len(q)
      <4>1. n \in Nat \ {0} /\ (n = 1 => mouse_cycle # 1)
        BY <1>1, <2>1, <3>2 DEF InPlace
      <4>2. n <= 2 => \/ mouse_cycle = 1 /\ mouse_cycle' = 2
                      \/ mouse_cycle # 1 /\ mouse_cycle' = 0
        BY <3>3
      <4> HIDE DEF n
      <4>3. (n - 1 = 1 => mouse_cycle' # 1) /\ (n - 1 = 0 => mouse_cycle' = 0)
        BY <4>1, <4>2
      <4> QED BY <4>3 DEF n
    <3> HIDE DEF q
    <3> QED BY <2>2, <3>1, <3>2, <3>4, <3>5 DEF InPlace
  <2>5. CASE ~(obuf.full /\ obuf.aux)
    <3>1. NextAux' = NextAux
      BY <1>1, <1>4, <2>5, AuxLeft
    <3>2. Len(NextAux) >= 2
      BY <1>2, <2>1, <2>5 DEF Enough, MouseStray
    <3> QED BY <2>1, <2>2, <3>1, <3>2 DEF LastClear, InPlace
  <2> QED BY <2>4, <2>5
<1> QED BY <1>1, <1>5, <1>6 DEF BackInv, EndsInStep, ClearMoves

(* The keyboard interrupt: it takes nothing of the mouse, or it is stray.  *)
LEMMA BackKeyboard ==
  ASSUME SafeInv, BackInv, Irq1
  PROVE  BackInv'
<1>1. /\ main # "boot" /\ main' # "boot" /\ mi = "done"
      /\ UNCHANGED <<mi, moved, streaming, mouse_cycle>>
      /\ obuf' = Emptied /\ auxq' = auxq /\ irr' \subseteq irr \ {Kbd} /\ Kbd \in irr
  BY InterruptMain DEF Irq1, ReadPort, Dropped, personVars, mouseVars
<1>2. ~KbdStray' /\ TypeOK
  BY <1>1 DEF KbdStray, SafeInv
<1>3. CASE ~(obuf.full /\ obuf.aux)
  <2>1. NextAux' = NextAux
    BY <1>1, <1>2, <1>3, AuxLeft
  <2>2. MouseStray' => MouseStray
    BY <1>1, <1>3 DEF MouseStray
  <2> QED BY <1>1, <1>2, <2>1, <2>2, BackStays
<1>4. CASE obuf.full /\ obuf.aux
  <2> DEFINE q == NextAux
  <2>1. q \in Seq(Byte) /\ q # << >> /\ NextAux' = Tail(q)
    BY <1>1, <1>2, <1>4, AuxTaken
  <2>2. ASSUME ClearMoves, moved >= 1
        PROVE  LastClear(NextAux)' /\ Enough(NextAux)' /\ InPlace(NextAux)'
    <3>1. LastClear(q) /\ Len(q) >= 3
      BY <1>1, <1>4, <2>2 DEF BackInv, EndsInStep, Enough, KbdStray
    <3>2. /\ LastClear(Tail(q)) /\ Len(Tail(q)) = Len(q) - 1 /\ Len(q) \in Nat \ {0}
      BY <2>1, <3>1, TailClear
    <3> HIDE DEF q
    <3>3. LastClear(NextAux)'
      BY <2>1, <3>2 DEF LastClear
    <3>4. Len(NextAux') \in Nat /\ Len(NextAux') >= 2
      BY <2>1, <3>1, <3>2
    <3>5. Enough(NextAux)'
      BY <1>1, <1>2, <3>4 DEF Enough
    <3>6. InPlace(NextAux)'
      <4> DEFINE n == Len(NextAux')
      <4>1. n # 1 /\ n # 0
        <5>1. n \in Nat /\ n >= 2
          BY <3>4
        <5> HIDE DEF n
        <5> QED BY <5>1
      <4> QED BY <4>1, Zenon DEF InPlace
    <3> QED BY <3>3, <3>5, <3>6
  <2>3. ReportsFirst'
    BY <1>1 DEF BackInv, ReportsFirst
  <2> QED BY <1>1, <2>2, <2>3 DEF BackInv, EndsInStep, ClearMoves
<1> QED BY <1>3, <1>4

(* A report: its first byte has bit 3 set, the other two have it clear.    *)
LEMMA BackMoves ==
  ASSUME SafeInv, BackInv, NEW m \in Moves, MoveMouse(m[1], m[2], m[3])
  PROVE  BackInv'
<1> DEFINE p == Packet(m[1], m[2], m[3])
           q == NextAux
<1>1. /\ streaming /\ moved' = moved + 1 /\ auxq' = auxq \o p
      /\ UNCHANGED <<main, mi, mouse_cycle, streaming, obuf, irr>>
  BY DEF MoveMouse, Software, mainVars, mouseVars, picVars
<1>2. /\ p \in Seq(Byte) /\ Len(p) = 3
      /\ p[2].data = m[1] % 256 /\ p[3].data = m[2] % 256
  <2>1. m[1] \in -127 .. 127 /\ m[2] \in -127 .. 127 /\ m[3] \in 0 .. 7
    BY KernelAssumption
  <2>2. p \in Seq(Byte)
    BY <2>1, PacketType
  <2> QED BY <2>2 DEF Packet
<1>3. q \in Seq(Byte) /\ NextAux' = q \o p
  BY <1>1, <1>2, NextAuxType, AuxMoved DEF SafeInv
<1> HIDE DEF p, q
<1>4. /\ Len(q) \in Nat /\ Len(q \o p) = Len(q) + 3
      /\ (q \o p)[Len(q) + 2] = p[2] /\ (q \o p)[Len(q) + 3] = p[3]
  <2> HIDE DEF Byte
  <2>1. p \in Seq(Byte) /\ q \in Seq(Byte)
    BY <1>2, <1>3
  <2>2. 2 \in 1 .. Len(p) /\ 3 \in 1 .. Len(p)
    BY <1>2
  <2>3. /\ Len(q) \in Nat /\ Len(q \o p) = Len(q) + Len(p)
        /\ \A i \in 1 .. Len(p) : (q \o p)[Len(q) + i] = p[i]
    BY <2>1, JoinedAt
  <2>4. (q \o p)[Len(q) + 2] = p[2] /\ (q \o p)[Len(q) + 3] = p[3]
    BY <2>2, <2>3
  <2>5. Len(p) = 3
    BY <1>2
  <2> QED BY <2>3, <2>4, <2>5
<1>5. mi = "ackEnable" => Len(q) >= 1
  <2>1. mi = "ackEnable" => q # << >>
    BY <1>1 DEF BackInv, ReportsFirst, q
  <2> HIDE DEF Byte
  <2> QED BY <1>3, <1>4, <2>1
<1>6. ReportsFirst'
  <2>1. q \o p # << >>
    BY <1>4
  <2> QED BY <1>1, <1>3, <2>1 DEF BackInv, ReportsFirst
<1>7. ASSUME ClearMoves
      PROVE  LastClear(NextAux')
  <2>1. ~Bit(p[2].data, 8) /\ ~Bit(p[3].data, 8)
    BY <1>2, <1>7 DEF ClearMoves
  <2>2. ASSUME NEW i \in 1 .. Len(q) + 3, i > (Len(q) + 3) - 2
        PROVE  i = Len(q) + 2 \/ i = Len(q) + 3
    BY <1>4, <2>2
  <2> QED BY <1>3, <1>4, <2>1, <2>2 DEF LastClear
<1>8. Enough(NextAux)' /\ InPlace(NextAux)'
  BY <1>3, <1>4, <1>5, <1>1 DEF Enough, InPlace
<1> QED BY <1>6, <1>7, <1>8 DEF BackInv, EndsInStep, ClearMoves, LastClear

(* The conversation of mouse_init.                                         *)
LEMMA BackBoot ==
  ASSUME SafeInv, BackInv, BootMouse
  PROVE  BackInv'
<1>1. TypeOK /\ main = "boot" /\ main' = "boot" /\ moved' = moved
  BY DEF BootMouse, SafeInv, mainVars, personVars
<1>2. CASE AckEnable
  <2>1. /\ mi = "ackEnable" /\ mi' = "done" /\ obuf' = Emptied
        /\ UNCHANGED <<auxq, streaming, mouse_cycle>>
    BY <1>2 DEF AckEnable, ReadAck, InitStep, Poll
  <2>2. ReportsFirst'
    BY <1>1, <2>1 DEF BackInv, ReportsFirst
  <2>3. ASSUME ClearMoves, moved >= 1
        PROVE  LastClear(NextAux)' /\ Enough(NextAux)' /\ InPlace(NextAux)'
    <3> DEFINE q == NextAux
    <3>1. LastClear(q) /\ Len(q) >= 4
      BY <2>1, <2>3 DEF BackInv, EndsInStep, Enough
    <3>2. CASE obuf.full /\ obuf.aux
      <4>1. q \in Seq(Byte) /\ q # << >> /\ NextAux' = Tail(q)
        BY <1>1, <2>1, <3>2, AuxTaken
      <4>2. /\ LastClear(Tail(q)) /\ Len(Tail(q)) = Len(q) - 1 /\ Len(q) \in Nat \ {0}
        BY <3>1, <4>1, TailClear
      <4> HIDE DEF q
      <4>3. LastClear(NextAux)' /\ Len(NextAux') >= 3
        BY <3>1, <4>1, <4>2 DEF LastClear
      <4> QED BY <1>1, <2>1, <4>3 DEF Enough, InPlace
    <3>3. CASE ~(obuf.full /\ obuf.aux)
      <4>1. NextAux' = NextAux
        BY <1>1, <2>1, <3>3, AuxLeft
      <4> QED BY <1>1, <2>1, <3>1, <4>1 DEF LastClear, Enough, InPlace
    <3> QED BY <3>2, <3>3
  <2> QED BY <1>1, <2>2, <2>3 DEF BackInv, EndsInStep, ClearMoves
<1>3. CASE ~AckEnable
  <2>1. /\ mi \notin {"ackEnable", "done"} /\ mi' # "done" /\ (mi' = "ackEnable" => SendEnable)
        /\ mi' # "ackEnable" => (streaming' => streaming)
    <3>1. CASE SendEnable
      BY <3>1 DEF SendEnable, InitStep
    <3>2. CASE SendDefaults
      <4>1. ~streaming' /\ mi = "sendDefaults" /\ mi' = "ackDefaults"
        BY <3>2 DEF SendDefaults, InitStep, MouseCommand
      <4> QED BY <4>1
    <3>3. CASE ~SendEnable /\ ~SendDefaults
      BY <1>3, <3>3 DEF BootMouse, mouse_init, EnableAux, AskStatus, ReadStatus, WriteStatus,
                        AckDefaults, ReadAck, InitStep
    <3> QED BY <3>1, <3>2, <3>3
  <2>2. ~streaming /\ moved = 0
    BY <2>1 DEF BackInv, ReportsFirst
  <2>3. mi' = "ackEnable" /\ streaming' => NextAux' # << >>
    <3>1. ASSUME SendEnable, streaming'
          PROVE  NextAux' # << >>
      <4>1. obuf' = obuf /\ auxq' = Append(auxq, Plain8(ACK))
        BY <3>1 DEF SendEnable, MouseCommand
      <4>2. auxq \in Seq(Byte) /\ obuf.byte \in Byte
        BY <1>1, PortType DEF TypeOK, I8042TypeOK
      <4>3. Plain8(ACK) \in Byte
        BY DEF Plain8, ACK, Byte
      <4> DEFINE first == IF obuf.full /\ obuf.aux THEN <<obuf.byte>> ELSE << >>
                 a == Plain8(ACK)
      <4>4. NextAux' = first \o Append(auxq, a)
        BY <4>1 DEF NextAux
      <4> HIDE DEF Byte, a
      <4>5. first \in Seq(Byte) /\ a \in Byte
        BY <4>2, <4>3 DEF a
      <4> HIDE DEF first
      <4>6. first \o Append(auxq, a) # << >>
        BY <4>2, <4>5
      <4> QED BY <4>4, <4>6
    <3> QED BY <2>1, <3>1
  <2>4. ReportsFirst'
    BY <1>1, <2>1, <2>2, <2>3 DEF ReportsFirst
  <2> QED BY <1>1, <2>2, <2>4 DEF BackInv, EndsInStep
<1> QED BY <1>2, <1>3

LEMMA BackSti ==
  ASSUME SafeInv, BackInv, Sti
  PROVE  BackInv'
<1>1. /\ main = "boot" /\ UNCHANGED <<moved, mi, streaming, mouse_cycle, obuf, auxq, irr>>
      /\ mi = "done"
  BY DEF Sti, ioVars, picVars, personVars, mouseVars
<1>2. NextAux' = NextAux
  BY <1>1 DEF NextAux
<1>3. ReportsFirst'
  BY <1>1, <1>2 DEF BackInv, ReportsFirst
<1>4. ASSUME ClearMoves, moved >= 1
      PROVE  LastClear(NextAux)' /\ Enough(NextAux)' /\ InPlace(NextAux)'
  <2>1. LastClear(NextAux) /\ Len(NextAux) >= 3
    BY <1>1, <1>4 DEF BackInv, EndsInStep, Enough
  <2> QED BY <1>1, <1>2, <2>1 DEF LastClear, Enough, InPlace
<1> QED BY <1>1, <1>3, <1>4 DEF BackInv, EndsInStep, ClearMoves

(* The rest leaves the bytes of the mouse alone and makes no request stray *)
(* that was not.                                                           *)
LEMMA BackElsewhere ==
  ASSUME SafeInv, BackInv,
         \/ MainStep \/ Irq0 \/ Tick \/ LoadByte \/ UNCHANGED vars
         \/ \E k \in Keys : TypeKey(k)
  PROVE  BackInv'
<1>1. /\ UNCHANGED <<moved, mi, streaming, mouse_cycle>>
      /\ main' = "boot" <=> main = "boot"
  BY InterruptMain, MainStepDriver
     DEF Elsewhere, Irq0, Tick, LoadByte, Load, LoadReply, LoadKbd, LoadAux, LoadFrom, TypeKey,
         Software, ioVars, mainVars, mouseVars, personVars, vars
<1>2. CASE LoadByte
  <2>1. NextAux' = NextAux /\ ~obuf.full /\ obuf'.full
    BY <1>2, AuxLoaded DEF SafeInv
  <2>2. /\ Kbd \in irr' => Kbd \in irr \/ ~obuf'.aux
        /\ Mouse12 \in irr' => Mouse12 \in irr \/ obuf'.aux
    BY <1>2 DEF LoadByte, Load, LoadReply, LoadKbd, LoadAux, LoadFrom, Kbd, Mouse12
  <2> QED BY <1>1, <2>1, <2>2, BackStays DEF KbdStray, MouseStray
<1>3. CASE ~LoadByte
  <2>1. /\ obuf' = obuf /\ auxq' = auxq
        /\ Kbd \in irr' => Kbd \in irr
        /\ Mouse12 \in irr' => Mouse12 \in irr
    <3>1. obuf' = obuf /\ auxq' = auxq /\ (irr' \subseteq irr \/ irr' = irr \cup {Timer})
      BY <1>3, MainStepDriver DEF Elsewhere, Irq0, Tick, TypeKey, ioVars, picVars, vars
    <3> QED BY <3>1 DEF Timer, Kbd, Mouse12
  <2>2. NextAux' = NextAux
    BY <2>1 DEF NextAux
  <2> QED BY <1>1, <2>1, <2>2, BackStays DEF KbdStray, MouseStray
<1> QED BY <1>2, <1>3

LEMMA NextBack == SafeInv /\ BackInv /\ [Next]_vars => BackInv'
BY BackTakes, BackKeyboard, BackMoves, BackBoot, BackSti, BackElsewhere DEF Next

(* Whatever the person does and whenever, and on every machine, latching   *)
(* and slow ones too: once the bytes of a report have been taken, and of   *)
(* every report the movements have bit 3 clear, the driver waits for the   *)
(* first byte of a packet, however out of step it was (ps2_mouse.c:70-86). *)
THEOREM BackInStepAlways == Spec => []BackInStep
<1>1. Init => BackInv
  BY DEF Init, I8042Init, MouseInit, BackInv, ReportsFirst, EndsInStep
<1>2. SafeInv /\ BackInv => BackInStep
  <2> SUFFICES ASSUME BackInv, ClearMoves, main # "boot", moved >= 1, NextAux = << >>
               PROVE  mouse_cycle = 0
    BY DEF BackInStep
  <2> QED BY DEF BackInv, EndsInStep, InPlace
<1> QED BY <1>1, <1>2, InitSafe, NextSafe, NextBack, PTL DEF Spec

-----------------------------------------------------------------------------
(* What is proved of the kernel, if nobody types while mouse_init polls.   *)

LEMMA ExchangeKeyboardOn == BootInv => KeyboardLeftOn
<1>1. \A v \in {65, 67} : Bit(v, 1) /\ ~Bit(v, 16)
  BY DEF Bit
<1>2. ASSUME BootInv, "slow" \notin machine, mi \notin {"start", "askStatus"}
      PROVE  ctl \in {65, 67}
  BY <1>2 DEF BootInv, Exchange
<1> QED BY <1>1, <1>2 DEF KeyboardLeftOn, KbdInt, KbdOff

(* If nobody types while mouse_init polls: once every byte of the mouse    *)
(* has been taken, the pointer is where the movements, each held back at   *)
(* the edges of the screen, have brought it, on every prompt machine and   *)
(* whatever else the two devices share the buffer with (ps2_mouse.c:       *)
(* 70-114).                                                                *)
THEOREM PointerFollowsAlways ==
  ASSUME ~NoisyBoot
  PROVE  Spec => []PointerFollows
BY FollowAlways, FollowsPointer, PTL

(* If nobody types while mouse_init polls, the whole inductive invariant   *)
(* of the kernel holds: the types, nothing in service, every request has   *)
(* its byte, the conversation of mouse_init, the codes on their way, the   *)
(* driver in step with the packets of the mouse, the keyboard left on      *)
(* (ps2_mouse.c:46-114, ps2_keyboard.c:41-113, pit.c:30, kernel.c:95-127). *)
THEOREM KernelInvAlways ==
  ASSUME ~NoisyBoot
  PROVE  Spec => []KernelInv
<1>1. SafeInv => /\ TypeOK /\ RingInv /\ GetNeverEmpty /\ RequestsHaveBytes
                 /\ AllAcknowledged /\ PointerOnScreen
  BY DEF SafeInv, OnScreen, PointerOnScreen
<1>2. SafeInv /\ BootInv /\ Follows /\ KeysInv => KernelInv
  BY <1>1, FollowsInStep, ExchangeKeyboardOn DEF KernelInv, BootInv, KeysInv
<1> QED BY <1>2, FollowAlways, InitKeys, NextKeys, PTL DEF Spec
=============================================================================
