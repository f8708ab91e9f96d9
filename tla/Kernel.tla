------------------------------- MODULE Kernel -------------------------------
(***************************************************************************)
(* QuetzalOS from pic_remap on: the tail of the boot in kernel_main with   *)
(* interrupts off, then the main loop and the three interrupt handlers.    *)
(*                                                                         *)
(* One core.  The handlers sit behind interrupt gates (idt.c:60-64), so    *)
(* each runs to its iretq uninterrupted and is one action, EOIs included;  *)
(* between any two steps of the main loop an interrupt may be taken.  The  *)
(* devices act at any time.                                                *)
(***************************************************************************)
EXTENDS Keyboard, Mouse, Pit

CONSTANTS
  Keys,        \* make codes of the keys the person types
  Moves,       \* movements <<dx, dy, buttons>> the person makes
  MaxActs,     \* bound: keys typed and movements made
  NoisyBoot    \* the person types while mouse_init polls

ASSUME KernelAssumption ==
  /\ Keys \subseteq 0 .. 127 \ (ShiftMake \cup {E0 - 128})
  /\ \A k \in Keys : Unshifted[k] # NUL
  /\ MaxActs \in Nat
  /\ Moves \subseteq (-127 .. 127) \X (-127 .. 127) \X (0 .. 7)
  /\ NoisyBoot \in BOOLEAN

VARIABLES
  main,        \* where kernel_main is
  cursor,      \* what mouse_draw_cursor has loaded: x, y, buttons
  handled,     \* the characters the loop has dealt with
  typed,       \* the characters the person has typed
  moved,       \* how many movements the person has made
  pointer,     \* where they have moved the pointer, and the buttons
  acks         \* what mouse_init took for the mouse's acknowledgements

mainVars   == <<main, cursor, handled>>
personVars == <<typed, moved, pointer>>
vars == <<kbdVars, rdVars, picVars, ioVars, mouseVars, ticks, mainVars, personVars, acks>>

MainPc == {"boot", "frame", "drain", "loadX", "loadY", "loadButtons", "swap", "halted"}

TypeOK ==
  /\ KeyboardTypeOK /\ PicTypeOK /\ I8042TypeOK /\ MouseTypeOK /\ PitTypeOK
  /\ main \in MainPc
  /\ cursor \in [x : Nat, y : Nat, buttons : 0 .. 7]
  /\ handled \in Seq(Char)
  /\ typed \in Seq(Char)
  /\ moved \in 0 .. MaxActs
  /\ pointer \in [x : Nat, y : Nat, buttons : 0 .. 7]
  /\ acks \in Seq(0 .. 255)

Centre == [x |-> SCREEN_W \div 2, y |-> SCREEN_H \div 2, buttons |-> 0]

(* idt_init, pit_init and keyboard_init are done, mouse_init comes next.   *)
Init ==
  /\ KeyboardInit /\ PicInit /\ I8042Init /\ MouseInit /\ PitInit
  /\ main = "boot"
  /\ cursor = [x |-> 0, y |-> 0, buttons |-> 0]
  /\ handled = << >>
  /\ typed = << >>
  /\ moved = 0
  /\ pointer = Centre
  /\ acks = << >>

-----------------------------------------------------------------------------
(* The rest of the boot.                                                   *)

BootMouse ==
  /\ main = "boot"
  /\ mouse_init
  /\ acks' = IF mi \in {"ackDefaults", "ackEnable"} THEN Append(acks, Data) ELSE acks
  /\ UNCHANGED <<kbdVars, rdVars, ticks, mainVars, personVars>>

(* sti; the first script and the first frame follow.                       *)
Sti ==
  /\ main = "boot"
  /\ mi = "done"
  /\ main' = "frame"
  /\ UNCHANGED <<kbdVars, rdVars, picVars, ioVars, mouseVars, ticks, cursor, handled, personVars, acks>>

-----------------------------------------------------------------------------
(* The main loop.                                                          *)

Elsewhere == <<picVars, ioVars, mouseVars, ticks, personVars, acks>>

(* Clear, widgets, base line: up to the drain loop.                        *)
BeginFrame ==
  /\ main = "frame"
  /\ main' = "drain"
  /\ StartDrain
  /\ UNCHANGED <<cursor, handled, Elsewhere>>

(* A step of keyboard_has_char or keyboard_getchar; the drain loop ends    *)
(* when the ring was seen empty.                                           *)
Drain ==
  /\ main = "drain"
  /\ ReaderStep
  /\ main' = IF rd'.pc = "idle" THEN "loadX" ELSE "drain"
  /\ UNCHANGED <<cursor, handled, Elsewhere>>

(* The body of the drain loop: the console takes the character.            *)
Dispatch ==
  /\ main = "drain"
  /\ Used
  /\ handled' = IF got # NUL THEN Append(handled, got) ELSE handled
  /\ UNCHANGED <<main, cursor, Elsewhere>>

(* mouse_draw_cursor loads three atomics one after the other.              *)
CursorLoad(from, to, c) ==
  /\ main = from
  /\ main' = to
  /\ cursor' = c
  /\ UNCHANGED <<kbdVars, rdVars, handled, Elsewhere>>
LoadX == CursorLoad("loadX", "loadY", [cursor EXCEPT !.x = mouse_x])
LoadY == CursorLoad("loadY", "loadButtons", [cursor EXCEPT !.y = mouse_y])
LoadButtons == CursorLoad("loadButtons", "swap", [cursor EXCEPT !.buttons = mouse_buttons])

(* Swap, then hlt.                                                         *)
Halt ==
  /\ main = "swap"
  /\ main' = "halted"
  /\ UNCHANGED <<kbdVars, rdVars, cursor, handled, Elsewhere>>

MainStep == BeginFrame \/ Drain \/ Dispatch \/ LoadX \/ LoadY \/ LoadButtons \/ Halt

-----------------------------------------------------------------------------
(* Interrupts.                                                             *)

(* The CPU takes the most urgent request; after the handler's iretq the    *)
(* main loop goes on where it was, behind the hlt if it was halted.        *)
Interrupt(n) ==
  /\ main # "boot"
  /\ Taken(n)
  /\ main' = IF main = "halted" THEN "frame" ELSE main
  /\ UNCHANGED <<cursor, handled, personVars, acks>>

(* irq0_stub.                                                              *)
MutIrq0 ==             \* no EOI
  /\ Interrupt(Timer)
  /\ pit_handler
  /\ irr' = irr \ {Timer}
  /\ isr' = InService(Timer)
  /\ UNCHANGED <<kbdVars, rdVars, ioVars, mouseVars>>
Irq0 ==
  /\ Interrupt(Timer)
  /\ pit_handler
  /\ irr' = irr \ {Timer}
  /\ isr' = EoiMaster(InService(Timer))
  /\ UNCHANGED <<kbdVars, rdVars, ioVars, mouseVars>>

(* Reading port 0x60 in the handler of line n.                             *)
ReadPort(n) ==
  /\ obuf' = Emptied
  /\ irr' = Dropped(irr \ {n})
  /\ UNCHANGED <<machine, reply, kbdq, auxq, ctl, streaming>>

(* irq1_stub.                                                              *)
Irq1 ==
  /\ Interrupt(Kbd)
  /\ ReadPort(Kbd)
  /\ keyboard_handler(Data)
  /\ isr' = EoiMaster(InService(Kbd))
  /\ UNCHANGED <<mouseVars, ticks>>

(* irq12_stub: both chips get an EOI.                                      *)
MutIrq12 ==            \* the master only
  /\ Interrupt(Mouse12)
  /\ ReadPort(Mouse12)
  /\ mouse_handler(Data)
  /\ isr' = EoiMaster(InService(Mouse12))
  /\ UNCHANGED <<kbdVars, rdVars, ticks>>
Irq12 ==
  /\ Interrupt(Mouse12)
  /\ ReadPort(Mouse12)
  /\ mouse_handler(Data)
  /\ isr' = EoiMaster(EoiSlave(InService(Mouse12)))
  /\ UNCHANGED <<kbdVars, rdVars, ticks>>

-----------------------------------------------------------------------------
(* The devices and the person.                                             *)

Software == <<kbdVars, rdVars, mouseVars, ticks, mainVars, acks>>

(* A tick while the last one is still latched is lost.                     *)
Tick ==
  /\ irr' = irr \cup {Timer}
  /\ UNCHANGED <<Software, ioVars, isr, personVars>>

LoadByte == Load /\ UNCHANGED <<Software, personVars>>

MayAct == Len(typed) + moved < MaxActs /\ (NoisyBoot \/ main # "boot")

(* Bound: the person does not get further ahead than the ring has room for *)
(* (what a full ring does is in KeyboardSystem).                           *)
TypeKey(k) ==
  /\ MayAct
  /\ Len(typed) - Len(handled) < KBD_BUFFER_SIZE - 1
  /\ typed' = Append(typed, Unshifted[k])
  /\ kbdq' = kbdq \o <<Plain8(k), Plain8(k + 128)>>
  /\ UNCHANGED <<Software, picVars, machine, obuf, reply, auxq, ctl, streaming, moved, pointer>>

(* The three bytes of a report: buttons, the always-one bit 3 and the two  *)
(* signs; the low eight bits of each movement.                             *)
Packet(dx, dy, buttons) ==
  << [data |-> 8 + buttons + (IF dx < 0 THEN 16 ELSE 0) + (IF dy < 0 THEN 32 ELSE 0), pos |-> 1],
     [data |-> dx % 256, pos |-> 2],
     [data |-> dy % 256, pos |-> 3] >>

Within(v, size) == IF v < 0 THEN 0 ELSE IF v >= size THEN size - 1 ELSE v

MoveMouse(dx, dy, buttons) ==
  /\ streaming
  /\ MayAct
  /\ moved' = moved + 1
  /\ auxq' = auxq \o Packet(dx, dy, buttons)
  /\ pointer' = [x |-> Within(pointer.x + dx, SCREEN_W),
                 y |-> Within(pointer.y - dy, SCREEN_H),
                 buttons |-> buttons]
  /\ UNCHANGED <<Software, picVars, machine, obuf, reply, kbdq, ctl, streaming, typed>>

-----------------------------------------------------------------------------
Next ==
  \/ BootMouse \/ Sti
  \/ MainStep
  \/ Irq0 \/ Irq1 \/ Irq12
  \/ Tick \/ LoadByte
  \/ \E k \in Keys : TypeKey(k)
  \/ \E m \in Moves : MoveMouse(m[1], m[2], m[3])

(* The CPU never stops executing, the controller fills its buffer, the     *)
(* timer runs.  A tick is far longer than any handler, so the timer cannot *)
(* hold off the lower lines for ever: they are taken when they are         *)
(* repeatedly the most urgent.                                             *)
Fairness ==
  /\ WF_vars(BootMouse) /\ WF_vars(Sti) /\ WF_vars(MainStep)
  /\ WF_vars(Irq0) /\ SF_vars(Irq1) /\ SF_vars(Irq12)
  /\ WF_vars(Tick) /\ SF_vars(LoadByte)

Spec == Init /\ [][Next]_vars
FairSpec == Spec /\ Fairness

-----------------------------------------------------------------------------
(* Properties.                                                             *)

(* Whenever the main loop runs, no request is in service: every path of    *)
(* every handler has acknowledged what it was called for, on both chips,   *)
(* so nothing is blocked for ever (pit.c:30, ps2_keyboard.c:46, 71, 96,    *)
(* ps2_mouse.c:113-114).                                                   *)
AllAcknowledged == isr = {}

(* Answers come in time and no request outlives its byte.                  *)
Prompt == machine \cap {"slow", "latch"} = {}

(* What the person typed is, in order, what the console has been given,    *)
(* what the reader holds, what waits in the ring, and what still has to    *)
(* be delivered: no key is lost, doubled, reordered or invented between    *)
(* the keyboard and the console, whatever the interleaving, as long as the *)
(* ring has room (kernel.c:108-115, ps2_keyboard.c:41-113) and the machine *)
(* is prompt.  Of the codes on their way every other one, counted from the *)
(* last, which releases a key, means a character.                          *)
Coming == (IF obuf.full /\ ~obuf.aux /\ main # "boot" THEN <<obuf.byte>> ELSE << >>) \o kbdq
Meant(codes) ==
  [i \in 1 .. Len(codes) \div 2 |-> Unshifted[codes[(2 * i) - 1 + (Len(codes) % 2)].data]]
Held == IF At("use") THEN <<got>> ELSE << >>
KeysConserved == Prompt => typed = handled \o Held \o Contents \o Meant(Coming)

(* The driver is in step with the mouse: the byte it takes next is the one *)
(* of the packet that mouse_cycle says ("Bit 3 of packet byte 0 is always  *)
(* 1 in PS/2 mouse packets", ps2_mouse.c:74), on a prompt machine.         *)
NextAux == (IF obuf.full /\ obuf.aux THEN <<obuf.byte>> ELSE << >>) \o auxq
InStep ==
  Prompt /\ main # "boot" /\ NextAux # << >> => mouse_cycle + 1 = Head(NextAux).pos

(* Once every byte has been taken the pointer is where the movements, each *)
(* held back at the edges of the screen, have brought it, on a prompt      *)
(* machine (ps2_mouse.c:87-105).                                           *)
PointerFollows ==
  Prompt /\ mi # "start" /\ NextAux = << >> =>
    pointer = [x |-> mouse_x, y |-> mouse_y, buttons |-> mouse_buttons]

(* The pointer and the position the cursor is drawn at never leave the     *)
(* screen, even when the driver is out of step with the mouse.             *)
PointerOnScreen ==
  /\ mi # "start" => mouse_x < SCREEN_W /\ mouse_y < SCREEN_H
  /\ main \in {"swap", "halted"} => cursor.x < SCREEN_W /\ cursor.y < SCREEN_H

(* Turning the mouse on leaves the keyboard on: the command byte written   *)
(* back is the one that was read, with the mouse interrupt added, unless   *)
(* it is read too early (ps2_mouse.c:52-59).                               *)
KeyboardLeftOn == "slow" \notin machine /\ mi \notin {"start", "askStatus"} => KbdInt /\ ~KbdOff

(* What mouse_init reads after a command is the acknowledgement the        *)
(* comment names, if there is a mouse that answers in time: "ACK (0xFA)"   *)
(* (ps2_mouse.c:63, 66).                                                   *)
AcksAreAcks == "mouse" \in machine /\ "slow" \notin machine => \A i \in 1 .. Len(acks) : acks[i] = ACK

(* A request is there because the byte that raised it is in the buffer,    *)
(* unless the machine latches requests.                                    *)
RequestsHaveBytes ==
  "latch" \notin machine =>
    /\ Kbd \in irr => obuf.full /\ ~obuf.aux
    /\ Mouse12 \in irr => obuf.full /\ obuf.aux

(* The conversation of mouse_init, with nobody typing and answers in time: *)
(* nothing is on its way but the one answer it waits for, which is still   *)
(* in its queue or in the buffer already; and the command byte it ends     *)
(* with is the one of the firmware with the mouse port and its interrupt   *)
(* on (ps2_mouse.c:46-66).                                                 *)
Answer(q, aux, b) ==
  \/ ~obuf.full /\ q = <<b>>
  \/ obuf = [full |-> TRUE, aux |-> aux, byte |-> b] /\ q = << >>
MouseAnswers == mi \in {"ackDefaults", "ackEnable"} /\ "mouse" \in machine
Exchange ==
  "slow" \notin machine =>
    /\ mi = "start" => ctl = 97
    /\ mi \in {"askStatus", "readStatus", "writeStatus"} => ctl = 65
    /\ mi \notin {"start", "askStatus", "readStatus", "writeStatus"} => ctl = 67
    /\ mi = "writeStatus" => status = 67
    /\ mi = "readStatus" => Answer(reply, FALSE, Plain8(65)) /\ auxq = << >>
    /\ MouseAnswers => Answer(auxq, TRUE, Plain8(ACK))
    /\ mi # "readStatus" => reply = << >>
    /\ main = "boot" /\ mi # "readStatus" /\ ~MouseAnswers => ~obuf.full /\ auxq = << >>
    /\ main = "boot" => kbdq = << >>

(* What is typed arrives as make and break codes in turn, a break code     *)
(* last; the driver, which has seen no other, is in no other mode.         *)
Alternates(codes) ==
  \A i \in 1 .. Len(codes) :
    IF (Len(codes) - i) % 2 = 0 THEN codes[i].data - 128 \in Keys ELSE codes[i].data \in Keys
PlainCodes ==
  Prompt => /\ ~is_e0 /\ ~shift_pressed
            /\ Alternates(Coming)
            /\ Len(typed) - Len(handled) <= KBD_BUFFER_SIZE - 1

(* Nothing of the loop or of the person happens before the sti.            *)
BootFirst ==
  /\ main # "boot" => mi = "done"
  /\ main = "boot" => pointer = Centre /\ mouse_cycle = 0
  /\ main = "boot" /\ mi # "start" =>
       Centre = [x |-> mouse_x, y |-> mouse_y, buttons |-> mouse_buttons]

(* The types, and what holds at every step of every schedule, on every     *)
(* machine: nothing stays in service, the pointer and the cursor stay on   *)
(* the screen, driver and mouse agree where a packet begins, the keyboard  *)
(* is not switched off (pit.c:30, ps2_mouse.c:52-59, 74, 98-114); with     *)
(* what these rest on.                                                     *)
KernelInv ==
  /\ TypeOK /\ RingInv /\ GetNeverEmpty /\ RequestsHaveBytes
  /\ AllAcknowledged /\ PointerOnScreen
  /\ BootFirst /\ Exchange /\ PlainCodes
  /\ InStep /\ KeyboardLeftOn

(* However a byte too many or too few has put the driver out of step with  *)
(* the mouse, one report of a movement brings it back, because bit 3 tells *)
(* the first byte of a packet from the others (ps2_mouse.c:74): behind the *)
(* last byte it waits for a first byte again.  It needs the other two      *)
(* bytes of every report to have bit 3 clear.                              *)
ClearMoves == \A m \in Moves : ~Bit(m[1] % 256, 8) /\ ~Bit(m[2] % 256, 8)
BackInStep == ClearMoves /\ main # "boot" /\ moved >= 1 /\ NextAux = << >> => mouse_cycle = 0

(* The boot ends, whether or not there is a mouse, because every poll is   *)
(* bounded (ps2_mouse.c:15-24), and the loop never hangs: it draws frame   *)
(* after frame, because the timer ends every hlt (kernel.c:95-127).        *)
FramesForever == []<>(main = "frame")

(* Every key reaches the console, even one that arrives between the last   *)
(* test of the ring and the hlt (kernel.c:108, 126), on a prompt machine.  *)
KeysHandled == Prompt => <>[](handled = typed)

(* Every movement reaches the cursor that is drawn: mouse_init has turned  *)
(* the reports and their interrupt on, and nothing holds line 12 off for   *)
(* ever (ps2_mouse.c:52-66, idt.c:45-46), on a prompt machine.             *)
CursorFollows == Prompt => <>[](moved > 0 => cursor = pointer)
=============================================================================
