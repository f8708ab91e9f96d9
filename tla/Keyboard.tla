------------------------------ MODULE Keyboard ------------------------------
(***************************************************************************)
(* The PS/2 keyboard driver, kernel/drivers/ps2_keyboard.c.                *)
(*                                                                         *)
(* IRQ1 runs keyboard_handler, which decodes one scan code and pushes at   *)
(* most one character into a ring; the main loop takes characters out with *)
(* keyboard_has_char and keyboard_getchar.  The interrupt gate keeps IF    *)
(* clear for the whole handler (idt.c:62), so the handler is one action;   *)
(* the reader can be interrupted between any two of its accesses to the    *)
(* ring, so each access of the reader is an action of its own.             *)
(*                                                                         *)
(* Names starting with Mut are faulty variants of the definition that      *)
(* follows them; no specification uses them.                               *)
(***************************************************************************)
EXTENDS Integers, FiniteSets, Sequences

CONSTANTS
  KBD_BUFFER_SIZE,   \* slots of the ring (256 in the code)
  Char,              \* the characters of the scan code tables
  Unshifted,         \* scancode_ascii_unshifted
  Shifted            \* scancode_ascii_shifted

(* The C character 0: "no character".                                      *)
NUL == "NUL"

(* Scan codes the handler names.                                           *)
E0         == 224
ShiftMake  == {42, 54}       \* 0x2A left, 0x36 right
ShiftBreak == {170, 182}     \* 0xAA left, 0xB6 right
Scancode   == 0 .. 255

(* !(scancode & 0x80): a key goes down.                                    *)
IsMake(sc) == sc < 128

(* The arrow keys, as the extended branch of the handler translates them.  *)
ArrowChar == [sc \in {72, 80, 75, 77} |->
                CASE sc = 72 -> "^" [] sc = 80 -> "v" [] sc = 75 -> "<" [] OTHER -> ">"]

ASSUME RingAssumption ==
  /\ KBD_BUFFER_SIZE \in Nat
  /\ KBD_BUFFER_SIZE > 1

ASSUME TableAssumption ==
  /\ NUL \notin Char
  /\ {"^", "v", "<", ">"} \subseteq Char
  /\ Unshifted \in [0 .. 127 -> Char \cup {NUL}]
  /\ Shifted \in [0 .. 127 -> Char \cup {NUL}]

Slot == 0 .. KBD_BUFFER_SIZE - 1

VARIABLES
  kbd_buffer,      \* the ring, [Slot -> Char \cup {NUL}]
  kbd_head,        \* next slot the handler writes
  kbd_tail,        \* next slot the reader reads
  is_e0,           \* the last scan code was the 0xE0 prefix
  shift_pressed,   \* a shift key is taken to be down
  rd,              \* the reader: where it is and its locals
  got              \* what keyboard_getchar returned last

ringVars == <<kbd_buffer, kbd_head, kbd_tail>>
kbdVars  == <<kbd_buffer, kbd_head, kbd_tail, is_e0, shift_pressed>>
rdVars   == <<rd, got>>

(* Reader positions: idle (the drain loop is not running), about to load   *)
(* head and tail in keyboard_has_char, then head, tail, slot and the store *)
(* of tail in keyboard_getchar, and at the use of the returned character.  *)
ReaderPc == {"idle", "hasHead", "hasTail", "getHead", "getTail", "read", "store", "use"}

KeyboardTypeOK ==
  /\ kbd_buffer \in [Slot -> Char \cup {NUL}]
  /\ kbd_head \in Slot
  /\ kbd_tail \in Slot
  /\ is_e0 \in BOOLEAN
  /\ shift_pressed \in BOOLEAN
  /\ rd \in [pc : ReaderPc, head : Slot, tail : Slot, ch : Char \cup {NUL}]
  /\ got \in Char \cup {NUL}

(* Static storage, then keyboard_init.                                     *)
KeyboardInit ==
  /\ kbd_buffer = [s \in Slot |-> NUL]
  /\ kbd_head = 0
  /\ kbd_tail = 0
  /\ is_e0 = FALSE
  /\ shift_pressed = FALSE
  /\ rd = [pc |-> "idle", head |-> 0, tail |-> 0, ch |-> NUL]
  /\ got = NUL

-----------------------------------------------------------------------------
(* The handler.                                                            *)

MutInc(s) == s + 1
Inc(s) == (s + 1) % KBD_BUFFER_SIZE

(* Push ch: the same lines in the extended and in the plain branch.        *)
MutPushEarly(ch) ==    \* gives up one slot too early
  IF ch # NUL /\ Inc(kbd_head) # kbd_tail /\ Inc(Inc(kbd_head)) # kbd_tail
  THEN /\ kbd_buffer' = [kbd_buffer EXCEPT ![kbd_head] = ch]
       /\ kbd_head' = Inc(kbd_head)
  ELSE UNCHANGED <<kbd_buffer, kbd_head>>
Push(ch) ==
  IF ch # NUL /\ Inc(kbd_head) # kbd_tail
  THEN /\ kbd_buffer' = [kbd_buffer EXCEPT ![kbd_head] = ch]
       /\ kbd_head' = Inc(kbd_head)
  ELSE UNCHANGED <<kbd_buffer, kbd_head>>

(* The 0xE0 prefix: the next scan code is an extended one.                 *)
Prefix(sc) ==
  /\ sc = E0
  /\ is_e0' = TRUE
  /\ UNCHANGED <<kbd_buffer, kbd_head, shift_pressed>>

(* The byte after the prefix: only the make codes of the arrow keys give a *)
(* character, everything else is swallowed.                                *)
ExtendedChar(sc) == IF sc \in DOMAIN ArrowChar THEN ArrowChar[sc] ELSE NUL

MutExtended(sc) ==     \* is_e0 is left set
  /\ is_e0
  /\ sc # E0
  /\ Push(ExtendedChar(sc))
  /\ UNCHANGED <<shift_pressed, is_e0>>
Extended(sc) ==
  /\ is_e0
  /\ sc # E0
  /\ is_e0' = FALSE
  /\ Push(ExtendedChar(sc))
  /\ UNCHANGED shift_pressed

(* A shift key goes down or up.                                            *)
ShiftKey(sc) ==
  /\ ~is_e0
  /\ \/ sc \in ShiftMake /\ shift_pressed' = TRUE
     \/ sc \in ShiftBreak /\ shift_pressed' = FALSE
  /\ UNCHANGED <<kbd_buffer, kbd_head, is_e0>>

(* Every other key: a make code is looked up in one of the two tables, a   *)
(* break code is ignored.                                                  *)
PlainChar(sc) == IF ~IsMake(sc) THEN NUL
                 ELSE IF shift_pressed THEN Shifted[sc] ELSE Unshifted[sc]

Plain(sc) ==
  /\ ~is_e0
  /\ sc \notin {E0} \cup ShiftMake \cup ShiftBreak
  /\ Push(PlainChar(sc))
  /\ UNCHANGED <<shift_pressed, is_e0>>

(* keyboard_handler, for the scan code sc that inb(0x60) returned.  Every  *)
(* path ends with the EOI, which belongs to module Pic.                    *)
keyboard_handler(sc) ==
  /\ Prefix(sc) \/ Extended(sc) \/ ShiftKey(sc) \/ Plain(sc)
  /\ UNCHANGED <<kbd_tail, rd, got>>

(* The character sc would push in this state, NUL if none.                 *)
CharOf(sc) == IF sc = E0 \/ (~is_e0 /\ sc \in ShiftMake \cup ShiftBreak) THEN NUL
              ELSE IF is_e0 THEN ExtendedChar(sc) ELSE PlainChar(sc)

-----------------------------------------------------------------------------
(* The reader: while (keyboard_has_char()) { ch = keyboard_getchar(); ... } *)

At(p) == rd.pc = p

(* The reader between two calls: the locals of the drivers are gone.       *)
ReaderAt(p) == [pc |-> p, head |-> 0, tail |-> 0, ch |-> NUL]

StartDrain ==          \* the main loop reaches its drain loop
  /\ At("idle")
  /\ rd' = ReaderAt("hasHead")
  /\ UNCHANGED <<kbdVars, got>>

HasLoadHead ==
  /\ At("hasHead")
  /\ rd' = [rd EXCEPT !.pc = "hasTail", !.head = kbd_head]
  /\ UNCHANGED <<kbdVars, got>>

MutHasTest ==          \* the loop goes on when the ring is empty
  /\ At("hasTail")
  /\ rd' = ReaderAt("getHead")
  /\ UNCHANGED <<kbdVars, got>>
HasTest ==             \* loads tail and compares
  /\ At("hasTail")
  /\ rd' = ReaderAt(IF rd.head # kbd_tail THEN "getHead" ELSE "idle")
  /\ UNCHANGED <<kbdVars, got>>

GetLoadHead ==
  /\ At("getHead")
  /\ rd' = [rd EXCEPT !.pc = "getTail", !.head = kbd_head]
  /\ UNCHANGED <<kbdVars, got>>

GetTest ==             \* loads tail; equal to head, the call returns 0
  /\ At("getTail")
  /\ IF rd.head = kbd_tail
     THEN /\ rd' = ReaderAt("use")
          /\ got' = NUL
     ELSE /\ rd' = [rd EXCEPT !.pc = "read", !.tail = kbd_tail]
          /\ UNCHANGED got
  /\ UNCHANGED kbdVars

GetRead ==             \* ch = kbd_buffer[tail]
  /\ At("read")
  /\ rd' = [rd EXCEPT !.pc = "store", !.ch = kbd_buffer[rd.tail]]
  /\ UNCHANGED <<kbdVars, got>>

MutGetStore ==         \* tail is set from head: the rest of the ring is lost
  /\ At("store")
  /\ kbd_tail' = rd.head
  /\ got' = rd.ch
  /\ rd' = ReaderAt("use")
  /\ UNCHANGED <<kbd_buffer, kbd_head, is_e0, shift_pressed>>
GetStore ==            \* kbd_tail = next; return ch
  /\ At("store")
  /\ kbd_tail' = Inc(rd.tail)
  /\ got' = rd.ch
  /\ rd' = ReaderAt("use")
  /\ UNCHANGED <<kbd_buffer, kbd_head, is_e0, shift_pressed>>

(* The main loop has dealt with the character and tests the ring again.    *)
Used ==
  /\ At("use")
  /\ rd' = ReaderAt("hasHead")
  /\ UNCHANGED <<kbdVars, got>>

(* Steps of the two driver calls.                                          *)
ReaderStep == HasLoadHead \/ HasTest \/ GetLoadHead \/ GetTest \/ GetRead \/ GetStore

-----------------------------------------------------------------------------
(* What the driver promises, whoever runs its handler and its reader.      *)

(* Between its test and its use the reader relies on what it loaded: the   *)
(* ring it found non-empty stays so, because only the reader advances the  *)
(* tail, and the slot it copies is not rewritten under it, because the     *)
(* handler gives up a character rather than fill the last slot             *)
(* (ps2_keyboard.c:65, 87).                                                *)
ReaderSound ==
  /\ At("hasTail") /\ rd.head # kbd_tail => kbd_head # kbd_tail
  /\ rd.pc \in {"getHead", "getTail", "read", "store"} => kbd_head # kbd_tail
  /\ At("getTail") => rd.head # kbd_tail
  /\ rd.pc \in {"read", "store"} => rd.tail = kbd_tail
  /\ At("store") => rd.ch = kbd_buffer[kbd_tail]

(* The slots between tail and head hold characters, never the NUL the ring *)
(* was born with.                                                          *)
InRing(s) == IF kbd_tail <= kbd_head THEN kbd_tail <= s /\ s < kbd_head
                                     ELSE kbd_tail <= s \/ s < kbd_head
RingFilled == \A s \in Slot : InRing(s) => kbd_buffer[s] \in Char

RingInv == KeyboardTypeOK /\ ReaderSound /\ RingFilled

(* Once keyboard_has_char answered yes, keyboard_getchar returns a real    *)
(* character: the test of kernel.c:112 for 0 never has to save the loop,   *)
(* whatever interrupts came in between (kernel.c:108-109).                 *)
GetNeverEmpty == At("use") => got \in Char

(* The ring is a first-in first-out queue of N-1 characters whose users    *)
(* may interleave at any step: the abstract queue is what lies between     *)
(* tail and head (ps2_keyboard.c:61-69, 83-91, 105-113).                   *)
Waiting == IF kbd_tail <= kbd_head THEN kbd_head - kbd_tail
                                   ELSE kbd_head + KBD_BUFFER_SIZE - kbd_tail
SlotAt(i) == IF kbd_tail + i < KBD_BUFFER_SIZE THEN kbd_tail + i
                                               ELSE kbd_tail + i - KBD_BUFFER_SIZE
Contents == [i \in 1 .. Waiting |-> kbd_buffer[SlotAt(i - 1)]]
Queue == INSTANCE CharQueue WITH
           Char <- Char,
           Capacity <- KBD_BUFFER_SIZE - 1,
           q <- Contents,
           out <- got
QueueSpec == Queue!Spec
=============================================================================
