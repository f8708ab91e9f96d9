--------------------------- MODULE KeyboardProofs ---------------------------
(***************************************************************************)
(* Theorems about the keyboard driver and its system, for every ring size, *)
(* every pair of scan code tables and every choice of keys and bounds.     *)
(*                                                                         *)
(* First, lemmas about the driver and about strings of bytes, for every    *)
(* system that runs the driver: what a run of the handler and a step of    *)
(* the reader do to the ring, whatever else happens.  The argument: the    *)
(* reader alone moves the tail and the handler alone moves the head and    *)
(* writes slots, never the slot at the tail and never the head onto the    *)
(* tail; so what the reader loaded one step ago about "not empty" still    *)
(* holds at its next step, whatever interrupts it.                         *)
(*                                                                         *)
(* Then, what follows from them along every behaviour, and that what is on *)
(* the line is decoded to what was typed.                                  *)
(***************************************************************************)
EXTENDS KeyboardSystem, SequenceTheorems, FiniteSetTheorems, TLAPS

-----------------------------------------------------------------------------
(* Strings of inputs.                                                      *)

(* A machine with the states S and the steps R <<before, input, after>>,   *)
(* fed the inputs one after the other, gets from s to t; run is the state  *)
(* before each input and behind the last.                                  *)
Runs(S, R, inputs, s, t) ==
  \E run \in [1 .. Len(inputs) + 1 -> S] :
    /\ run[1] = s /\ run[Len(inputs) + 1] = t
    /\ \A i \in 1 .. Len(inputs) : <<run[i], inputs[i], run[i + 1]>> \in R

(* No input, no step.                                                      *)
LEMMA RunsNone ==
  ASSUME NEW S, NEW R, NEW s \in S, NEW t \in S
  PROVE  Runs(S, R, << >>, s, t) <=> s = t
<1>1. Len(<< >>) + 1 = 1 /\ 1 .. Len(<< >>) = {}
  OBVIOUS
<1>2. ASSUME s = t PROVE Runs(S, R, << >>, s, t)
  <2> DEFINE run == [i \in 1 .. 1 |-> s]
  <2>1. run \in [1 .. 1 -> S] /\ run[1] = s
    OBVIOUS
  <2> HIDE DEF run
  <2> QED BY <1>1, <1>2, <2>1 DEF Runs
<1>3. ASSUME Runs(S, R, << >>, s, t) PROVE s = t
  BY <1>1, <1>3 DEF Runs
<1> QED BY <1>2, <1>3

LEMMA RunsOne ==
  ASSUME NEW C, NEW S, NEW R, NEW c \in C, NEW s \in S, NEW t \in S, <<s, c, t>> \in R
  PROVE  Runs(S, R, <<c>>, s, t)
<1> DEFINE run == [i \in 1 .. 2 |-> IF i = 1 THEN s ELSE t]
<1>1. run \in [1 .. 2 -> S] /\ run[1] = s /\ run[2] = t
  OBVIOUS
<1> HIDE DEF run
<1>2. Len(<<c>>) + 1 = 2 /\ <<c>>[1] = c /\ \A i \in 1 .. Len(<<c>>) : i = 1 /\ i + 1 = 2
  OBVIOUS
<1>3. \A i \in 1 .. Len(<<c>>) : <<run[i], <<c>>[i], run[i + 1]>> \in R
  BY <1>1, <1>2, <<s, c, t>> \in R
<1> QED BY <1>1, <1>2, <1>3 DEF Runs

(* One string behind another.                                              *)
LEMMA RunsBoth ==
  ASSUME NEW C, NEW S, NEW R, NEW c \in Seq(C), NEW d \in Seq(C),
         NEW s \in S, NEW t \in S, NEW u \in S,
         Runs(S, R, c, s, t), Runs(S, R, d, t, u)
  PROVE  Runs(S, R, c \o d, s, u)
<1> DEFINE m == Len(c)
           n == Len(d)
<1>1. PICK run1 \in [1 .. m + 1 -> S] :
        /\ run1[1] = s /\ run1[m + 1] = t
        /\ \A i \in 1 .. m : <<run1[i], c[i], run1[i + 1]>> \in R
  BY DEF Runs
<1>2. PICK run2 \in [1 .. n + 1 -> S] :
        /\ run2[1] = t /\ run2[n + 1] = u
        /\ \A i \in 1 .. n : <<run2[i], d[i], run2[i + 1]>> \in R
  BY DEF Runs
<1>3. m \in Nat /\ n \in Nat /\ Len(c \o d) = m + n
  OBVIOUS
<1>4. /\ \A i \in 1 .. m : (c \o d)[i] = c[i]
      /\ \A i \in m + 1 .. m + n : (c \o d)[i] = d[i - m]
  OBVIOUS
<1> HIDE DEF m, n
<1> DEFINE run == [i \in 1 .. m + n + 1 |-> IF i <= m THEN run1[i] ELSE run2[i - m]]
<1>5. run \in [1 .. m + n + 1 -> S]
  BY <1>1, <1>2, <1>3
<1>6. /\ \A i \in 1 .. m + 1 : run[i] = run1[i]
      /\ \A i \in m + 1 .. m + n + 1 : run[i] = run2[i - m]
  BY <1>1, <1>2, <1>3
<1> HIDE DEF run
<1>7. ASSUME NEW i \in 1 .. m + n
      PROVE  <<run[i], (c \o d)[i], run[i + 1]>> \in R
  <2>1. CASE i <= m
    <3>1. i \in 1 .. m /\ i \in 1 .. m + 1 /\ i + 1 \in 1 .. m + 1
      BY <1>3, <2>1
    <3>2. (c \o d)[i] = c[i] /\ run[i] = run1[i] /\ run[i + 1] = run1[i + 1]
      BY <1>4, <1>6, <3>1
    <3> QED BY <1>1, <3>1, <3>2
  <2>2. CASE ~(i <= m)
    <3> DEFINE j == i - m
    <3>1. /\ j \in 1 .. n /\ i \in m + 1 .. m + n
          /\ i \in m + 1 .. m + n + 1 /\ i + 1 \in m + 1 .. m + n + 1 /\ (i + 1) - m = j + 1
      BY <1>3, <2>2
    <3>2. (c \o d)[i] = d[i - m]
      BY <1>4, <3>1
    <3>3. run[i] = run2[i - m] /\ run[i + 1] = run2[(i + 1) - m]
      BY <1>6, <3>1
    <3>4. (c \o d)[i] = d[j] /\ run[i] = run2[j] /\ run[i + 1] = run2[j + 1]
      BY <3>1, <3>2, <3>3
    <3> HIDE DEF j
    <3> QED BY <1>2, <3>1, <3>4
  <2> QED BY <2>1, <2>2
<1>8. run[1] = s
  BY <1>1, <1>3, <1>6
<1>9. run[m + n + 1] = u
  <2>1. m + n + 1 \in m + 1 .. m + n + 1 /\ (m + n + 1) - m = n + 1
    BY <1>3
  <2> QED BY <1>2, <1>6, <2>1
<1> QED BY <1>3, <1>5, <1>7, <1>8, <1>9 DEF Runs

(* The first input, and the rest.                                          *)
LEMMA RunsRest ==
  ASSUME NEW C, NEW S, NEW R, NEW c \in Seq(C), c # << >>,
         NEW s \in S, NEW t \in S, Runs(S, R, c, s, t)
  PROVE  \E m \in S : <<s, Head(c), m>> \in R /\ Runs(S, R, Tail(c), m, t)
<1> DEFINE n == Len(c)
<1>1. PICK run1 \in [1 .. n + 1 -> S] :
        /\ run1[1] = s /\ run1[n + 1] = t
        /\ \A i \in 1 .. n : <<run1[i], c[i], run1[i + 1]>> \in R
  BY DEF Runs
<1>2. n \in Nat /\ n > 0 /\ Len(Tail(c)) = n - 1 /\ Head(c) = c[1]
  OBVIOUS
<1>3. \A i \in 1 .. n - 1 : Tail(c)[i] = c[i + 1]
  OBVIOUS
<1> HIDE DEF n
<1> DEFINE run == [i \in 1 .. n |-> run1[i + 1]]
<1>4. run \in [1 .. n -> S] /\ \A i \in 1 .. n : run[i] = run1[i + 1]
  BY <1>1, <1>2
<1> HIDE DEF run
<1>5. ASSUME NEW i \in 1 .. n - 1
      PROVE  <<run[i], Tail(c)[i], run[i + 1]>> \in R
  <2>1. i \in 1 .. n /\ i + 1 \in 1 .. n
    BY <1>2
  <2>2. Tail(c)[i] = c[i + 1] /\ run[i] = run1[i + 1] /\ run[i + 1] = run1[(i + 1) + 1]
    BY <1>3, <1>4, <2>1
  <2> QED BY <1>1, <2>1, <2>2
<1>6. (n - 1) + 1 = n
  BY <1>2
<1>7. <<s, c[1], run1[2]>> \in R /\ run1[2] \in S
  <2>1. 1 \in 1 .. n /\ 1 + 1 = 2 /\ 2 \in 1 .. n + 1
    BY <1>2
  <2> QED BY <1>1, <2>1
<1>8. run[1] = run1[2] /\ run[n] = t
  <2>1. 1 \in 1 .. n /\ n \in 1 .. n /\ 1 + 1 = 2
    BY <1>2
  <2> QED BY <1>1, <1>4, <2>1
<1>9. Runs(S, R, Tail(c), run1[2], t)
  BY <1>2, <1>4, <1>5, <1>6, <1>8 DEF Runs
<1> QED BY <1>2, <1>7, <1>9

LEMMA TwoInputs ==
  ASSUME NEW C, NEW a \in C, NEW b \in C
  PROVE  /\ <<a>> \in Seq(C) /\ <<b>> \in Seq(C) /\ <<a, b>> \in Seq(C)
         /\ <<a>> \o <<b>> = <<a, b>>
<1>1. <<a>> \in Seq(C) /\ <<b>> \in Seq(C) /\ <<a, b>> \in Seq(C)
  OBVIOUS
<1>2. /\ <<a>> \o <<b>> \in Seq(C)
      /\ Len(<<a>> \o <<b>>) = 2 /\ Len(<<a, b>>) = 2
  BY <1>1
<1>3. \A i \in 1 .. 2 : (<<a>> \o <<b>>)[i] = <<a, b>>[i]
  OBVIOUS
<1> DEFINE s == <<a>> \o <<b>>  t == <<a, b>>
<1> HIDE DEF s, t
<1>4. s = t
  BY <1>1, <1>2, <1>3, SeqEqual DEF s, t
<1> QED BY <1>1, <1>4 DEF s, t

-----------------------------------------------------------------------------
(* Slot arithmetic.                                                        *)

(* The % of the code walks the slots in order and wraps to 0 behind the    *)
(* last (ps2_keyboard.c:64, 110).                                          *)
LEMMA IncIsNextSlot ==
  ASSUME NEW s \in Slot
  PROVE  Inc(s) = IF s = KBD_BUFFER_SIZE - 1 THEN 0 ELSE s + 1
<1>1. KBD_BUFFER_SIZE \in Nat /\ KBD_BUFFER_SIZE > 1
  BY RingAssumption
<1>2. s \in Int /\ 0 <= s /\ s <= KBD_BUFFER_SIZE - 1
  BY <1>1 DEF Slot
<1>3. CASE s = KBD_BUFFER_SIZE - 1
  <2>1. (s + 1) % KBD_BUFFER_SIZE = 0
    BY <1>1, <1>3
  <2> QED BY <2>1, <1>3 DEF Inc
<1>4. CASE s # KBD_BUFFER_SIZE - 1
  <2>1. (s + 1) % KBD_BUFFER_SIZE = s + 1
    BY <1>1, <1>2, <1>4
  <2> QED BY <2>1, <1>4 DEF Inc
<1> QED BY <1>3, <1>4

(* The next slot is a slot, and another one.                               *)
LEMMA IncType ==
  ASSUME NEW s \in Slot
  PROVE  Inc(s) \in Slot /\ Inc(s) # s
BY IncIsNextSlot, RingAssumption DEF Slot

-----------------------------------------------------------------------------
(* The handler.                                                            *)

(* What the handler pushes is a character or NUL.                          *)
LEMMA CharOfType ==
  ASSUME NEW sc \in Scancode
  PROVE  /\ ExtendedChar(sc) \in Char \cup {NUL}
         /\ PlainChar(sc) \in Char \cup {NUL}
<1>1. ExtendedChar(sc) \in Char \cup {NUL}
  BY TableAssumption DEF ExtendedChar, ArrowChar
<1>2. PlainChar(sc) \in Char \cup {NUL}
  <2>1. CASE IsMake(sc)
    <3>1. sc \in 0 .. 127
      BY <2>1 DEF IsMake, Scancode
    <3> QED BY <2>1, <3>1, TableAssumption DEF PlainChar
  <2>2. CASE ~IsMake(sc)
    BY <2>2 DEF PlainChar
  <2> QED BY <2>1, <2>2
<1> QED BY <1>1, <1>2

(* A push keeps the ring well-formed, fills the slots it claims, leaves    *)
(* the slot at the tail alone when there is one to read, and never makes a *)
(* ring that is not empty look empty (ps2_keyboard.c:61-69, 83-91).        *)
LEMMA PushKeepsRing ==
  ASSUME KeyboardTypeOK, RingFilled,
         NEW ch \in Char \cup {NUL},
         Push(ch), UNCHANGED kbd_tail
  PROVE  /\ kbd_buffer' \in [Slot -> Char \cup {NUL}]
         /\ kbd_head' \in Slot
         /\ RingFilled'
         /\ kbd_head # kbd_tail => /\ kbd_head' # kbd_tail
                                   /\ kbd_buffer'[kbd_tail] = kbd_buffer[kbd_tail]
<1>1. CASE ch # NUL /\ Inc(kbd_head) # kbd_tail
  <2>1. /\ kbd_buffer' = [kbd_buffer EXCEPT ![kbd_head] = ch]
        /\ kbd_head' = Inc(kbd_head)
        /\ kbd_head \in Slot /\ kbd_tail \in Slot
        /\ kbd_buffer \in [Slot -> Char \cup {NUL}]
        /\ ch \in Char
    BY <1>1 DEF Push, KeyboardTypeOK
  <2>2. kbd_head' \in Slot /\ kbd_buffer' \in [Slot -> Char \cup {NUL}]
    BY <2>1, IncType
  <2>3. kbd_head' = IF kbd_head = KBD_BUFFER_SIZE - 1 THEN 0 ELSE kbd_head + 1
    BY <2>1, IncIsNextSlot
  <2>4. ASSUME NEW s \in Slot, InRing(s)'
        PROVE  kbd_buffer'[s] \in Char
    <3>1. s = kbd_head \/ InRing(s)
      BY <2>1, <2>3, <2>4, <1>1, RingAssumption DEF InRing, Slot
    <3> QED BY <3>1, <2>1, <2>2 DEF RingFilled
  <2>5. RingFilled'
    BY <2>4 DEF RingFilled
  <2> QED BY <1>1, <2>1, <2>2, <2>5
<1>2. CASE ~(ch # NUL /\ Inc(kbd_head) # kbd_tail)
  <2>1. UNCHANGED <<kbd_buffer, kbd_head, kbd_tail>>
    BY <1>2 DEF Push
  <2>2. RingFilled'
    BY <2>1 DEF RingFilled, InRing, Slot
  <2> QED BY <2>1, <2>2 DEF KeyboardTypeOK
<1> QED BY <1>1, <1>2

(* So does a whole run of the handler, which leaves tail and reader alone. *)
LEMMA HandlerKeepsRing ==
  ASSUME KeyboardTypeOK, RingFilled,
         NEW sc \in Scancode,
         keyboard_handler(sc)
  PROVE  /\ KeyboardTypeOK'
         /\ RingFilled'
         /\ kbd_head # kbd_tail => /\ kbd_head' # kbd_tail
                                   /\ kbd_buffer'[kbd_tail] = kbd_buffer[kbd_tail]
<1>1. UNCHANGED <<kbd_tail, rd, got>>
  BY DEF keyboard_handler
<1>2. CASE Prefix(sc) \/ ShiftKey(sc)
  <2>1. /\ UNCHANGED <<kbd_buffer, kbd_head, kbd_tail>>
        /\ is_e0' \in BOOLEAN /\ shift_pressed' \in BOOLEAN
    <3>1. CASE Prefix(sc)
      BY <1>1, <3>1 DEF Prefix, KeyboardTypeOK
    <3>2. CASE ShiftKey(sc)
      <4>1. shift_pressed' \in BOOLEAN
        BY <3>2 DEF ShiftKey
      <4> QED BY <1>1, <3>2, <4>1 DEF ShiftKey, KeyboardTypeOK
    <3> QED BY <1>2, <3>1, <3>2
  <2>2. RingFilled'
    BY <2>1 DEF RingFilled, InRing, Slot
  <2> QED BY <1>1, <2>1, <2>2 DEF KeyboardTypeOK, Slot
<1>3. CASE Extended(sc) \/ Plain(sc)
  <2>1. PICK ch \in Char \cup {NUL} : Push(ch)
    BY <1>3, CharOfType DEF Extended, Plain
  <2>2. is_e0' \in BOOLEAN /\ shift_pressed' \in BOOLEAN
    BY <1>3 DEF Extended, Plain, KeyboardTypeOK
  <2> QED BY <1>1, <2>1, <2>2, PushKeepsRing DEF KeyboardTypeOK, Slot
<1> QED BY <1>2, <1>3 DEF keyboard_handler

-----------------------------------------------------------------------------
(* The ring and its reader.                                                *)

LEMMA InitRing == KeyboardInit => RingInv
<1> SUFFICES ASSUME KeyboardInit PROVE RingInv
  OBVIOUS
<1>1. 0 \in Slot
  BY RingAssumption DEF Slot
<1>2. KeyboardTypeOK
  BY <1>1 DEF KeyboardInit, KeyboardTypeOK, ReaderPc
<1>3. ReaderSound
  BY DEF KeyboardInit, ReaderSound, At
<1>4. RingFilled
  BY RingAssumption DEF KeyboardInit, RingFilled, InRing, Slot
<1> QED BY <1>2, <1>3, <1>4 DEF RingInv

(* A run of the handler, at any point of the reader.                       *)
LEMMA HandlerRing ==
  ASSUME RingInv, NEW sc \in Scancode, keyboard_handler(sc)
  PROVE  RingInv'
<1>1. /\ KeyboardTypeOK'
      /\ RingFilled'
      /\ kbd_head # kbd_tail => /\ kbd_head' # kbd_tail
                                /\ kbd_buffer'[kbd_tail] = kbd_buffer[kbd_tail]
  BY HandlerKeepsRing DEF RingInv
<1>2. UNCHANGED <<kbd_tail, rd, got>>
  BY DEF keyboard_handler
<1>3. ReaderSound'
  BY <1>1, <1>2 DEF RingInv, ReaderSound, At
<1> QED BY <1>1, <1>3 DEF RingInv

(* The reader's steps.                                                     *)
LEMMA ReaderRing ==
  ASSUME RingInv, StartDrain \/ ReaderStep \/ Used
  PROVE  RingInv'
<1>1. /\ UNCHANGED <<kbd_buffer, kbd_head, is_e0, shift_pressed>>
      /\ \A p \in ReaderPc : ReaderAt(p) \in [pc : ReaderPc, head : Slot, tail : Slot, ch : Char \cup {NUL}]
  <2>1. 0 \in Slot
    BY RingAssumption DEF Slot
  <2> QED BY <2>1 DEF ReaderStep, ReaderAt, kbdVars, StartDrain, HasLoadHead, HasTest, GetLoadHead,
                      GetTest, GetRead, GetStore, Used
<1>2. CASE GetStore
  <2>1. /\ rd.pc = "store" /\ rd.tail = kbd_tail /\ rd.ch = kbd_buffer[kbd_tail]
        /\ kbd_head # kbd_tail
    BY <1>2 DEF GetStore, At, RingInv, ReaderSound
  <2>2. /\ kbd_tail \in Slot /\ kbd_head \in Slot /\ kbd_buffer[kbd_tail] \in Char \cup {NUL}
    BY DEF RingInv, KeyboardTypeOK
  <2>3. kbd_tail' = Inc(kbd_tail) /\ rd' = ReaderAt("use") /\ got' = kbd_buffer[kbd_tail]
    BY <1>2, <2>1 DEF GetStore
  <2>4. KeyboardTypeOK'
    BY <1>1, <2>2, <2>3, IncType DEF RingInv, KeyboardTypeOK, ReaderPc, Slot
  <2>5. ReaderSound'
    BY <2>3 DEF ReaderSound, At, ReaderAt
  <2>6. RingFilled'
    <3>1. ASSUME NEW s \in Slot, InRing(s)' PROVE InRing(s)
      BY <1>1, <2>1, <2>2, <2>3, <3>1, IncIsNextSlot, RingAssumption DEF InRing, Slot
    <3> QED BY <1>1, <3>1 DEF RingInv, RingFilled, Slot
  <2> QED BY <2>4, <2>5, <2>6 DEF RingInv
<1>3. CASE ~GetStore
  <2>1. kbd_tail' = kbd_tail /\ UNCHANGED kbdVars
    BY <1>3 DEF ReaderStep, kbdVars, StartDrain, HasLoadHead, HasTest, GetLoadHead, GetTest, GetRead, Used
  <2>2. /\ rd' \in [pc : ReaderPc, head : Slot, tail : Slot, ch : Char \cup {NUL}]
        /\ got' \in Char \cup {NUL}
    BY <1>1, <1>3, ZenonT(60) DEF RingInv, KeyboardTypeOK, ReaderPc, ReaderStep, StartDrain, HasLoadHead,
                      HasTest, GetLoadHead, GetTest, GetRead, Used
  <2>3. KeyboardTypeOK'
    BY <1>1, <2>1, <2>2 DEF RingInv, KeyboardTypeOK, Slot
  <2>4. RingFilled'
    BY <1>1, <2>1 DEF RingInv, RingFilled, InRing, Slot
  <2>5. ReaderSound'
    <3>1. ReaderSound /\ UNCHANGED <<kbd_buffer, kbd_head, kbd_tail>>
      BY <2>1 DEF RingInv, kbdVars
    <3>2. CASE StartDrain \/ Used
      BY <3>2 DEF StartDrain, Used, ReaderSound, At, ReaderAt
    <3>3. CASE HasLoadHead
      <4>1. rd'.pc = "hasTail" /\ rd'.head = kbd_head
        BY <3>3 DEF HasLoadHead, RingInv, KeyboardTypeOK
      <4> QED BY <3>1, <4>1 DEF ReaderSound, At
    <3>4. CASE HasTest
      <4>1. \/ rd'.pc = "idle"
            \/ rd'.pc = "getHead" /\ kbd_head # kbd_tail
        BY <3>1, <3>4 DEF HasTest, ReaderSound, At, ReaderAt
      <4> QED BY <3>1, <4>1 DEF ReaderSound, At
    <3>5. CASE GetLoadHead
      <4>1. rd'.pc = "getTail" /\ rd'.head = kbd_head /\ kbd_head # kbd_tail
        BY <3>1, <3>5 DEF GetLoadHead, ReaderSound, At, RingInv, KeyboardTypeOK
      <4> QED BY <3>1, <4>1 DEF ReaderSound, At
    <3>6. CASE GetTest
      <4>1. rd'.pc = "read" /\ rd'.tail = kbd_tail /\ kbd_head # kbd_tail
        BY <3>1, <3>6 DEF GetTest, ReaderSound, At, RingInv, KeyboardTypeOK
      <4> QED BY <3>1, <4>1 DEF ReaderSound, At
    <3>7. CASE GetRead
      <4>1. /\ rd'.pc = "store" /\ rd'.tail = kbd_tail /\ rd'.ch = kbd_buffer[kbd_tail]
            /\ kbd_head # kbd_tail
        BY <3>1, <3>7 DEF GetRead, ReaderSound, At, RingInv, KeyboardTypeOK
      <4> QED BY <3>1, <4>1 DEF ReaderSound, At
    <3> QED BY <1>3, <3>2, <3>3, <3>4, <3>5, <3>6, <3>7 DEF ReaderStep
  <2> QED BY <2>3, <2>4, <2>5 DEF RingInv
<1> QED BY <1>2, <1>3

LEMMA IdleRing ==
  ASSUME RingInv, UNCHANGED <<kbdVars, rdVars>>
  PROVE  RingInv'
<1>1. KeyboardTypeOK'
  BY DEF RingInv, KeyboardTypeOK, kbdVars, rdVars, Slot
<1>2. ReaderSound'
  BY DEF RingInv, ReaderSound, At, kbdVars, rdVars
<1>3. RingFilled'
  BY DEF RingInv, RingFilled, InRing, Slot, kbdVars
<1> QED BY <1>1, <1>2, <1>3 DEF RingInv

-----------------------------------------------------------------------------
(* What the reader gets.                                                   *)

(* Behind a successful test there is a character at the tail.              *)
LEMMA CharAtTail ==
  ASSUME RingInv, kbd_head # kbd_tail
  PROVE  kbd_buffer[kbd_tail] \in Char
BY DEF RingInv, KeyboardTypeOK, RingFilled, InRing, Slot

LEMMA ReaderGetsChar ==
  ASSUME RingInv, StartDrain \/ ReaderStep \/ Used
  PROVE  GetNeverEmpty'
<1>1. ReaderSound
  BY DEF RingInv
<1>2. CASE GetStore
  <2>1. got' \in Char
    BY <1>1, <1>2, CharAtTail DEF GetStore, At, ReaderSound
  <2> QED BY <2>1 DEF GetNeverEmpty
<1>3. CASE ~GetStore
  <2>1. rd'.pc # "use"
    <3>1. rd \in [pc : ReaderPc, head : Slot, tail : Slot, ch : Char \cup {NUL}]
      BY DEF RingInv, KeyboardTypeOK
    <3>2. CASE StartDrain
      BY <3>2 DEF StartDrain, ReaderAt
    <3>6. CASE HasLoadHead
      BY <3>1, <3>6 DEF HasLoadHead
    <3>7. CASE GetLoadHead
      BY <3>1, <3>7 DEF GetLoadHead
    <3>8. CASE GetRead
      BY <3>1, <3>8 DEF GetRead
    <3>3. CASE HasTest
      BY <3>3 DEF HasTest, ReaderAt
    <3>4. CASE GetTest
      BY <1>1, <3>1, <3>4 DEF GetTest, ReaderSound, At
    <3>5. CASE Used
      BY <3>5 DEF Used, ReaderAt
    <3> QED BY <1>3, <3>2, <3>3, <3>4, <3>5, <3>6, <3>7, <3>8 DEF ReaderStep
  <2> QED BY <2>1 DEF GetNeverEmpty, At
<1> QED BY <1>2, <1>3

-----------------------------------------------------------------------------
(* The ring is a queue.                                                    *)

LEMMA ContentsType ==
  RingInv => /\ Waiting \in 0 .. KBD_BUFFER_SIZE - 1
             /\ Contents \in Seq(Char)
             /\ Len(Contents) = Waiting
             /\ Waiting = 0 <=> kbd_head = kbd_tail
<1> SUFFICES ASSUME RingInv
             PROVE  /\ Waiting \in 0 .. KBD_BUFFER_SIZE - 1
                    /\ Contents \in Seq(Char)
                    /\ Len(Contents) = Waiting
                    /\ Waiting = 0 <=> kbd_head = kbd_tail
  OBVIOUS
<1>1. /\ kbd_head \in Slot /\ kbd_tail \in Slot
      /\ KBD_BUFFER_SIZE \in Nat /\ KBD_BUFFER_SIZE > 1
  BY RingAssumption DEF RingInv, KeyboardTypeOK
<1>2. Waiting \in 0 .. KBD_BUFFER_SIZE - 1 /\ (Waiting = 0 <=> kbd_head = kbd_tail)
  BY <1>1 DEF Waiting, Slot
<1>3. ASSUME NEW i \in 1 .. Waiting
      PROVE  kbd_buffer[SlotAt(i - 1)] \in Char
  <2>1. SlotAt(i - 1) \in Slot /\ InRing(SlotAt(i - 1))
    BY <1>1, <1>2, <1>3 DEF SlotAt, Waiting, InRing, Slot
  <2> QED BY <2>1 DEF RingInv, RingFilled
<1>4. Contents \in [1 .. Waiting -> Char]
  BY <1>3 DEF Contents
<1>5. Contents \in Seq(Char)
  BY <1>2, <1>4
<1>6. Len(Contents) = Waiting
  BY <1>2, <1>4, <1>5
<1> QED BY <1>2, <1>5, <1>6

(* A push of the handler is a Put of the queue, or nothing.                *)
LEMMA PushIsPut ==
  ASSUME RingInv, RingInv',
         NEW ch \in Char \cup {NUL},
         Push(ch), UNCHANGED <<kbd_tail, got>>
  PROVE  /\ ch # NUL /\ Waiting < KBD_BUFFER_SIZE - 1 => Queue!Put(ch)
         /\ ~(ch # NUL /\ Waiting < KBD_BUFFER_SIZE - 1) => UNCHANGED <<Contents, got>>
<1>0. /\ kbd_head \in Slot /\ kbd_tail \in Slot
      /\ kbd_buffer \in [Slot -> Char \cup {NUL}]
      /\ KBD_BUFFER_SIZE \in Nat /\ KBD_BUFFER_SIZE > 1
  BY RingAssumption DEF RingInv, KeyboardTypeOK
<1>3. Inc(kbd_head) # kbd_tail <=> Waiting < KBD_BUFFER_SIZE - 1
  BY <1>0, IncIsNextSlot DEF Waiting, Slot
<1>1. CASE ch # NUL /\ Inc(kbd_head) # kbd_tail
  <2>1. /\ kbd_buffer' = [kbd_buffer EXCEPT ![kbd_head] = ch]
        /\ kbd_head' = IF kbd_head = KBD_BUFFER_SIZE - 1 THEN 0 ELSE kbd_head + 1
        /\ kbd_head' # kbd_tail
        /\ ch \in Char
    BY <1>0, <1>1, IncIsNextSlot DEF Push
  <2>2. Waiting' = Waiting + 1 /\ Waiting < KBD_BUFFER_SIZE - 1
    BY <1>0, <2>1 DEF Waiting, Slot
  <2>3. /\ Waiting \in Nat
        /\ Contents \in Seq(Char) /\ Len(Contents) = Waiting
    BY ContentsType
  <2>4. ASSUME NEW i \in 1 .. Waiting + 1
        PROVE  Contents'[i] = Append(Contents, ch)[i]
    <3>1. Contents'[i] = kbd_buffer'[SlotAt(i - 1)]
      BY <2>2, <2>4 DEF Contents, SlotAt
    <3>2. CASE i \in 1 .. Waiting
      <4>1. SlotAt(i - 1) \in Slot /\ SlotAt(i - 1) # kbd_head
        BY <1>0, <2>3, <3>2 DEF SlotAt, Slot, Waiting
      <4>2. kbd_buffer'[SlotAt(i - 1)] = kbd_buffer[SlotAt(i - 1)]
        BY <1>0, <2>1, <4>1
      <4>3. Contents[i] = kbd_buffer[SlotAt(i - 1)]
        BY <3>2 DEF Contents
      <4> QED BY <2>3, <3>1, <3>2, <4>2, <4>3
    <3>3. CASE i = Waiting + 1
      <4>1. SlotAt(i - 1) = kbd_head
        BY <1>0, <3>3 DEF SlotAt, Slot, Waiting
      <4>2. kbd_buffer'[kbd_head] = ch
        BY <1>0, <2>1
      <4> QED BY <2>3, <3>1, <3>3, <4>1, <4>2
    <3> QED BY <2>3, <2>4, <3>2, <3>3
  <2>5. (Contents \in Seq(Char) /\ Len(Contents) = Waiting)'
    BY ContentsType, PTL
  <2>6. Contents' = Append(Contents, ch)
    BY <2>1, <2>2, <2>3, <2>4, <2>5
  <2>7. Queue!Put(ch)
    BY <2>2, <2>3, <2>6 DEF Queue!Put
  <2> QED BY <1>1, <1>3, <2>7
<1>2. CASE ~(ch # NUL /\ Inc(kbd_head) # kbd_tail)
  <2>1. UNCHANGED <<kbd_buffer, kbd_head, kbd_tail, got>>
    BY <1>2 DEF Push
  <2> QED BY <1>2, <1>3, <2>1 DEF Contents, Waiting, SlotAt
<1> QED BY <1>1, <1>2

(* The store of the tail is the Get of the queue.                          *)
LEMMA StoreIsGet ==
  ASSUME RingInv, RingInv', GetStore
  PROVE  Queue!Get
<1>0. /\ kbd_head \in Slot /\ kbd_tail \in Slot
      /\ KBD_BUFFER_SIZE \in Nat /\ KBD_BUFFER_SIZE > 1
  BY RingAssumption DEF RingInv, KeyboardTypeOK
<1>1. /\ rd.tail = kbd_tail /\ rd.ch = kbd_buffer[kbd_tail] /\ kbd_head # kbd_tail
  BY DEF RingInv, ReaderSound, GetStore, At
<1>2. /\ kbd_tail' = IF kbd_tail = KBD_BUFFER_SIZE - 1 THEN 0 ELSE kbd_tail + 1
      /\ UNCHANGED <<kbd_buffer, kbd_head>>
      /\ got' = kbd_buffer[kbd_tail]
  BY <1>0, <1>1, IncIsNextSlot DEF GetStore
<1>3. Waiting' = Waiting - 1 /\ Waiting > 0 /\ Waiting \in Nat
  BY <1>0, <1>1, <1>2 DEF Waiting, Slot
<1>4. /\ Contents \in Seq(Char) /\ Len(Contents) = Waiting
  BY ContentsType
<1>5. (Contents \in Seq(Char) /\ Len(Contents) = Waiting)'
  BY ContentsType, PTL
<1>6. ASSUME NEW i \in 1 .. Waiting - 1
      PROVE  Contents'[i] = Tail(Contents)[i]
  <2>1. Contents'[i] = kbd_buffer[SlotAt(i - 1)']
    BY <1>2, <1>3, <1>6 DEF Contents, SlotAt
  <2>2. SlotAt(i - 1)' = SlotAt(i)
    BY <1>0, <1>2, <1>3, <1>6 DEF SlotAt, Slot, Waiting
  <2>3. Contents[i + 1] = kbd_buffer[SlotAt(i)]
    BY <1>3, <1>6 DEF Contents, SlotAt
  <2>4. Tail(Contents)[i] = Contents[i + 1]
    BY <1>3, <1>4, <1>6
  <2> QED BY <2>1, <2>2, <2>3, <2>4
<1>7. Contents' = Tail(Contents)
  BY <1>3, <1>4, <1>5, <1>6
<1>8. Head(Contents) = kbd_buffer[kbd_tail] /\ Contents # << >>
  <2>1. SlotAt(0) = kbd_tail
    BY <1>0 DEF SlotAt, Slot
  <2>2. Contents[1] = kbd_buffer[SlotAt(0)]
    BY <1>3 DEF Contents
  <2> QED BY <1>3, <1>4, <2>1, <2>2
<1> QED BY <1>2, <1>7, <1>8 DEF Queue!Get

(* A run of the handler: the character it finds, if any, is put, if there  *)
(* is room.                                                                *)
LEMMA HandlerIsPut ==
  ASSUME RingInv, RingInv', NEW sc \in Scancode, keyboard_handler(sc)
  PROVE  /\ CharOf(sc) # NUL /\ Waiting < KBD_BUFFER_SIZE - 1 =>
              CharOf(sc) \in Char /\ Queue!Put(CharOf(sc))
         /\ ~(CharOf(sc) # NUL /\ Waiting < KBD_BUFFER_SIZE - 1) => UNCHANGED <<Contents, got>>
<1>1. UNCHANGED <<kbd_tail, got>>
  BY DEF keyboard_handler
<1>2. CASE Prefix(sc) \/ ShiftKey(sc)
  <2>1. CharOf(sc) = NUL
    BY <1>2 DEF Prefix, ShiftKey, CharOf
  <2>2. UNCHANGED <<kbd_buffer, kbd_head, kbd_tail, got>>
    BY <1>1, <1>2 DEF Prefix, ShiftKey
  <2>3. UNCHANGED <<Contents, got>>
    BY <2>2 DEF Contents, Waiting, SlotAt
  <2> QED BY <2>1, <2>3
<1>3. CASE Extended(sc) \/ Plain(sc)
  <2>1. Push(CharOf(sc))
    BY <1>3 DEF Extended, Plain, CharOf
  <2>2. CharOf(sc) \in Char \cup {NUL}
    BY <1>3, CharOfType DEF Extended, Plain, CharOf
  <2> QED BY <1>1, <2>1, <2>2, PushIsPut
<1> QED BY <1>2, <1>3 DEF keyboard_handler

(* A step of the reader but the store changes nothing of the queue.        *)
LEMMA ReaderIsGet ==
  ASSUME RingInv, RingInv', StartDrain \/ ReaderStep \/ Used
  PROVE  /\ GetStore => Queue!Get
         /\ ~GetStore => UNCHANGED <<Contents, got>>
<1>1. CASE GetStore
  BY <1>1, StoreIsGet
<1>2. CASE ~GetStore
  <2>1. UNCHANGED kbdVars
    BY <1>2 DEF ReaderStep, StartDrain, HasLoadHead, HasTest, GetLoadHead, GetTest, GetRead, Used
  <2>2. got' = got
    <3>1. CASE GetTest
      BY <3>1 DEF GetTest, RingInv, ReaderSound, At
    <3>2. CASE ~GetTest
      BY <1>2, <3>2 DEF ReaderStep, StartDrain, HasLoadHead, HasTest, GetLoadHead, GetRead, Used
    <3> QED BY <3>1, <3>2
  <2> QED BY <1>2, <2>1, <2>2 DEF kbdVars, Contents, Waiting, SlotAt
<1> QED BY <1>1, <1>2

LEMMA InitQueue == KeyboardInit => Queue!Init
<1>1. KeyboardInit => Waiting = 0
  BY RingAssumption DEF KeyboardInit, Waiting
<1>2. Waiting = 0 => Contents = << >>
  BY DEF Contents
<1> QED BY <1>1, <1>2 DEF Queue!Init

(* What leaves the driver alone leaves the queue alone.                    *)
LEMMA IdleQueue ==
  ASSUME UNCHANGED <<kbdVars, rdVars>>
  PROVE  UNCHANGED <<Contents, got>>
BY DEF kbdVars, rdVars, Contents, Waiting, SlotAt

-----------------------------------------------------------------------------
(* The invariant.                                                          *)

(* Key events put well-formed codes on the line and nothing else.          *)
LEMMA SendKeepsTyping ==
  ASSUME TypingInv,
         NEW codes \in Seq(Code), Send(codes),
         held' \subseteq ShiftMake
  PROVE  TypingInv'
<1>1. UNCHANGED <<kbdVars, rdVars>> /\ line' \in Seq(Code)
  BY DEF Send, TypingInv, TypingTypeOK
<1>2. RingInv'
  BY <1>1, IdleRing DEF TypingInv
<1> QED BY <1>1, <1>2 DEF TypingInv, TypingTypeOK, RingInv

LEMMA KeyEventKeepsTyping ==
  ASSUME TypingInv,
         \/ \E k \in ShiftMake : PressShift(k) \/ ReleaseShift(k)
         \/ \E k \in PlainKey : TypeCharacter(k)
         \/ \E k \in ArrowKey : TypeArrow(k)
  PROVE  TypingInv'
<1>1. \A sc \in Scancode : Mute(sc) \in Code
  BY DEF Mute, Code
<1>2. held \subseteq ShiftMake
  BY DEF TypingInv, TypingTypeOK
<1>3. \A k \in ShiftMake : k \in Scancode /\ k + 128 \in Scancode
  BY DEF ShiftMake, Scancode
<1>4. ASSUME NEW k \in ShiftMake, PressShift(k) \/ ReleaseShift(k)
      PROVE  TypingInv'
  <2>1. held' \subseteq ShiftMake
    BY <1>2, <1>4 DEF PressShift, ReleaseShift
  <2>2. <<Mute(k)>> \in Seq(Code) /\ <<Mute(k + 128)>> \in Seq(Code)
    BY <1>1, <1>3
  <2>3. CASE PressShift(k)
    <3>1. Send(<<Mute(k)>>)
      BY <2>3 DEF PressShift
    <3> QED BY <2>1, <2>2, <3>1, SendKeepsTyping
  <2>4. CASE ReleaseShift(k)
    <3>1. Send(<<Mute(k + 128)>>)
      BY <2>4 DEF ReleaseShift
    <3> QED BY <2>1, <2>2, <3>1, SendKeepsTyping
  <2> QED BY <1>4, <2>3, <2>4
<1>5. ASSUME NEW k \in PlainKey, TypeCharacter(k)
      PROVE  TypingInv'
  <2> DEFINE down == [sc |-> k, typed |-> IF held = {} THEN Unshifted[k] ELSE Shifted[k]]
  <2>1. k \in 0 .. 127
    BY KeysAssumption
  <2>2. down \in Code
    BY <2>1, TableAssumption DEF Code, Scancode
  <2>3. Mute(k + 128) \in Code
    BY <1>1, <2>1 DEF Scancode
  <2>4. Send(<<down, Mute(k + 128)>>) /\ held' \subseteq ShiftMake
    BY <1>2, <1>5 DEF TypeCharacter
  <2> HIDE DEF down
  <2>5. <<down, Mute(k + 128)>> \in Seq(Code)
    BY <2>2, <2>3
  <2> QED BY <2>4, <2>5, SendKeepsTyping
<1>6. ASSUME NEW k \in ArrowKey, TypeArrow(k)
      PROVE  TypingInv'
  <2> DEFINE arrow == <<Mute(E0), [sc |-> k, typed |-> ArrowChar[k]], Mute(E0), Mute(k + 128)>>
  <2>1. k \in {72, 80, 75, 77}
    BY KeysAssumption DEF ArrowChar
  <2>2. ArrowChar[k] \in Char
    BY <2>1, TableAssumption DEF ArrowChar
  <2>3. k \in Scancode /\ k + 128 \in Scancode /\ E0 \in Scancode
    BY <2>1 DEF Scancode, E0
  <2>4. arrow \in Seq(Code)
    BY <1>1, <2>2, <2>3 DEF Code
  <2>5. held' \subseteq ShiftMake
    BY <1>2, <1>6 DEF TypeArrow
  <2>6. CASE Send(arrow)
    BY <2>4, <2>5, <2>6, SendKeepsTyping
  <2>7. ASSUME NEW s \in held,
               Send(<<Mute(E0), Mute(s + 128)>> \o arrow \o <<Mute(E0), Mute(s)>>)
        PROVE  TypingInv'
    <3>1. /\ <<Mute(E0), Mute(s + 128)>> \in Seq(Code)
          /\ <<Mute(E0), Mute(s)>> \in Seq(Code)
      BY <1>1, <1>2, <1>3, <2>3
    <3> HIDE DEF arrow
    <3>2. <<Mute(E0), Mute(s + 128)>> \o arrow \o <<Mute(E0), Mute(s)>> \in Seq(Code)
      BY <2>4, <3>1
    <3> QED BY <2>5, <2>7, <3>2, SendKeepsTyping
  <2> QED BY <1>6, <2>6, <2>7 DEF TypeArrow
<1> QED BY <1>4, <1>5, <1>6
(* IRQ1 takes a code off the line.                                         *)
LEMMA DeliverTakes ==
  ASSUME TypingTypeOK, Deliver
  PROVE  /\ line \in Seq(Code) /\ line # << >> /\ line' = Tail(line) /\ held' = held
         /\ line' \in Seq(Code)
         /\ Head(line) \in Code /\ Head(line).sc \in Scancode
         /\ keyboard_handler(Head(line).sc)
<1>1. /\ line \in Seq(Code) /\ line # << >> /\ line' = Tail(line) /\ held' = held
      /\ keyboard_handler(Head(line).sc)
  BY DEF Deliver, TypingTypeOK
<1>2. Head(line) \in Code /\ Tail(line) \in Seq(Code)
  BY <1>1
<1> QED BY <1>1, <1>2 DEF Code

LEMMA NextTyping == TypingInv /\ [TypingNext]_typingVars => TypingInv'
<1> SUFFICES ASSUME TypingInv, [TypingNext]_typingVars PROVE TypingInv'
  OBVIOUS
<1>1. CASE \/ \E k \in ShiftMake : PressShift(k) \/ ReleaseShift(k)
           \/ \E k \in PlainKey : TypeCharacter(k)
           \/ \E k \in ArrowKey : TypeArrow(k)
  BY <1>1, KeyEventKeepsTyping
<1>2. CASE Deliver
  <2>1. /\ Head(line).sc \in Scancode /\ keyboard_handler(Head(line).sc)
        /\ line' \in Seq(Code) /\ held' = held
    BY <1>2, DeliverTakes DEF TypingInv
  <2>2. RingInv'
    BY <2>1, HandlerRing DEF TypingInv
  <2> QED BY <2>1, <2>2 DEF TypingInv, TypingTypeOK, RingInv
<1>3. CASE Read
  <2>1. RingInv'
    BY <1>3, ReaderRing DEF TypingInv, Read, ReaderStep
  <2>2. UNCHANGED <<held, line>>
    BY <1>3 DEF Read
  <2> QED BY <2>1, <2>2 DEF TypingInv, TypingTypeOK, RingInv
<1>4. CASE UNCHANGED typingVars
  <2>1. RingInv'
    BY <1>4, IdleRing DEF typingVars, TypingInv
  <2> QED BY <1>4, <2>1 DEF typingVars, TypingInv, TypingTypeOK, RingInv
<1> QED BY <1>1, <1>2, <1>3, <1>4 DEF TypingNext

(* The ring and its reader stay sound under every interleaving.            *)
THEOREM TypingInvAlways == TypingSpec => []TypingInv
<1>1. TypingInit => TypingInv
  BY InitRing DEF TypingInit, TypingInv, TypingTypeOK, RingInv
<1> QED BY <1>1, NextTyping, PTL DEF TypingSpec

-----------------------------------------------------------------------------
(* What the reader gets.                                                   *)

(* The reader's steps move nothing but the ring; the others leave the      *)
(* reader alone, and the person leaves the driver alone.                   *)
LEMMA NotRead ==
  ASSUME TypingNext, ~Read
  PROVE  /\ UNCHANGED rdVars
         /\ ~Deliver => UNCHANGED kbdVars
BY DEF TypingNext, PressShift, ReleaseShift, TypeCharacter, TypeArrow, Send, Deliver, keyboard_handler, rdVars

LEMMA NextGetNeverEmpty == TypingInv /\ GetNeverEmpty /\ [TypingNext]_typingVars => GetNeverEmpty'
<1> SUFFICES ASSUME TypingInv, GetNeverEmpty, [TypingNext]_typingVars PROVE GetNeverEmpty'
  OBVIOUS
<1>1. CASE UNCHANGED rdVars
  BY <1>1 DEF GetNeverEmpty, At, rdVars
<1>2. CASE Read
  BY <1>2, ReaderGetsChar DEF TypingInv, Read, ReaderStep
<1> QED BY <1>1, <1>2, NotRead DEF typingVars

(* A call of keyboard_getchar behind a successful keyboard_has_char never  *)
(* comes back empty-handed (kernel.c:108-109).                             *)
THEOREM GetNeverEmptyAlways == TypingSpec => []GetNeverEmpty
<1>1. TypingInit => GetNeverEmpty
  BY DEF TypingInit, KeyboardInit, GetNeverEmpty, At
<1> QED BY <1>1, TypingInvAlways, NextGetNeverEmpty, PTL DEF TypingSpec

-----------------------------------------------------------------------------
(* The ring implements the abstract queue.                                 *)

LEMMA NextRefinesQueue ==
  TypingInv /\ TypingInv' /\ [TypingNext]_typingVars => [Queue!Next]_<<Contents, got>>
<1> SUFFICES ASSUME TypingInv, TypingInv', [TypingNext]_typingVars
             PROVE  [Queue!Next]_<<Contents, got>>
  OBVIOUS
<1>1. RingInv /\ RingInv'
  BY DEF TypingInv
<1>2. CASE Deliver
  <2> DEFINE sc == Head(line).sc
  <2>1. sc \in Scancode /\ keyboard_handler(sc)
    BY <1>2, DeliverTakes DEF TypingInv
  <2> HIDE DEF sc
  <2> QED BY <1>1, <2>1, HandlerIsPut DEF Queue!Next
<1>3. CASE Read
  BY <1>1, <1>3, ReaderIsGet DEF Read, ReaderStep, Queue!Next
<1>4. CASE UNCHANGED <<kbdVars, rdVars>>
  BY <1>4, IdleQueue
<1> QED BY <1>2, <1>3, <1>4, NotRead DEF typingVars

(* The driver's ring, used from an interrupt handler and an interruptible  *)
(* reader, is a first-in first-out queue of KBD_BUFFER_SIZE - 1 characters *)
(* (ps2_keyboard.c:61-69, 83-91, 99-113).                                  *)
THEOREM ImplementsQueue == TypingSpec => QueueSpec
<1>1. TypingInit => Queue!Init
  BY InitQueue DEF TypingInit
<1> QED BY <1>1, TypingInvAlways, NextRefinesQueue, PTL DEF TypingSpec, QueueSpec, Queue!Spec

-----------------------------------------------------------------------------
(* What was typed.                                                         *)

(* The character of a code, and the two flags behind it, as the handler    *)
(* with the flags e and s takes it.                                        *)
CharIn(e, s, sc) ==
  IF sc = E0 \/ (~e /\ sc \in ShiftMake \cup ShiftBreak) THEN NUL
  ELSE IF e THEN ExtendedChar(sc)
  ELSE IF ~IsMake(sc) THEN NUL
  ELSE IF s THEN Shifted[sc] ELSE Unshifted[sc]
ShiftAfter(e, s, sc) ==
  IF ~e /\ sc \in ShiftMake THEN TRUE ELSE IF ~e /\ sc \in ShiftBreak THEN FALSE ELSE s

(* The codes mean what was typed, from the flags e, s to the flags f, t.   *)
Flags == BOOLEAN \X BOOLEAN
Decodes == {d \in Flags \X Code \X Flags :
              /\ CharIn(d[1][1], d[1][2], d[2].sc) = d[2].typed
              /\ d[3][1] = (d[2].sc = E0)
              /\ d[3][2] = ShiftAfter(d[1][1], d[1][2], d[2].sc)}
Means(codes, e, s, f, t) == Runs(Flags, Decodes, codes, <<e, s>>, <<f, t>>)

(* A single code.                                                          *)
LEMMA MeansOne ==
  ASSUME NEW c \in Code, NEW e \in BOOLEAN, NEW s \in BOOLEAN,
         CharIn(e, s, c.sc) = c.typed
  PROVE  Means(<<c>>, e, s, c.sc = E0, ShiftAfter(e, s, c.sc))
<1> DEFINE f == (c.sc = E0)
           t == ShiftAfter(e, s, c.sc)
<1>1. f \in BOOLEAN /\ t \in BOOLEAN
  BY DEF ShiftAfter
<1>2. f = (c.sc = E0) /\ t = ShiftAfter(e, s, c.sc)
  OBVIOUS
<1> HIDE DEF f, t
<1>3. <<e, s>> \in Flags /\ <<f, t>> \in Flags
  BY <1>1 DEF Flags
<1> DEFINE d == <<<<e, s>>, c, <<f, t>>>>
<1>4. d \in Flags \X Code \X Flags
  BY <1>3
<1>5. d[1][1] = e /\ d[1][2] = s /\ d[2] = c /\ d[3][1] = f /\ d[3][2] = t
  OBVIOUS
<1> HIDE DEF d
<1>6. d \in Decodes
  BY <1>2, <1>4, <1>5 DEF Decodes
<1>7. Means(<<c>>, e, s, f, t)
  BY <1>3, <1>6, RunsOne DEF Means, d
<1> QED BY <1>7 DEF f, t

(* One string of codes behind another.                                     *)
LEMMA MeansBoth ==
  ASSUME NEW c \in Seq(Code), NEW d \in Seq(Code),
         NEW e \in BOOLEAN, NEW s \in BOOLEAN, NEW f \in BOOLEAN, NEW t \in BOOLEAN,
         NEW g \in BOOLEAN, NEW u \in BOOLEAN,
         Means(c, e, s, f, t), Means(d, f, t, g, u)
  PROVE  Means(c \o d, e, s, g, u)
<1>1. <<e, s>> \in Flags /\ <<f, t>> \in Flags /\ <<g, u>> \in Flags
  BY DEF Flags
<1> QED BY <1>1, RunsBoth DEF Means

(* What is left when the first code has been taken.                        *)
LEMMA MeansRest ==
  ASSUME NEW c \in Seq(Code), c # << >>,
         NEW e \in BOOLEAN, NEW s \in BOOLEAN, NEW f \in BOOLEAN, NEW t \in BOOLEAN,
         Means(c, e, s, f, t)
  PROVE  /\ CharIn(e, s, Head(c).sc) = Head(c).typed
         /\ Means(Tail(c), Head(c).sc = E0, ShiftAfter(e, s, Head(c).sc), f, t)
<1>1. <<e, s>> \in Flags /\ <<f, t>> \in Flags
  BY DEF Flags
<1>2. PICK m \in Flags : <<<<e, s>>, Head(c), m>> \in Decodes /\ Runs(Flags, Decodes, Tail(c), m, <<f, t>>)
  BY <1>1, RunsRest DEF Means
<1> DEFINE d == <<<<e, s>>, Head(c), m>>
<1>3. d[1][1] = e /\ d[1][2] = s /\ d[2] = Head(c) /\ d[3] = m
  OBVIOUS
<1>4. d \in Decodes
  BY <1>2
<1> HIDE DEF d
<1>5. /\ CharIn(e, s, Head(c).sc) = Head(c).typed
      /\ m[1] = (Head(c).sc = E0) /\ m[2] = ShiftAfter(e, s, Head(c).sc)
  BY <1>3, <1>4 DEF Decodes
<1>6. m = <<m[1], m[2]>>
  BY DEF Flags
<1> QED BY <1>2, <1>5, <1>6 DEF Means

(* The flags of the driver turn what is on the line into what was typed,   *)
(* and leave no prefix and the shift keys that are held.                   *)
OneHeld == \A a, b \in held : a = b
LineInv == OneHeld /\ Means(line, is_e0, shift_pressed, FALSE, held # {})

(* A prefixed code that is no prefix leaves the flags as they were.        *)
LEMMA MeansPrefixed ==
  ASSUME NEW c \in Code, NEW s \in BOOLEAN, c.sc # E0, ExtendedChar(c.sc) = c.typed
  PROVE  Means(<<Mute(E0), c>>, FALSE, s, FALSE, s)
<1>1. Mute(E0) \in Code /\ Mute(E0).sc = E0 /\ Mute(E0).typed = NUL
  BY DEF Mute, Code, Scancode, E0
<1>2. Means(<<Mute(E0)>>, FALSE, s, TRUE, s)
  <2>1. CharIn(FALSE, s, Mute(E0).sc) = Mute(E0).typed
    BY <1>1 DEF CharIn
  <2>2. ShiftAfter(FALSE, s, Mute(E0).sc) = s
    <3>1. E0 \notin ShiftMake /\ E0 \notin ShiftBreak
      BY DEF ShiftMake, ShiftBreak, E0
    <3> QED BY <1>1, <3>1 DEF ShiftAfter
  <2>3. Means(<<Mute(E0)>>, FALSE, s, Mute(E0).sc = E0, ShiftAfter(FALSE, s, Mute(E0).sc))
    BY <1>1, <2>1, MeansOne
  <2>4. (Mute(E0).sc = E0) = TRUE
    BY <1>1
  <2> QED BY <2>2, <2>3, <2>4, Zenon
<1>3. Means(<<c>>, TRUE, s, FALSE, s)
  <2>1. CharIn(TRUE, s, c.sc) = c.typed
    BY DEF CharIn
  <2>2. ShiftAfter(TRUE, s, c.sc) = s
    BY DEF ShiftAfter
  <2>3. Means(<<c>>, TRUE, s, c.sc = E0, ShiftAfter(TRUE, s, c.sc))
    BY <2>1, MeansOne
  <2>4. (c.sc = E0) = FALSE
    OBVIOUS
  <2> QED BY <2>2, <2>3, <2>4, Zenon
<1>4. <<Mute(E0)>> \in Seq(Code) /\ <<c>> \in Seq(Code) /\ <<Mute(E0)>> \o <<c>> = <<Mute(E0), c>>
  BY <1>1, TwoInputs
<1>5. Means(<<Mute(E0)>> \o <<c>>, FALSE, s, FALSE, s)
  BY <1>2, <1>3, <1>4, MeansBoth
<1> QED BY <1>4, <1>5

(* Codes that mean what the event was, sent behind the others.             *)
LEMMA SendKeepsLine ==
  ASSUME TypingTypeOK, LineInv, NEW codes \in Seq(Code), Send(codes), OneHeld',
         Means(codes, FALSE, held # {}, FALSE, held' # {})
  PROVE  LineInv'
<1>1. line \in Seq(Code) /\ is_e0 \in BOOLEAN /\ shift_pressed \in BOOLEAN
  BY DEF TypingTypeOK, KeyboardTypeOK
<1>2. line' = line \o codes /\ is_e0' = is_e0 /\ shift_pressed' = shift_pressed
  BY DEF Send, kbdVars
<1> DEFINE before == (held # {})
           after == (held' # {})
           no == FALSE
<1>3. Means(line, is_e0, shift_pressed, no, before) /\ Means(codes, no, before, no, after)
  BY DEF LineInv
<1>4. before \in BOOLEAN /\ after \in BOOLEAN /\ no \in BOOLEAN
  OBVIOUS
<1> HIDE DEF before, after, no
<1>5. Means(line \o codes, is_e0, shift_pressed, no, after)
  BY <1>1, <1>3, <1>4, MeansBoth
<1> QED BY <1>2, <1>5 DEF LineInv, after, no

(* Pressing and releasing the one shift key.                               *)
LEMMA ShiftKeepsLine ==
  ASSUME TypingTypeOK, LineInv, ShiftsHeld <= 1,
         NEW k \in ShiftMake, PressShift(k) \/ ReleaseShift(k)
  PROVE  LineInv'
<1>1. /\ Mute(k) \in Code /\ Mute(k).sc = k /\ Mute(k).typed = NUL
      /\ Mute(k + 128) \in Code /\ Mute(k + 128).sc = k + 128 /\ Mute(k + 128).typed = NUL
      /\ k # E0 /\ k + 128 # E0 /\ k + 128 \in ShiftBreak /\ k + 128 \notin ShiftMake
  BY DEF Mute, Code, Scancode, ShiftMake, ShiftBreak, E0
<1>2. CASE PressShift(k)
  <2>1. held = {}
    <3>1. IsFiniteSet({42, 54})
      <4>1. IsFiniteSet({42})
        BY FS_Singleton
      <4>2. {42, 54} = {42} \cup {54}
        OBVIOUS
      <4> QED BY <4>1, <4>2, FS_AddElement
    <3>2. IsFiniteSet(held)
      BY <3>1, FS_Subset DEF TypingTypeOK, ShiftMake
    <3>3. Cardinality(held) \in Nat /\ Cardinality(held) < 1
      BY <1>2, <3>2, FS_CardinalityType, KeysAssumption DEF PressShift
    <3>4. Cardinality(held) = 0
      BY <3>3
    <3> QED BY <3>2, <3>4, FS_EmptySet
  <2>2. held' = {k} /\ Send(<<Mute(k)>>)
    BY <1>2, <2>1 DEF PressShift
  <2>3. CharIn(FALSE, FALSE, Mute(k).sc) = Mute(k).typed
    BY <1>1 DEF CharIn
  <2>4. ShiftAfter(FALSE, FALSE, Mute(k).sc) = TRUE /\ (Mute(k).sc = E0) = FALSE
    BY <1>1 DEF ShiftAfter
  <2>5. Means(<<Mute(k)>>, FALSE, FALSE, Mute(k).sc = E0, ShiftAfter(FALSE, FALSE, Mute(k).sc))
    BY <1>1, <2>3, MeansOne
  <2>6. (held # {}) = FALSE /\ (held' # {}) = TRUE /\ OneHeld' /\ <<Mute(k)>> \in Seq(Code)
    BY <1>1, <2>1, <2>2 DEF OneHeld
  <2>7. Means(<<Mute(k)>>, FALSE, held # {}, FALSE, held' # {})
    BY <2>4, <2>5, <2>6, Zenon
  <2> QED BY <2>2, <2>6, <2>7, SendKeepsLine
<1>3. CASE ReleaseShift(k)
  <2>1. held' = {} /\ held # {} /\ Send(<<Mute(k + 128)>>)
    BY <1>3 DEF ReleaseShift, LineInv, OneHeld
  <2>2. CharIn(FALSE, TRUE, Mute(k + 128).sc) = Mute(k + 128).typed
    BY <1>1 DEF CharIn
  <2>3. ShiftAfter(FALSE, TRUE, Mute(k + 128).sc) = FALSE /\ (Mute(k + 128).sc = E0) = FALSE
    BY <1>1 DEF ShiftAfter
  <2>4. Means(<<Mute(k + 128)>>, FALSE, TRUE, Mute(k + 128).sc = E0,
              ShiftAfter(FALSE, TRUE, Mute(k + 128).sc))
    BY <1>1, <2>2, MeansOne
  <2>5. /\ (held # {}) = TRUE /\ (held' # {}) = FALSE /\ OneHeld'
        /\ <<Mute(k + 128)>> \in Seq(Code)
    BY <1>1, <2>1 DEF OneHeld
  <2>6. Means(<<Mute(k + 128)>>, FALSE, held # {}, FALSE, held' # {})
    BY <2>3, <2>4, <2>5, Zenon
  <2> QED BY <2>1, <2>5, <2>6, SendKeepsLine
<1> QED BY <1>2, <1>3

(* A character key.                                                        *)
LEMMA TypeKeyKeepsLine ==
  ASSUME TypingTypeOK, LineInv, NEW k \in PlainKey, TypeCharacter(k)
  PROVE  LineInv'
<1> DEFINE s == (held # {})
           down == [sc |-> k, typed |-> IF held = {} THEN Unshifted[k] ELSE Shifted[k]]
           up == Mute(k + 128)
<1>1. /\ k \in 0 .. 127 /\ k # E0 /\ k \notin ShiftMake \cup ShiftBreak
      /\ k + 128 # E0 /\ k + 128 \notin ShiftMake \cup ShiftBreak
  BY KeysAssumption DEF ShiftMake, ShiftBreak, E0
<1>2. down \in Code /\ down.sc = k /\ down.typed = IF s THEN Shifted[k] ELSE Unshifted[k]
  BY <1>1, TableAssumption DEF Code, Scancode
<1>3. up \in Code /\ up.sc = k + 128 /\ up.typed = NUL
  BY <1>1 DEF Mute, Code, Scancode
<1>4. s \in BOOLEAN /\ held' = held /\ Send(<<down, up>>)
  BY DEF TypeCharacter
<1> HIDE DEF down, up
<1>5. Means(<<down>>, FALSE, s, FALSE, s)
  <2>1. CharIn(FALSE, s, down.sc) = down.typed
    BY <1>1, <1>2 DEF CharIn, IsMake
  <2>2. ShiftAfter(FALSE, s, down.sc) = s /\ (down.sc = E0) = FALSE
    BY <1>1, <1>2 DEF ShiftAfter
  <2>3. Means(<<down>>, FALSE, s, down.sc = E0, ShiftAfter(FALSE, s, down.sc))
    BY <1>2, <1>4, <2>1, MeansOne
  <2> QED BY <2>2, <2>3, Zenon
<1>6. Means(<<up>>, FALSE, s, FALSE, s)
  <2>1. CharIn(FALSE, s, up.sc) = up.typed
    BY <1>1, <1>3 DEF CharIn, IsMake
  <2>2. ShiftAfter(FALSE, s, up.sc) = s /\ (up.sc = E0) = FALSE
    BY <1>1, <1>3 DEF ShiftAfter
  <2>3. Means(<<up>>, FALSE, s, up.sc = E0, ShiftAfter(FALSE, s, up.sc))
    BY <1>3, <1>4, <2>1, MeansOne
  <2> QED BY <2>2, <2>3, Zenon
<1>7. <<down>> \in Seq(Code) /\ <<up>> \in Seq(Code) /\ <<down>> \o <<up>> = <<down, up>>
  BY <1>2, <1>3, TwoInputs
<1>8. Means(<<down>> \o <<up>>, FALSE, s, FALSE, s)
  BY <1>4, <1>5, <1>6, <1>7, MeansBoth
<1>9. (held' # {}) = s /\ OneHeld' /\ <<down, up>> \in Seq(Code)
  BY <1>2, <1>3, <1>4 DEF LineInv, OneHeld
<1>10. Means(<<down, up>>, FALSE, held # {}, FALSE, held' # {})
  BY <1>7, <1>8, <1>9, Zenon
<1> QED BY <1>4, <1>9, <1>10, SendKeepsLine

(* An arrow key, with the fake shift codes around it or without.           *)
LEMMA TypeArrowKeepsLine ==
  ASSUME TypingTypeOK, LineInv, NEW k \in ArrowKey, TypeArrow(k)
  PROVE  LineInv'
<1> DEFINE s == (held # {})
           down == [sc |-> k, typed |-> ArrowChar[k]]
           P(c) == <<Mute(E0), c>>
           arrow == <<Mute(E0), down, Mute(E0), Mute(k + 128)>>
<1>1. k \in {72, 80, 75, 77} /\ k \in DOMAIN ArrowChar
  BY KeysAssumption DEF ArrowChar
<1>2. s \in BOOLEAN /\ held' = held
  BY DEF TypeArrow
<1>3. ArrowChar[k] \in Char
  BY <1>1, TableAssumption DEF ArrowChar
<1>4. \A c \in Code : P(c) \in Seq(Code)
  <2>1. Mute(E0) \in Code
    BY DEF Mute, Code, Scancode, E0
  <2> QED BY <2>1
<1>5. down \in Code /\ Means(P(down), FALSE, s, FALSE, s)
  <2>1. down \in Code /\ down.sc = k /\ down.typed = ArrowChar[k] /\ k # E0
    BY <1>1, <1>3 DEF Code, Scancode, E0
  <2>2. ExtendedChar(down.sc) = down.typed
    BY <1>1, <2>1 DEF ExtendedChar
  <2> HIDE DEF down
  <2> QED BY <1>2, <2>1, <2>2, MeansPrefixed
<1>6. \A n \in {k + 128} \cup ShiftMake \cup ShiftBreak :
        Mute(n) \in Code /\ Means(P(Mute(n)), FALSE, s, FALSE, s)
  <2> SUFFICES ASSUME NEW n \in {k + 128} \cup ShiftMake \cup ShiftBreak
               PROVE  Mute(n) \in Code /\ Means(P(Mute(n)), FALSE, s, FALSE, s)
    OBVIOUS
  <2>1. /\ Mute(n) \in Code /\ Mute(n).sc = n /\ Mute(n).typed = NUL
        /\ n # E0 /\ n \notin {72, 80, 75, 77}
    BY <1>1 DEF Mute, Code, Scancode, E0, ShiftMake, ShiftBreak
  <2>2. ExtendedChar(Mute(n).sc) = Mute(n).typed
    BY <2>1 DEF ExtendedChar, ArrowChar
  <2> QED BY <1>2, <2>1, <2>2, MeansPrefixed
<1>7. arrow = P(down) \o P(Mute(k + 128))
  OBVIOUS
<1> HIDE DEF down, P
<1>8. arrow \in Seq(Code) /\ Means(arrow, FALSE, s, FALSE, s)
  <2>1. Mute(k + 128) \in Code /\ Means(P(Mute(k + 128)), FALSE, s, FALSE, s)
    BY <1>6
  <2>2. P(down) \in Seq(Code) /\ P(Mute(k + 128)) \in Seq(Code)
    BY <1>4, <1>5, <2>1
  <2>3. P(down) \o P(Mute(k + 128)) \in Seq(Code)
    BY <2>2
  <2>4. Means(P(down) \o P(Mute(k + 128)), FALSE, s, FALSE, s)
    BY <1>2, <1>5, <2>1, <2>2, MeansBoth
  <2> QED BY <1>7, <2>3, <2>4
<1> HIDE DEF arrow
<1>9. OneHeld' /\ (held' # {}) = s
  BY <1>2 DEF LineInv, OneHeld
<1>10. ASSUME NEW codes \in Seq(Code), Send(codes), Means(codes, FALSE, s, FALSE, s)
       PROVE  LineInv'
  <2>1. Means(codes, FALSE, held # {}, FALSE, held' # {})
    BY <1>9, <1>10, Zenon
  <2> QED BY <1>9, <1>10, <2>1, SendKeepsLine
<1>11. CASE held = {}
  <2>1. Send(arrow)
    BY <1>11 DEF TypeArrow, arrow, down
  <2> QED BY <1>8, <1>10, <2>1
<1>12. CASE held # {}
  <2>1. PICK n \in held : Send(P(Mute(n + 128)) \o arrow \o P(Mute(n)))
    BY <1>12 DEF TypeArrow, arrow, down, P
  <2>2. n \in ShiftMake /\ n + 128 \in ShiftBreak
    BY DEF TypingTypeOK, ShiftMake, ShiftBreak
  <2>3. /\ P(Mute(n + 128)) \in Seq(Code) /\ Means(P(Mute(n + 128)), FALSE, s, FALSE, s)
        /\ P(Mute(n)) \in Seq(Code) /\ Means(P(Mute(n)), FALSE, s, FALSE, s)
    BY <1>4, <1>6, <2>2
  <2> DEFINE front == P(Mute(n + 128))
             rear == P(Mute(n))
  <2>4. front \o arrow \in Seq(Code) /\ front \o arrow \o rear \in Seq(Code)
    BY <1>8, <2>3
  <2> HIDE DEF front, rear
  <2>5. Means(front \o arrow, FALSE, s, FALSE, s)
    BY <1>2, <1>8, <2>3, MeansBoth DEF front
  <2>6. Means(front \o arrow \o rear, FALSE, s, FALSE, s)
    BY <1>2, <2>3, <2>4, <2>5, MeansBoth DEF rear
  <2> QED BY <1>10, <2>1, <2>4, <2>6 DEF front, rear
<1> QED BY <1>11, <1>12

(* The handler takes a code as CharIn and ShiftAfter say.                  *)
LEMMA HandlerTakes ==
  ASSUME KeyboardTypeOK, NEW sc \in Scancode, keyboard_handler(sc)
  PROVE  /\ is_e0' = (sc = E0)
         /\ shift_pressed' = ShiftAfter(is_e0, shift_pressed, sc)
         /\ CharOf(sc) = CharIn(is_e0, shift_pressed, sc)
<1>0. is_e0 \in BOOLEAN /\ shift_pressed \in BOOLEAN
  BY DEF KeyboardTypeOK
<1>1. CharOf(sc) = CharIn(is_e0, shift_pressed, sc)
  BY DEF CharOf, CharIn, PlainChar
<1>2. is_e0' = (sc = E0)
  <2>1. CASE sc = E0
    <3>1. sc \notin ShiftMake \cup ShiftBreak
      BY <2>1 DEF E0, ShiftMake, ShiftBreak
    <3>2. is_e0' = TRUE
      BY <2>1, <3>1 DEF keyboard_handler, Prefix, Extended, ShiftKey, Plain
    <3> QED BY <2>1, <3>2
  <2>2. CASE sc # E0
    <3>1. is_e0' = FALSE
      BY <1>0, <2>2 DEF keyboard_handler, Prefix, Extended, ShiftKey, Plain
    <3> QED BY <2>2, <3>1
  <2> QED BY <2>1, <2>2
<1>3. shift_pressed' = ShiftAfter(is_e0, shift_pressed, sc)
  <2>1. CASE Prefix(sc)
    BY <1>0, <2>1 DEF Prefix, ShiftAfter, E0, ShiftMake, ShiftBreak
  <2>2. CASE Extended(sc)
    BY <1>0, <2>2 DEF Extended, ShiftAfter
  <2>3. CASE ShiftKey(sc)
    <3>1. ShiftMake \cap ShiftBreak = {}
      BY DEF ShiftMake, ShiftBreak
    <3>2. ~is_e0
      BY <2>3 DEF ShiftKey
    <3>3. CASE sc \in ShiftMake
      <4>1. shift_pressed' = TRUE
        BY <2>3, <3>1, <3>3 DEF ShiftKey
      <4> QED BY <3>2, <3>3, <4>1 DEF ShiftAfter
    <3>4. CASE sc \in ShiftBreak /\ sc \notin ShiftMake
      <4>1. shift_pressed' = FALSE
        BY <2>3, <3>4 DEF ShiftKey
      <4> QED BY <3>2, <3>4, <4>1 DEF ShiftAfter
    <3> QED BY <2>3, <3>3, <3>4 DEF ShiftKey
  <2>4. CASE Plain(sc)
    BY <1>0, <2>4 DEF Plain, ShiftAfter
  <2> QED BY <2>1, <2>2, <2>3, <2>4 DEF keyboard_handler
<1> QED BY <1>1, <1>2, <1>3

LEMMA NextLine ==
  ASSUME ShiftsHeld <= 1
  PROVE  TypingTypeOK /\ LineInv /\ [TypingNext]_typingVars => LineInv'
<1> SUFFICES ASSUME TypingTypeOK, LineInv, [TypingNext]_typingVars PROVE LineInv'
  OBVIOUS
<1>1. CASE Deliver
  <2>1. /\ line \in Seq(Code) /\ line # << >> /\ keyboard_handler(Head(line).sc)
        /\ line' = Tail(line) /\ held' = held
        /\ Head(line).sc \in Scancode
    BY <1>1, DeliverTakes
  <2>4. /\ is_e0' = (Head(line).sc = E0)
        /\ shift_pressed' = ShiftAfter(is_e0, shift_pressed, Head(line).sc)
    BY <2>1, HandlerTakes DEF TypingTypeOK
  <2>5. Means(Tail(line), Head(line).sc = E0, ShiftAfter(is_e0, shift_pressed, Head(line).sc),
              FALSE, held # {})
    <3>1. is_e0 \in BOOLEAN /\ shift_pressed \in BOOLEAN /\ (held # {}) \in BOOLEAN
      BY DEF TypingTypeOK, KeyboardTypeOK
    <3>2. Means(line, is_e0, shift_pressed, FALSE, held # {})
      BY DEF LineInv
    <3> QED BY <2>1, <3>1, <3>2, MeansRest, ZenonT(60)
  <2> QED BY <2>1, <2>4, <2>5 DEF LineInv, OneHeld
<1>2. CASE Read \/ UNCHANGED typingVars
  BY <1>2 DEF Read, StartDrain, HasLoadHead, HasTest, GetLoadHead, GetTest, GetRead, GetStore, Used,
              typingVars, kbdVars, LineInv, OneHeld
<1> QED BY <1>1, <1>2, ShiftKeepsLine, TypeKeyKeepsLine, TypeArrowKeepsLine DEF TypingNext

LEMMA LineAlways ==
  ASSUME ShiftsHeld <= 1
  PROVE  TypingSpec => [](TypingInv /\ LineInv)
<1>1. TypingInit => LineInv
  <2> SUFFICES ASSUME TypingInit PROVE LineInv
    OBVIOUS
  <2>4. Means(<< >>, FALSE, FALSE, FALSE, FALSE)
    <3>1. <<FALSE, FALSE>> \in Flags
      BY DEF Flags
    <3> QED BY <3>1, RunsNone DEF Means
  <2>5. line = << >> /\ is_e0 = FALSE /\ shift_pressed = FALSE /\ held = {}
    BY DEF TypingInit, KeyboardInit
  <2>6. (held # {}) = FALSE /\ OneHeld
    BY <2>5 DEF OneHeld
  <2> QED BY <2>4, <2>5, <2>6, Zenon DEF LineInv
<1>2. TypingInv => TypingTypeOK
  BY DEF TypingInv
<1> QED BY <1>1, <1>2, TypingInvAlways, NextLine, PTL DEF TypingSpec

(* What is delivered next is decoded to the character that was typed, as   *)
(* long as no two shift keys are held at once (ps2_keyboard.c:44-93).      *)
THEOREM DecodedAsTypedAlways ==
  ASSUME ShiftsHeld <= 1
  PROVE  TypingSpec => []DecodedAsTyped
<1>1. TypingInv /\ LineInv => DecodedAsTyped
  <2> SUFFICES ASSUME TypingInv, LineInv, line # << >>
               PROVE  CharOf(Head(line).sc) = Head(line).typed
    BY DEF DecodedAsTyped
  <2>1. /\ line \in Seq(Code) /\ is_e0 \in BOOLEAN /\ shift_pressed \in BOOLEAN
        /\ (held # {}) \in BOOLEAN
    BY DEF TypingInv, TypingTypeOK, KeyboardTypeOK
  <2>2. Means(line, is_e0, shift_pressed, FALSE, held # {})
    BY DEF LineInv
  <2>3. CharIn(is_e0, shift_pressed, Head(line).sc) = Head(line).typed
    BY <2>1, <2>2, MeansRest
  <2> QED BY <2>3 DEF CharOf, CharIn, PlainChar
<1> QED BY <1>1, LineAlways, PTL

(* No character that was typed is lost but to a full ring, as long as no   *)
(* two shift keys are held at once (ps2_keyboard.c:65, 87).                *)
THEOREM DropOnlyWhenFullAlways ==
  ASSUME ShiftsHeld <= 1
  PROVE  TypingSpec => DropOnlyWhenFull
<1>1. ASSUME TypingInv, DecodedAsTyped, Deliver, Head(line).typed # NUL
      PROVE  Waiting' = Waiting + 1 \/ Waiting = KBD_BUFFER_SIZE - 1
  <2> DEFINE sc == Head(line).sc
  <2>1. line # << >> /\ keyboard_handler(sc) /\ CharOf(sc) # NUL
    BY <1>1 DEF Deliver, DecodedAsTyped
  <2> HIDE DEF sc
  <2>2. /\ kbd_head \in Slot /\ kbd_tail \in Slot /\ kbd_tail' = kbd_tail
        /\ KBD_BUFFER_SIZE \in Nat /\ KBD_BUFFER_SIZE > 1
    BY <1>1, <2>1, RingAssumption DEF TypingInv, TypingTypeOK, KeyboardTypeOK, keyboard_handler
  <2>3. Push(CharOf(sc))
    BY <2>1 DEF keyboard_handler, Prefix, Extended, ShiftKey, Plain, CharOf
  <2>4. CASE Inc(kbd_head) # kbd_tail
    <3>1. kbd_head' = IF kbd_head = KBD_BUFFER_SIZE - 1 THEN 0 ELSE kbd_head + 1
      BY <2>1, <2>2, <2>3, <2>4, IncIsNextSlot DEF Push
    <3>2. kbd_head' # kbd_tail
      BY <2>1, <2>2, <2>3, <2>4 DEF Push
    <3> QED BY <2>2, <3>1, <3>2 DEF Waiting, Slot
  <2>5. CASE Inc(kbd_head) = kbd_tail
    BY <2>2, <2>5, IncIsNextSlot DEF Waiting, Slot
  <2> QED BY <2>4, <2>5
<1>2. TypingInv /\ DecodedAsTyped => [Deliver /\ Head(line).typed # NUL
        => Waiting' = Waiting + 1 \/ Waiting = KBD_BUFFER_SIZE - 1]_typingVars
  BY <1>1
<1> QED BY <1>2, TypingInvAlways, DecodedAsTypedAlways, PTL DEF DropOnlyWhenFull
=============================================================================
