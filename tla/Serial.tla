------------------------------- MODULE Serial -------------------------------
(***************************************************************************)
(* The log on COM1, kernel/arch/x86_64/serial.c: the set-up of the UART    *)
(* and kprintf, which waits for the transmitter before every byte while    *)
(* the UART sends at its own pace.  No handler prints.                     *)
(***************************************************************************)
EXTENDS Integers, Sequences, SequencesExt

CONSTANTS
  FIFO,        \* bytes the transmitter holds (16)
  LONG,        \* a uint64_t holds 0 .. LONG - 1
  NULL,        \* a string argument that is no string
  Letter,      \* the characters of formats and strings
  Formats      \* formats with their arguments, as sequences of items: <<"text", character>>,
               \* a conversion <<letter, argument>>, <<"end", 0>> for a % at the end

ASSUME SerialAssumption == FIFO \in Nat \ {0} /\ LONG \in Nat \ {0} /\ LONG % 2 = 0

(* The arguments are what the conversions take.                            *)
Item == ({"text", "c"} \X Letter) \cup ({"s"} \X ({NULL} \cup Seq(Letter)))
        \cup ({"d", "i"} \X (-(LONG \div 2) .. (LONG \div 2) - 1)) \cup ({"u", "x", "p"} \X (0 .. LONG - 1))
        \cup (({"end", "%"} \cup (Letter \ {"text", "c", "s"})) \X {0})
ASSUME FormatsAssumption == Formats \subseteq Seq(Item)

VARIABLES
  setup,       \* the writes of serial_init still to come: <<register, value>>
  uart,        \* dlab, format, divisor, ier; fifo: the bytes it has to send
  out,         \* what the running kprintf has still to put out
  ready,       \* the transmitter was seen empty
  owed         \* history: what was printed and has not left the UART

serialVars == <<setup, uart, out, ready, owed>>

MutSetup == << <<1, 0>>, <<3, 128>>, <<0, 3>>, <<1, 0>>, <<2, 199>>, <<4, 11>> >>   \* DLAB stays set
Setup == << <<1, 0>>, <<3, 128>>, <<0, 3>>, <<1, 0>>, <<3, 3>>, <<2, 199>>, <<4, 11>> >>

(* The UART as the firmware leaves it, at some other rate.                 *)
SerialInit ==
  /\ setup = Setup
  /\ uart = [dlab |-> FALSE, format |-> 0, divisor |-> <<12, 0>>, ier |-> 1, fifo |-> << >>]
  /\ out = << >>
  /\ ready = FALSE
  /\ owed = << >>

(* outb.  Behind DLAB the first two registers are the divisor; a byte for  *)
(* a full transmitter is lost; bit 2 of register 2 empties it.             *)
Written(u, reg, val) ==
  CASE reg = 0 /\ u.dlab          -> [u EXCEPT !.divisor[1] = val]
    [] reg = 0 /\ ~u.dlab         -> [u EXCEPT !.fifo = IF Len(@) < FIFO THEN Append(@, val) ELSE @]
    [] reg = 1 /\ u.dlab          -> [u EXCEPT !.divisor[2] = val]
    [] reg = 1 /\ ~u.dlab         -> [u EXCEPT !.ier = val]
    [] reg = 2                    -> [u EXCEPT !.fifo = IF (val \div 4) % 2 = 1 THEN << >> ELSE @]
    [] reg = 3                    -> [u EXCEPT !.dlab = val >= 128, !.format = val % 128]
    [] OTHER                      -> u

serial_init ==
  /\ setup # << >>
  /\ uart' = Written(uart, Head(setup)[1], Head(setup)[2])
  /\ setup' = Tail(setup)
  /\ UNCHANGED <<out, ready, owed>>

-----------------------------------------------------------------------------
(* kprintf: the bytes it puts out.                                         *)

Digits == <<"0", "1", "2", "3", "4", "5", "6", "7", "8", "9", "A", "B", "C", "D", "E", "F">>

(* buf is filled from the last digit on and put out from its other end.    *)
Numeral(val, base) ==
  LET buf[v \in 0 .. val] == IF v = 0 THEN << >> ELSE <<Digits[(v % base) + 1]>> \o buf[v \div base]
  IN IF val = 0 THEN <<"0">> ELSE Reverse(buf[val])
print_num(val, base, is_signed) ==
  IF is_signed /\ val >= LONG \div 2 THEN <<"-">> \o Numeral(LONG - val, base) ELSE Numeral(val, base)

MutPut(c) == <<c>>
Put(c) == IF c = "\n" THEN <<"\r", "\n">> ELSE <<c>>
serial_puts(s) == FlattenSeq([i \in DOMAIN s |-> Put(s[i])])

Bytes(item) ==
  LET arg == item[2]
  IN CASE item[1] = "text"       -> Put(arg)
       [] item[1] = "end"        -> << >>
       [] item[1] = "s"          -> serial_puts(IF arg = NULL THEN <<"(", "n", "u", "l", "l", ")">> ELSE arg)
       [] item[1] \in {"d", "i"} -> print_num(arg % LONG, 10, TRUE)
       [] item[1] = "u"          -> print_num(arg, 10, FALSE)
       [] item[1] = "x"          -> print_num(arg, 16, FALSE)
       [] item[1] = "p"          -> <<"0", "x">> \o print_num(arg, 16, FALSE)
       [] item[1] = "c"          -> <<arg>>
       [] item[1] = "%"          -> <<"%">>
       [] OTHER                  -> <<"%", item[1]>>

(* What a reader of the log should see, said without the algorithms: a     *)
(* line end is two characters, a number the numeral that has its value.    *)
ValueOf(ds, base) ==
  LET v[n \in 0 .. Len(ds)] == IF n = 0 THEN 0 ELSE base * v[n - 1] + ds[n] IN v[Len(ds)]
Numerals(n, base, k) == {ds \in [1 .. k -> 0 .. base - 1] : ValueOf(ds, base) = n /\ (k > 1 => ds[1] # 0)}
Shown(n, base) ==
  LET k  == CHOOSE k \in 1 .. n + 1 : Numerals(n, base, k) # {}
      ds == CHOOSE ds \in Numerals(n, base, k) : TRUE
  IN [i \in 1 .. k |-> Digits[ds[i] + 1]]
Text(s) == FlattenSeq([i \in DOMAIN s |-> IF s[i] = "\n" THEN <<"\r", s[i]>> ELSE <<s[i]>>])
Number(n, base) == (IF n < 0 THEN <<"-">> ELSE << >>) \o Shown(IF n < 0 THEN -n ELSE n, base)
Meant(item) ==
  LET arg == item[2]
  IN CASE item[1] = "text"            -> Text(<<arg>>)
       [] item[1] \in {"d", "i", "u"} -> Number(arg, 10)
       [] item[1] = "x"               -> Number(arg, 16)
       [] item[1] = "p"               -> <<"0", "x">> \o Number(arg, 16)
       [] item[1] = "s" /\ arg # NULL -> Text(arg)
       [] OTHER                       -> Bytes(item)

kprintf(fmt) ==
  /\ setup = << >> /\ out = << >>
  /\ out' = FlattenSeq([i \in DOMAIN fmt |-> Bytes(fmt[i])])
  /\ owed' = owed \o FlattenSeq([i \in DOMAIN fmt |-> Meant(fmt[i])])
  /\ UNCHANGED <<setup, uart, ready>>

(* serial_putc: while (is_transmit_empty() == 0); outb.                    *)
MutPoll ==             \* no wait
  /\ out # << >> /\ ~ready
  /\ ready' = TRUE
  /\ UNCHANGED <<setup, uart, out, owed>>
Poll ==
  /\ out # << >> /\ ~ready
  /\ ready' = (uart.fifo = << >>)
  /\ UNCHANGED <<setup, uart, out, owed>>
Send ==
  /\ ready
  /\ uart' = Written(uart, 0, Head(out))
  /\ out' = Tail(out)
  /\ ready' = FALSE
  /\ UNCHANGED <<setup, owed>>

(* The UART sends a byte.                                                  *)
Transmit ==
  /\ uart.fifo # << >>
  /\ uart' = [uart EXCEPT !.fifo = Tail(@)]
  /\ owed' = Tail(owed)
  /\ UNCHANGED <<setup, out, ready>>

SerialNext ==
  \/ serial_init
  \/ \E fmt \in Formats : kprintf(fmt)
  \/ Poll \/ Send
  \/ Transmit

SerialSpec == SerialInit /\ [][SerialNext]_serialVars

(* What is printed arrives, all of it and in order, at the rate and in the *)
(* format that were set, and no interrupt is asked for: what has not left  *)
(* the UART is what it holds and what kprintf has still to put out         *)
(* (serial.c:5-33, 35-120).                                                *)
LogAsPrinted ==
  /\ owed = uart.fifo \o out
  /\ uart.fifo # << >> => ~uart.dlab /\ uart.divisor = <<3, 0>> /\ uart.format = 3 /\ uart.ier = 0
=============================================================================
