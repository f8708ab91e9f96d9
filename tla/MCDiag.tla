------------------------------- MODULE MCDiag -------------------------------
(* The two ways the kernel has to say something before it draws.  They     *)
(* share nothing, so a behaviour is about one of them.                     *)
EXTENDS Serial, Terminal

CONSTANTS MaxPrints, MaxChars    \* bounds: calls of kprintf; characters on the text screen

VARIABLES subject, calls
vars == <<serialVars, terminalVars, subject, calls>>

Init ==
  /\ SerialInit
  /\ vga_text_init
  /\ subject \in {"log", "screen"}
  /\ calls = 0

Log ==
  \/ UNCHANGED calls /\ (serial_init \/ Poll \/ Send \/ Transmit)
  \/ /\ calls < MaxPrints
     /\ calls' = calls + 1
     /\ \E fmt \in Formats : kprintf(fmt)
Screen ==
  /\ calls < MaxChars
  /\ calls' = calls + 1
  /\ TerminalNext
Next ==
  \/ subject = "log" /\ Log /\ UNCHANGED <<terminalVars, subject>>
  \/ subject = "screen" /\ Screen /\ UNCHANGED <<serialVars, subject>>
  \/ calls >= MaxPrints /\ out = << >> /\ uart.fifo = << >> /\ UNCHANGED vars

Spec == Init /\ [][Next]_vars

MCLetter == {"a", "b", "q", "\n"}
Items == { <<"text", "a">>, <<"text", "\n">>, <<"end", 0>>, <<"%", 0>>, <<"q", 0>>, <<"c", "\n">>,
           <<"s", NULL>>, <<"s", << >> >>, <<"s", <<"\n", "b">> >> }
         \cup ({"d", "i"} \X {-8, -1, 0, 7}) \cup ({"u"} \X {0, 9, 10, 15}) \cup ({"x", "p"} \X {0, 9, 10, 15, 16, 255})
MCFormats == {<< >>} \cup {<<i>> : i \in Items} \cup {<<i, j>> : i, j \in Items}
=============================================================================
