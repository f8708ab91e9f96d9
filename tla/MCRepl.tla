------------------------------- MODULE MCRepl -------------------------------
(* Values for the constants of Repl: a buffer for three characters, three  *)
(* rows of four.                                                           *)
EXTENDS Repl, TLC

MCName == {<< >>, <<"c">>, <<"t">>} \cup {<<"a">> \o t : t \in UNION {[1 .. n -> {"a", "1"}] : n \in 0 .. 2}}
MCWord == 0 .. 15
MCPredefined == << << <<"c">>, 9 >> >>
MCArity == <<"t">> :> 0
MCPrintable == {"a", "=", "1", "~"}
MCKeys == MCPrintable \cup {BACKSPACE, NEWLINE, "\t"}
MCBootScript == <<"t", "(", ")", ";">>
=============================================================================
