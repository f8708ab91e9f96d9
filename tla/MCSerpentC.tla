----------------------------- MODULE MCSerpentC -----------------------------
(* Values for the constants of SerpentCSystem: short names, bytes for      *)
(* words, the built-ins' own arities.                                      *)
EXTENDS SerpentCSystem, TLC

A == <<"a">>
B == <<"b", "1">>
MCName == {<<x>> \o y : x \in {"a", "k"}, y \in {<< >>, <<"a">>, <<"k">>, <<"1">>}} \cup
          {<< >>, B, <<"b">>, <<"c">>, <<"r">>, <<"d">>, <<"t">>, <<"u">>, <<"_", "a">>, <<"a", "k", "a">>}
MCWord == 0 .. 255
MCPredefined == << << <<"c">>, 9 >> >>
(* feather_rect, feather_draw_circle, feather_clear and tonal_now.         *)
MCArity == (<<"r">> :> 5) @@ (<<"d">> :> 4) @@ (<<"k">> :> 1) @@ (<<"t">> :> 0)

Num(text, n) == [text |-> text, number |-> n]
Var(n) == [var |-> n]
Exprs == { Num(<<"7">>, 7), Num(<<"3", "0", "0">>, 44), Num(<<"0", "x", "1", "F">>, 31),
           Num(<<"0", "X">>, 0), Var(A), Var(B), Var(<<"c">>) }

Sets  == {[set |-> n, to |-> e] : n \in {A, B}, e \in Exprs}
Calls == {[call |-> <<"k">>, with |-> es] : es \in {<< >>} \cup {<<e>> : e \in Exprs}
                                           \cup {<<e, Var(A)>> : e \in Exprs}}
         \cup {[call |-> f, with |-> << >>] : f \in {<<"t">>, <<"u">>}}
         \cup {[call |-> <<"r">>, with |-> [i \in 1 .. n |-> e]] : n \in {4, 5, 9}, e \in Exprs}
         \cup {[call |-> <<"d">>, with |-> <<Var(A), Num(<<"1">>, 1), Var(B), Num(<<"2">>, 2)>>]}
(* More names than the table has room for, and one that is too long.       *)
Fill(n) == [set |-> n, to |-> Num(<<"7">>, 7)]
Names3 == {A, B, <<"c">>, <<"t">>, <<"a", "k", "a">>}
Crowded == {<<Fill(x), Fill(y), Fill(z), [call |-> <<"k">>, with |-> <<Var(z)>>]>> : x, y, z \in Names3}
MCPrograms == {<<s>> : s \in Sets \cup Calls} \cup {<<s, t>> : s \in Sets, t \in Sets \cup Calls}
              \cup Crowded

MCGaps == {<< >>, <<" ">>}

(* All texts over a few characters, one of them foreign to the language.   *)
Characters == {"a", "k", "1", "(", ")", ",", "=", ";", "@"}
AllTexts == UNION {[1 .. n -> Characters] : n \in 0 .. 4}
            \cup {<<"k", "(">> \o t : t \in [1 .. 3 -> Characters]}
            \cup {<<"a", "=">> \o t : t \in [1 .. 3 -> Characters]}
=============================================================================
