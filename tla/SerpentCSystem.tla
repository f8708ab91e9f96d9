--------------------------- MODULE SerpentCSystem ---------------------------
(***************************************************************************)
(* The interpreter given scripts one after the other: any texts, and the   *)
(* programs of the grammar of docs/PHASE_2_PLAN.md with what they mean.    *)
(***************************************************************************)
EXTENDS SerpentC

CONSTANTS
  Texts,       \* texts that need not be programs
  Programs,    \* sequences of statements
  Gaps,        \* blanks a program may be written with
  MaxEvals     \* bound: scripts evaluated

VARIABLES
  evals,       \* how many scripts have been started
  meant        \* what the programs so far mean: environment, drawings, messages;
               \* known unless some text was no program

vars == <<scVars, evals, meant>>

(* A name of the language, and the number its digits say: what does not    *)
(* fit a word counts modulo its size.                                      *)
Identifier == {w \in Name : w # << >> /\ w[1] \in Alpha /\ \A i \in 1 .. Len(w) : w[i] \in Alnum}
Says(digits, base) ==
  LET value[n \in 0 .. Len(digits)] ==
        IF n = 0 THEN 0 ELSE value[n - 1] * base + DigitValue[digits[n]]
  IN value[Len(digits)] % WORD
IsDecimal(e) == e.text # << >> /\ e.text \in Seq(Digit) /\ e.number = Says(e.text, 10)
IsHexadecimal(e) ==
  \E x \in {"x", "X"} :
    /\ Len(e.text) >= 2 /\ e.text[1] = "0" /\ e.text[2] = x
    /\ e.number = Says(SubSeq(e.text, 3, Len(e.text)), 16)
    /\ SubSeq(e.text, 3, Len(e.text)) \in Seq(Hex)

(* A statement is [set |-> name, to |-> expression] or [call |-> name,     *)
(* with |-> expressions]; an expression is a number as it is written with  *)
(* its value, [text |-> digits, number |-> value], or [var |-> name].      *)
Expression == [var : Identifier] \cup
              {e \in [text : Seq(Hex \cup {"x", "X"}), number : Word] : IsDecimal(e) \/ IsHexadecimal(e)}
Statement  == [set : Identifier, to : Expression] \cup [call : Identifier, with : Seq(Expression)]
ASSUME ProgramsAssumption ==
  /\ Programs \subseteq Seq(Statement)
  /\ Gaps \subseteq Seq(Blank)

IsSet(s) == "set" \in DOMAIN s
IsVar(e) == "var" \in DOMAIN e

(* How a program is written.                                               *)
Spelled(first, pieces) ==
  LET text[n \in 0 .. Len(pieces)] == IF n = 0 THEN first ELSE text[n - 1] \o pieces[n]
  IN text
ExprText(e) == IF IsVar(e) THEN e.var ELSE e.text
Entry(es, n, gap) == (IF n = 1 THEN << >> ELSE <<",">> \o gap) \o ExprText(es[n])
ListTo(es, gap) ==       \* the first n entries
  Spelled(<< >>, [n \in 1 .. Len(es) |-> Entry(es, n, gap)])
ListText(es, gap) == ListTo(es, gap)[Len(es)]
StatementText(s, gap) ==
  IF IsSet(s) THEN s.set \o gap \o <<"=">> \o gap \o ExprText(s.to) \o <<";">> \o gap
  ELSE s.call \o <<"(">> \o gap \o ListText(s.with, gap) \o <<")">> \o gap \o <<";">>
TextTo(p, gap) ==        \* the first n statements
  Spelled(gap, [n \in 1 .. Len(p) |-> StatementText(p[n], gap)])
ProgramText(p, gap) == TextTo(p, gap)[Len(p)]

(* What it means: statements in order, each in the environment the ones    *)
(* before have left, names without a value counting 0.  What finds no room *)
(* is reported like any other assignment (serpentc.c:47-48).               *)
Denotes(env, e) == IF ~IsVar(e) THEN e.number
                   ELSE IF e.var \in DOMAIN env THEN env[e.var] ELSE 0
Understood(s) == s.call \in DOMAIN Arity /\ Len(s.with) >= Arity[s.call]
HasRoom(env, n) == /\ Len(n) < SERPENTC_MAX_NAME
                   /\ n \in DOMAIN env \/ Cardinality(DOMAIN env) < SERPENTC_MAX_VARS
Executed(m, s) ==
  IF IsSet(s)
  THEN [m EXCEPT !.env = IF HasRoom(m.env, s.set)
                         THEN [n \in DOMAIN @ \cup {s.set} |->
                                 IF n = s.set THEN Denotes(m.env, s.to) ELSE m.env[n]]
                         ELSE @,
                 !.out = Append(@, "assigned")]
  ELSE IF Understood(s)
  THEN [m EXCEPT !.drawn = Append(@, << s.call,
                    [i \in 1 .. Arity[s.call] |-> Denotes(m.env, s.with[i])] >>),
                 !.out = Append(@, "executed")]
  ELSE [m EXCEPT !.out = Append(@, "unknown")]
MeaningTo(m, p) ==
  LET after[n \in 0 .. Len(p)] == IF n = 0 THEN m ELSE Executed(after[n - 1], p[n])
  IN after
Meaning(m, p) == MeaningTo(m, p)[Len(p)]

Init ==
  /\ serpentc_init
  /\ evals = 0
  /\ meant = [known |-> TRUE, env |-> [n \in Defined |-> symbol_get(n)], drawn |-> << >>, out |-> << >>]

EvalText(t) ==
  /\ evals < MaxEvals
  /\ evals' = evals + 1
  /\ Eval(t)
  /\ meant' = [meant EXCEPT !.known = FALSE]

EvalProgram(p, gap) ==
  /\ evals < MaxEvals
  /\ evals' = evals + 1
  /\ Eval(ProgramText(p, gap))
  /\ meant' = Meaning(meant, p)

Run == EvalStep /\ UNCHANGED <<evals, meant>>

(* Nothing is typed.                                                       *)
Wait == pc = "idle" /\ UNCHANGED vars

Next ==
  \/ \E t \in Texts : EvalText(t)
  \/ \E p \in Programs, gap \in Gaps : EvalProgram(p, gap)
  \/ Run
  \/ Wait

Spec == Init /\ [][Next]_vars

-----------------------------------------------------------------------------
(* Properties.                                                             *)

(* A program of the grammar does what it says, statement by statement: the *)
(* environment, the drawings with their arguments and the messages are     *)
(* those of its meaning, however it is spaced and whatever ran before; an  *)
(* assignment that finds no room changes nothing (serpentc.c:30-93).       *)
RunsAsWritten ==
  pc = "idle" /\ meant.known =>
                 /\ [n \in Defined |-> symbol_get(n)] = meant.env
                 /\ drawn = meant.drawn
                 /\ out = meant.out
=============================================================================
