------------------------------ MODULE SerpentC ------------------------------
(***************************************************************************)
(* The interpreter, kernel/serpentc/serpentc.c: serpentc_eval reads tokens *)
(* straight from the text it was given and executes as it goes.  One turn  *)
(* of its loops is one action, with every call it makes.                   *)
(***************************************************************************)
EXTENDS Lexer, Symbols

CONSTANT Arity    \* the built-ins of dispatch_builtin: name -> arguments needed

ASSUME ArityAssumption ==
  /\ DOMAIN Arity \subseteq Name
  /\ \A f \in DOMAIN Arity : Arity[f] \in 0 .. 8

ASSUME ValuesAssumption == Word = 0 .. WORD - 1

VARIABLES
  script,     \* the text
  pc,         \* idle, at the head of the main loop, in the argument loop, behind it
  tok,        \* the current token
  name_tok,   \* the name that is called
  args,       \* args[0 .. arg_count - 1]
  out,        \* history: the messages printed
  drawn       \* history: the built-ins executed, each with its arguments

evalVars == <<script, pc, tok, name_tok, args>>
scVars   == <<symbols, evalVars, out, drawn>>

MaxArgs == 8

Messages == {"assigned", "executed", "unknown"}

(* The tokens a text can be read as, and the texts whose identifiers are   *)
(* names.                                                                  *)
Tokens(text) == {lexer_next(text, p) : p \in 1 .. Len(text) + 1}
Script == {text \in Seq(STRING) : \A t \in Tokens(text) : t.type = "IDENTIFIER" => t.text \in Name}

EvalTypeOK ==
  /\ SymbolsTypeOK
  /\ script \in Script
  /\ pc \in {"idle", "top", "args", "dispatch"}
  /\ tok \in Tokens(script)
  /\ args \in Seq(Word) /\ Len(args) <= MaxArgs
  /\ out \in Seq(Messages)

Is(t, type) == t.type = type
Next1(t) == lexer_next(script, t.next)

serpentc_init ==
  /\ builtins_init
  /\ script = << >>
  /\ pc = "idle"
  /\ tok = lexer_next(<< >>, 1)
  /\ name_tok = << >>
  /\ args = << >>
  /\ out = << >>
  /\ drawn = << >>

(* The call: serpentc_eval(text).                                          *)
Eval(text) ==
  /\ pc = "idle"
  /\ pc' = "top"
  /\ script' = text
  /\ tok' = lexer_next(text, 1)
  /\ UNCHANGED <<symbols, name_tok, args, out, drawn>>

(* parse_expression: the value, and the token behind it.  What is neither  *)
(* a number nor a name counts 0 and is not consumed.                       *)
Value(t) == CASE Is(t, "NUMBER") -> t.value
              [] Is(t, "IDENTIFIER") -> symbol_get(t.text)
              [] OTHER -> 0
After(t) == IF t.type \in {"NUMBER", "IDENTIFIER"} THEN Next1(t) ELSE t

(* if (tok.type == ...) tok = lexer_next(&lex);                            *)
Past(t, type) == IF Is(t, type) THEN Next1(t) ELSE t

Running == tok.type \notin {"EOF", "ERROR"}

(* IDENTIFIER = expression ;                                               *)
Assignment ==
  /\ pc = "top"
  /\ Is(tok, "IDENTIFIER")
  /\ LET sign == Next1(tok)
         e == Next1(sign)
     IN /\ Is(sign, "ASSIGN")
        /\ symbol_set(tok.text, Value(e))
        /\ tok' = Past(After(e), "SEMICOLON")
  /\ out' = Append(out, "assigned")
  /\ UNCHANGED <<script, pc, name_tok, args, drawn>>

(* IDENTIFIER ( : the arguments follow.                                    *)
Call ==
  /\ pc = "top"
  /\ Is(tok, "IDENTIFIER")
  /\ Is(Next1(tok), "LPAREN")
  /\ pc' = "args"
  /\ name_tok' = tok.text
  /\ args' = << >>
  /\ tok' = Next1(Next1(tok))
  /\ UNCHANGED <<script, symbols, out, drawn>>

(* One argument; those behind the eighth are dropped.  Anything but a      *)
(* comma or a bracket ends the list.                                       *)
InList == pc = "args" /\ tok.type \notin {"RPAREN", "EOF", "ERROR"}

MutArgument ==         \* the list goes on whatever follows
  /\ InList
  /\ args' = IF Len(args) < MaxArgs THEN Append(args, Value(tok)) ELSE args
  /\ tok' = Past(After(tok), "COMMA")
  /\ UNCHANGED <<pc, script, symbols, name_tok, out, drawn>>
Argument ==
  /\ InList
  /\ args' = IF Len(args) < MaxArgs THEN Append(args, Value(tok)) ELSE args
  /\ tok' = Past(After(tok), "COMMA")
  /\ pc' = IF After(tok).type \in {"COMMA", "RPAREN"} THEN "args" ELSE "dispatch"
  /\ UNCHANGED <<script, symbols, name_tok, out, drawn>>

(* dispatch_builtin: the name is known and there are enough arguments.     *)
MutDispatches == name_tok \in DOMAIN Arity /\ Len(args) = Arity[name_tok]   \* no more than needed
Dispatches == name_tok \in DOMAIN Arity /\ Len(args) >= Arity[name_tok]

Dispatch ==
  /\ pc \in {"args", "dispatch"}
  /\ ~InList
  /\ IF Dispatches
     THEN /\ drawn' = Append(drawn, <<name_tok, SubSeq(args, 1, Arity[name_tok])>>)
          /\ out' = Append(out, "executed")
     ELSE /\ out' = Append(out, "unknown")
          /\ UNCHANGED drawn
  /\ tok' = Past(Past(tok, "RPAREN"), "SEMICOLON")
  /\ pc' = "top"
  /\ UNCHANGED <<script, symbols, name_tok, args>>

(* A name and what follows it are skipped together, other tokens one by    *)
(* one.                                                                    *)
Skip ==
  /\ pc = "top"
  /\ Running
  /\ IF Is(tok, "IDENTIFIER")
     THEN /\ Next1(tok).type \notin {"ASSIGN", "LPAREN"}
          /\ tok' = Next1(Next1(tok))
     ELSE tok' = Next1(tok)
  /\ UNCHANGED <<script, pc, symbols, name_tok, args, out, drawn>>

(* The end of the text, or a character that begins no token.               *)
Return ==
  /\ pc = "top"
  /\ ~Running
  /\ pc' = "idle"
  /\ UNCHANGED <<script, tok, symbols, name_tok, args, out, drawn>>

EvalStep == Assignment \/ Call \/ Argument \/ Dispatch \/ Skip \/ Return

-----------------------------------------------------------------------------
(* The interpreter on its own, for any sequence of texts.                  *)

SerpentCSpec ==
  serpentc_init /\ [][(\E text \in Script : Eval(text)) \/ EvalStep]_scVars

(* Every evaluation ends, whatever the text is: each step leaves less to   *)
(* do, counted in characters behind the token and, of steps at the same    *)
(* place, by how far they are from the end.  So the main loop, which calls *)
(* it, cannot be stopped by what was typed (serpentc.c:38-92, 59-69).      *)
Stage == CASE pc = "args" /\ Running -> 5
           [] pc = "args" /\ ~Running -> 4
           [] pc = "dispatch" -> 3
           [] pc = "top" /\ Running -> 2
           [] pc = "top" /\ ~Running -> 1
           [] pc = "idle" -> 0
Remaining == 6 * (Len(script) + 1 - tok.next) + Stage
EvalAdvances == [][EvalStep => Remaining' < Remaining]_scVars
=============================================================================
