-------------------------------- MODULE Repl --------------------------------
(***************************************************************************)
(* The console and the interpreter together, as the drain loop of          *)
(* kernel_main drives them: one character at a time, and while a line is   *)
(* evaluated the loop waits.  That the characters arrive whole and in      *)
(* order is the business of module Kernel.                                 *)
(***************************************************************************)
EXTENDS SerpentC, Console

CONSTANTS
  BootScript,   \* the script kernel_main runs before its loop
  Keys,         \* characters the keyboard delivers
  MaxKeys       \* bound: characters typed

(* What a line that fits the buffer names is a name.                       *)
ASSUME ReplAssumption ==
  /\ BootScript \in Script
  /\ \A n \in 1 .. CONSOLE_PROMPT_MAX - 1 : \A f \in [1 .. n -> Printable \cap Alnum] :
       f[1] \in Alpha => f \in Name

VARIABLES
  booted,       \* the boot script has been started
  keys,         \* how many characters have been typed
  line,         \* the line as the person sees themselves typing it
  printed       \* history: every line printed

vars == <<scVars, consoleVars, booted, keys, line, printed>>

BACKTICK == "BACKTICK"
Toggle == {BACKTICK, "~"}

(* The fixed texts are far shorter than a line and stand as one symbol.    *)
Banner == << <<"Online.">>, <<"Type commands.">> >>
Message == [assigned |-> <<"Variable assigned.">>, executed |-> <<"Command executed.">>,
            unknown |-> <<"Error: unknown function.">>]

(* What a row is made of.                                                  *)
Glyph == Printable \cup {">", " ", "Online.", "Type commands.", "Variable assigned.",
                         "Command executed.", "Error: unknown function."}
TextTypeOK == history \in [Row -> Seq(Glyph)] /\ printed \in Seq(Seq(Glyph))

Init ==
  /\ serpentc_init
  /\ console_init(Banner[1], Banner[2])
  /\ booted = FALSE
  /\ keys = 0
  /\ line = << >>
  /\ printed = Banner

Boot ==
  /\ ~booted
  /\ booted' = TRUE
  /\ Eval(BootScript)
  /\ UNCHANGED <<consoleVars, keys, line, printed>>

-----------------------------------------------------------------------------
(* A character from the ring, with nothing being evaluated.                *)
Typed ==
  /\ booted
  /\ pc = "idle"
  /\ keys < MaxKeys
  /\ keys' = keys + 1
  /\ UNCHANGED booted

ToggleKey(c) ==
  /\ Typed
  /\ c \in Toggle
  /\ console_toggle
  /\ UNCHANGED <<scVars, line, printed>>

EraseKey(c) ==
  /\ Typed
  /\ c = BACKSPACE
  /\ Erase
  /\ line' = SubSeq(line, 1, Len(line) - 1)
  /\ UNCHANGED <<scVars, printed>>

InsertKey(c) ==
  /\ Typed
  /\ c \in Printable \ Toggle
  /\ Insert(c)
  /\ line' = Append(line, c)
  /\ UNCHANGED <<scVars, printed>>

EnterKey(c) ==
  /\ Typed
  /\ c = NEWLINE
  /\ EnterLine
  /\ Eval(CString(prompt_buf))
  /\ printed' = Append(printed, LogEntry(line))
  /\ UNCHANGED line

IgnoredKey(c) ==
  /\ Typed
  /\ c \notin Toggle
  /\ Ignored(c)
  /\ UNCHANGED <<scVars, consoleVars, line, printed>>

Key(c) == ToggleKey(c) \/ EraseKey(c) \/ InsertKey(c) \/ EnterKey(c) \/ IgnoredKey(c)

(* A turn of the interpreter, with what it prints.                         *)
Speak ==
  /\ EvalStep
  /\ out' # out
  /\ console_print(Message[out'[Len(out')]])
  /\ printed' = Append(printed, Message[out'[Len(out')]])
  /\ UNCHANGED <<visible, lineVars, line>>
Quiet ==
  /\ EvalStep
  /\ pc' # "idle"
  /\ out' = out
  /\ UNCHANGED <<consoleVars, printed, line>>

(* serpentc_eval returns; the line that was entered is cleared.            *)
Returned ==
  /\ Return
  /\ ClearLine
  /\ line' = << >>
  /\ UNCHANGED <<visible, historyVars, printed>>

Evaluate == (Speak \/ Quiet \/ Returned) /\ UNCHANGED <<booted, keys>>

(* No key comes.                                                           *)
Wait == booted /\ pc = "idle" /\ UNCHANGED vars

Next == Boot \/ (\E c \in Keys : Key(c)) \/ Evaluate \/ Wait

Spec == Init /\ [][Next]_vars

-----------------------------------------------------------------------------
(* Properties.                                                             *)

(* The buffer is a C string of prompt_len characters: no NUL inside, one   *)
(* behind, always within the buffer, over any sequence of keys and lines   *)
(* (console.c:61-92).                                                      *)
PromptIsString ==
  /\ \A c \in Cell : c < prompt_len => prompt_buf[c] # NUL
  /\ prompt_buf[prompt_len] = NUL

(* The types, and the string: what every key and every line leaves.        *)
ConsoleInv == ConsoleTypeOK /\ EvalTypeOK /\ TextTypeOK /\ PromptIsString

(* What would be evaluated is the line as it was typed and erased, never   *)
(* the rest of a line entered before.                                      *)
LineAsTyped == CString(prompt_buf) = line

(* The rows are the last lines printed, oldest first, each cut to its      *)
(* width: no line is lost, doubled or out of order while the rows move up, *)
(* and none of them is a line the person did not enter or the interpreter  *)
(* did not say (console.c:33-59).                                          *)
HistoryIsTail ==
  /\ history_count = IF Len(printed) < CONSOLE_MAX_HISTORY THEN Len(printed) ELSE CONSOLE_MAX_HISTORY
  /\ \A r \in Row : r < history_count =>
       history[r] = Fit(printed[Len(printed) - history_count + r + 1])
=============================================================================
